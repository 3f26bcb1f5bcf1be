---------------------------- MODULE ForecastProps ----------------------------
(***************************************************************************)
(* What the files of a forecast must show, stated over ForecastLedger, and *)
(* the mapping to the abstract Ledger.  All hold for any number of         *)
(* processes.                                                              *)
(***************************************************************************)
EXTENDS ForecastLedger

Time == 0..MaxTime

Version == [probability : Probabilities, cutoff : Time, issued : Time, evidence : SUBSET Nat]

Outcome == [version : Nat, value : Values, at : Time, evidence : SUBSET Nat]

Labels == Idle \cup {"fetch", "issue", "publish", "read", "stamp", "save", "score", "rate",
                  "record"}

Job == [kind : {"none", "research", "monitor", "refresh", "resolve"}, cutoff : Time,
        todo : Seq(RequestKinds), fetched : Seq(Time), ids : SUBSET Nat, base : Nat,
        at : Time, value : Values, outcome : Nat, brier : Nat \cup {None}]

\* Type invariant.
TypeOK ==
    /\ now \in Time /\ cutoff \in Time
    /\ evidence \in Seq(Time)
    /\ collection \subseteq Nat
    /\ versions \in Seq(Version)
    /\ outcomes \in Seq(Outcome)
    /\ DOMAIN scores \subseteq Nat
    /\ \A o \in DOMAIN scores : scores[o] \in [brier : Nat \cup {None}, at : Time]
    /\ pc \in [Procs -> Labels]
    /\ job \in [Procs -> Job]
    /\ launches \in Nat

-----------------------------------------------------------------------------

\* Every version rests on evidence that is on disk and was available by the
\* version's cutoff, and the cutoff is not after the issue, nor the issue after
\* the horizon: no probability was informed by later facts
\* (docs/05-runtime-flows.md:162, forecast_service.py:203).
NoLookAhead ==
    \A i \in DOMAIN versions :
        /\ versions[i].evidence # {}
        /\ versions[i].evidence \subseteq DOMAIN evidence
        /\ \A e \in versions[i].evidence : evidence[e] <= versions[i].cutoff
        /\ versions[i].cutoff <= versions[i].issued
        /\ versions[i].issued <= Horizon

\* Versions are numbered in the order they were issued, although each monitor
\* reads the latest version, reads the clock and saves in separate steps that
\* other monitors come between.
VersionsOrdered ==
    \A i, j \in DOMAIN versions : i < j => versions[i].issued <= versions[j].issued

\* An outcome is dated at or after the horizon, rests on evidence on disk that
\* was available by then, and names a version issued by then, whatever monitors
\* and other resolvers do meanwhile.
OutcomesJustified ==
    \A o \in DOMAIN outcomes :
        /\ outcomes[o].version \in DOMAIN versions
        /\ versions[outcomes[o].version].issued <= outcomes[o].at
        /\ Horizon <= outcomes[o].at
        /\ outcomes[o].evidence # {}
        /\ outcomes[o].evidence \subseteq DOMAIN evidence
        /\ \A e \in outcomes[o].evidence : evidence[e] <= outcomes[o].at

\* A score can be recomputed from the files: it is the rule applied to the
\* outcome and the version that outcome names, not a later one
\* (docs/10-implementation-plan.md:317).
ScoresRecompute ==
    \A o \in DOMAIN scores :
        /\ o \in DOMAIN outcomes
        /\ scores[o].brier =
              Brier(versions[outcomes[o].version].probability, outcomes[o].value)
        /\ outcomes[o].at <= scores[o].at

\* A command that reports success has left what it reports on disk: a resolve its
\* outcome and score, a monitor or refresh a version that cites its evidence
\* (docs/07-extensibility.md:233).
ReportedPersisted ==
    \A p \in Procs : pc[p] = "returned" =>
        /\ job[p].kind = "resolve" => job[p].outcome \in DOMAIN outcomes \cap DOMAIN scores
        /\ job[p].kind \in {"monitor", "refresh"} =>
              \E i \in DOMAIN versions :
                  /\ i = job[p].base + 1
                  /\ versions[i].issued = job[p].at /\ versions[i].evidence = job[p].ids

\* The mapping is the identity on the files; the processes are hidden.
Record == INSTANCE Ledger WITH time <- now

\* Whatever commands race and stop, a reader of the files sees a Ledger.
ImplementsLedger == Record!Spec
=============================================================================

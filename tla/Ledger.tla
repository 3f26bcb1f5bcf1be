------------------------------- MODULE Ledger -------------------------------
(***************************************************************************)
(* What the files of a forecast promise a reader: records are only ever    *)
(* added, one at a time, none of them from the future or changed later;    *)
(* an outcome names a version that was there, and is scored at most once,  *)
(* by the rule applied to the probability of the version it names          *)
(* (docs/02-architecture.md:240, docs/06-markdown-storage.md:358-425).     *)
(***************************************************************************)
EXTENDS Scoring, Sequences

VARIABLES time, versions, outcomes, scores

vars == <<time, versions, outcomes, scores>>

Init ==
    /\ time = 0
    /\ versions = <<>> /\ outcomes = <<>>
    /\ DOMAIN scores = {}

Pass ==
    /\ time' > time
    /\ UNCHANGED <<versions, outcomes, scores>>

\* A version is added; the first one starts the ledger.
Publish ==
    /\ Len(versions') = Len(versions) + 1
    /\ \A i \in DOMAIN versions : versions'[i] = versions[i]
    /\ versions'[Len(versions) + 1].issued <= time
    /\ UNCHANGED <<time, outcomes, scores>>

Settle ==
    /\ Len(outcomes') = Len(outcomes) + 1
    /\ \A o \in DOMAIN outcomes : outcomes'[o] = outcomes[o]
    /\ outcomes'[Len(outcomes) + 1].version \in DOMAIN versions
    /\ outcomes'[Len(outcomes) + 1].at <= time
    /\ UNCHANGED <<time, versions, scores>>

Score ==
    \E o \in DOMAIN outcomes \ DOMAIN scores :
        /\ DOMAIN scores' = DOMAIN scores \cup {o}
        /\ \A q \in DOMAIN scores : scores'[q] = scores[q]
        /\ scores'[o].brier = Brier(versions[outcomes[o].version].probability,
                                    outcomes[o].value)
        /\ outcomes[o].at <= scores'[o].at /\ scores'[o].at <= time
        /\ UNCHANGED <<time, versions, outcomes>>

Next == Pass \/ Publish \/ Settle \/ Score

Spec == Init /\ [][Next]_vars
=============================================================================

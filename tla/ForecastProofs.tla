--------------------------- MODULE ForecastProofs ---------------------------
(***************************************************************************)
(* Proofs about ForecastLedger, for any number of processes, commands,     *)
(* versions, outcomes and units of time.                                   *)
(*                                                                         *)
(* The inductive invariant IInv adds to the properties of the files what   *)
(* each process has made sure of by the time it reaches a label (WorkOK):  *)
(* what it read from a file stays true because files only grow and time    *)
(* only passes (Grow), so a step of another process cannot undo it         *)
(* (WorkStays).  The one thing that shrinks, the outcomes not yet scored,  *)
(* is divided among the processes (ScorersApart).                          *)
(***************************************************************************)
EXTENDS ForecastProps, TLAPS

-----------------------------------------------------------------------------
(* The inductive invariant: the properties of the files, what the issue of *)
(* a forecast relies on, and what each process has made sure of.           *)

\* What the collect checkpoint names is on disk and not after the cutoff.
CollectionSound ==
    /\ collection \subseteq DOMAIN evidence
    /\ \A e \in collection : evidence[e] <= cutoff

\* Nothing on disk is dated in the future.
FilesPast ==
    /\ \A i \in DOMAIN versions : versions[i].issued <= now
    /\ \A o \in DOMAIN outcomes : outcomes[o].at <= now

FilesOK ==
    /\ CollectionSound /\ FilesPast
    /\ NoLookAhead /\ VersionsOrdered /\ OutcomesJustified /\ ScoresRecompute

Issuing(p) ==
    \/ pc[p] \in {"issue", "publish"}
    \/ pc[p] = "fetch" /\ job[p].kind = "research"

\* The crisis run is alone and has issued nothing; the other commands work on a
\* forecast that exists.
Phases ==
    \A p \in Procs :
        /\ Issuing(p) => versions = <<>> /\ \A q \in Procs \ {p} : pc[q] \in Idle
        /\ pc[p] \notin Idle /\ ~Issuing(p) => versions # <<>>

FetchOK(p) ==
    /\ job[p].kind \in {"research", "refresh"}
    /\ job[p].kind = "research" => job[p].cutoff = cutoff
    /\ job[p].ids \subseteq DOMAIN evidence
    /\ \A e \in job[p].ids : evidence[e] <= job[p].cutoff
    /\ \A k \in DOMAIN job[p].fetched : job[p].fetched[k] <= job[p].cutoff
    /\ \/ \E k \in DOMAIN job[p].todo : job[p].todo[k] # "filing"
       \/ job[p].fetched # <<>> \/ job[p].ids # {}

StampedOK(p) ==
    /\ job[p].at <= now
    /\ versions[job[p].base].issued <= job[p].at
    /\ \A e \in job[p].ids : evidence[e] <= job[p].at
    /\ IF job[p].kind = "resolve" THEN Horizon <= job[p].at ELSE job[p].at <= Horizon

Scoring(p) == pc[p] \in {"score", "rate", "record"}

\* The score that process p has computed from the files.
RatedOK(p) ==
    job[p].brier = Brier(versions[outcomes[job[p].outcome].version].probability,
                         outcomes[job[p].outcome].value)

\* What process p has made sure of when it stands at its label.
WorkOK(p) ==
    /\ pc[p] = "fetch" => FetchOK(p)
    /\ pc[p] \in {"issue", "publish"} => job[p].kind = "research" /\ collection # {}
    /\ pc[p] = "publish" => cutoff <= job[p].at /\ job[p].at <= now
    /\ pc[p] \in {"read", "stamp", "save"} =>
          /\ job[p].kind \in {"monitor", "refresh", "resolve"}
          /\ job[p].ids # {} /\ job[p].ids \subseteq DOMAIN evidence
    /\ pc[p] \in {"stamp", "save"} => job[p].base \in DOMAIN versions
    /\ pc[p] = "save" => StampedOK(p)
    /\ Scoring(p) =>
          job[p].kind = "resolve" /\ job[p].outcome \in DOMAIN outcomes \ DOMAIN scores
    /\ pc[p] \in {"rate", "record"} => RatedOK(p)
    /\ pc[p] = "record" => outcomes[job[p].outcome].at <= job[p].at /\ job[p].at <= now

\* No two processes are about to score the same outcome.
ScorersApart ==
    \A p, q \in Procs :
        p # q /\ Scoring(p) /\ Scoring(q) => job[p].outcome # job[q].outcome

IInv ==
    /\ TypeOK /\ FilesOK /\ Phases /\ ScorersApart /\ ReportedPersisted
    /\ \A p \in Procs : WorkOK(p)

-----------------------------------------------------------------------------
(* Type correctness.                                                       *)

LEMMA NoJobType == NoJob \in Job
  <1>1. 0 \in Time
    BY LedgerConstants DEF Time
  <1> QED
    BY <1>1 DEF NoJob, Job, Values

LEMMA InitTypeOK == Init => TypeOK
  <1> SUFFICES ASSUME Init PROVE TypeOK
    OBVIOUS
  <1>1. now \in Time /\ cutoff \in Time
    BY LedgerConstants DEF Init, Time
  <1>2. DOMAIN scores = {}
    BY DEF Init
  <1>3. pc \in [Procs -> Labels]
    BY DEF Init, Labels, Idle
  <1>4. job \in [Procs -> Job]
    BY NoJobType DEF Init
  <1> QED
    BY <1>1, <1>2, <1>3, <1>4 DEF Init, TypeOK

LEMMA LaunchType ==
    ASSUME TypeOK, NEW p \in Procs, NEW j \in Job, NEW label \in Labels, Launch(p, j, label)
    PROVE  TypeOK'
  <1>1. pc' \in [Procs -> Labels] /\ job' \in [Procs -> Job] /\ launches' \in Nat
    BY DEF TypeOK, Launch, Goto
  <1> QED
    BY <1>1 DEF TypeOK, Launch, files

LEMMA CommandType ==
    ASSUME TypeOK, NEW p \in Procs, Command(p) PROVE TypeOK'
  <1>1. NoJob \in Job
    BY NoJobType
  <1>2. "fetch" \in Labels /\ "issue" \in Labels /\ "read" \in Labels
    BY DEF Labels
  <1>3. now \in Time /\ cutoff \in Time /\ Requests \in Seq(RequestKinds)
    BY LedgerConstants DEF TypeOK
  <1>4. SUBSET DOMAIN evidence \subseteq SUBSET Nat
    BY DEF TypeOK
  <1>5. CASE Research(p)
    <2>1. [NoJob EXCEPT !.kind = "research", !.cutoff = cutoff, !.todo = Requests] \in Job
      BY <1>1, <1>3 DEF Job, NoJob
    <2> QED
      BY <1>5, <1>2, <2>1, LaunchType DEF Research
  <1>6. CASE ResumeIssue(p)
    <2>1. [NoJob EXCEPT !.kind = "research"] \in Job
      BY <1>1 DEF Job, NoJob
    <2> QED
      BY <1>6, <1>2, <2>1, LaunchType DEF ResumeIssue
  <1>7. CASE Monitor(p)
    <2>1. PICK ids \in (SUBSET DOMAIN evidence) \ {{}} :
             Launch(p, [NoJob EXCEPT !.kind = "monitor", !.ids = ids], "read")
      BY <1>7 DEF Monitor
    <2>2. [NoJob EXCEPT !.kind = "monitor", !.ids = ids] \in Job
      BY <1>1, <1>4 DEF Job, NoJob
    <2> QED
      BY <1>2, <2>1, <2>2, LaunchType
  <1>8. CASE Refresh(p)
    <2>1. [NoJob EXCEPT !.kind = "refresh", !.cutoff = now, !.todo = Requests] \in Job
      BY <1>1, <1>3 DEF Job, NoJob
    <2> QED
      BY <1>8, <1>2, <2>1, LaunchType DEF Refresh
  <1>9. CASE Resolve(p)
    <2>1. PICK ids \in (SUBSET DOMAIN evidence) \ {{}}, value \in Values :
             Launch(p, [NoJob EXCEPT !.kind = "resolve", !.ids = ids, !.value = value], "read")
      BY <1>9 DEF Resolve
    <2>2. [NoJob EXCEPT !.kind = "resolve", !.ids = ids, !.value = value] \in Job
      BY <1>1, <1>4 DEF Job, NoJob
    <2> QED
      BY <1>2, <2>1, <2>2, LaunchType
  <1> QED
    BY <1>5, <1>6, <1>7, <1>8, <1>9 DEF Command

\* Receiving an answer, whatever its date.
LEMMA ReceiveType ==
    ASSUME TypeOK, NEW p \in Procs, job[p].todo # <<>>, NEW available \in Time,
           Receive(p, available)
    PROVE  TypeOK'
  <1>1. job[p] \in Job
    BY DEF TypeOK
  <1>2. Tail(job[p].todo) \in Seq(RequestKinds) /\ Append(job[p].fetched, available) \in Seq(Time)
    BY <1>1 DEF Job
  <1>3. [job[p] EXCEPT !.todo = Tail(@), !.fetched = Append(@, available)] \in Job
    BY <1>1, <1>2 DEF Job
  <1>4. job' = [job EXCEPT ![p] = [job[p] EXCEPT !.todo = Tail(@),
                                                  !.fetched = Append(@, available)]]
    BY DEF Receive
  <1>5. job' \in [Procs -> Job]
    BY <1>3, <1>4 DEF TypeOK
  <1> QED
    BY <1>5 DEF TypeOK, Receive, files

\* The steps that end a part of the work and change at most collection.
LEMMA MoveType ==
    ASSUME TypeOK, NEW p \in Procs,
           \/ FetchRefused(p) \/ SourceFails(p) \/ EndCollect(p) \/ IssueTooEarly(p)
           \/ EndRefresh(p) \/ StampRefused(p) \/ VersionConflict(p)
    PROVE  TypeOK'
  <1>1. pc' \in [Procs -> Labels]
    BY DEF TypeOK, FetchRefused, SourceFails, EndCollect, IssueTooEarly, EndRefresh,
       StampRefused, VersionConflict, Goto, Labels, Idle
  <1>2. collection' \subseteq Nat
    <2>1. job[p].ids \subseteq Nat
      BY DEF TypeOK, Job
    <2> QED
      BY <2>1 DEF TypeOK, FetchRefused, SourceFails, EndCollect, IssueTooEarly, EndRefresh,
         StampRefused, VersionConflict, files
  <1>3. UNCHANGED <<now, cutoff, evidence, versions, outcomes, scores, job, launches>>
    BY DEF FetchRefused, SourceFails, EndCollect, IssueTooEarly, EndRefresh,
       StampRefused, VersionConflict, files
  <1> QED
    BY <1>1, <1>2, <1>3 DEF TypeOK

LEMMA FetchType ==
    ASSUME TypeOK, NEW p \in Procs, FetchLive(p) \/ FetchVintage(p) \/ FetchFiling(p)
    PROVE  TypeOK'
  <1>1. now \in Time /\ job[p].cutoff \in Time /\ 0..now \subseteq Time
    BY LedgerConstants DEF TypeOK, Job, Time
  <1>2. job[p].todo # <<>>
    BY DEF FetchLive, FetchVintage, FetchFiling, Asked
  <1>3. PICK available \in Time : Receive(p, available)
    BY <1>1 DEF FetchLive, FetchVintage, FetchFiling
  <1> QED
    BY <1>2, <1>3, ReceiveType

LEMMA FetchNoFilingType ==
    ASSUME TypeOK, NEW p \in Procs, FetchNoFiling(p) PROVE TypeOK'
  <1>1. job[p] \in Job /\ job[p].todo # <<>>
    BY DEF TypeOK, FetchNoFiling, Asked
  <1>2. Tail(job[p].todo) \in Seq(RequestKinds)
    BY <1>1 DEF Job
  <1>3. [job[p] EXCEPT !.todo = Tail(@)] \in Job
    BY <1>1, <1>2 DEF Job
  <1>4. job' = [job EXCEPT ![p] = [job[p] EXCEPT !.todo = Tail(@)]]
    BY DEF FetchNoFiling
  <1>5. job' \in [Procs -> Job]
    BY <1>3, <1>4 DEF TypeOK
  <1> QED
    BY <1>5 DEF TypeOK, FetchNoFiling, files

LEMMA AddEvidenceType ==
    ASSUME TypeOK, NEW p \in Procs, AddEvidence(p) PROVE TypeOK'
  <1>1. job[p] \in Job
    BY DEF TypeOK
  <1>2. Head(job[p].fetched) \in Time /\ Tail(job[p].fetched) \in Seq(Time)
    BY <1>1 DEF AddEvidence, Job
  <1>3. /\ evidence' \in Seq(Time)
        /\ job[p].ids \cup {Len(evidence) + 1} \in SUBSET Nat
    <2>1. evidence' \in Seq(Time)
      BY <1>2 DEF TypeOK, AddEvidence
    <2>2. Len(evidence) + 1 \in Nat /\ job[p].ids \in SUBSET Nat
      BY <1>1 DEF TypeOK, Job
    <2> QED
      BY <2>1, <2>2
  <1>4. [job[p] EXCEPT !.fetched = Tail(@), !.ids = @ \cup {Len(evidence) + 1}] \in Job
    BY <1>1, <1>2, <1>3 DEF Job
  <1>5. job' = [job EXCEPT ![p] = [job[p] EXCEPT !.fetched = Tail(@),
                                                  !.ids = @ \cup {Len(evidence) + 1}]]
    BY DEF AddEvidence
  <1>6. job' \in [Procs -> Job]
    BY <1>4, <1>5 DEF TypeOK
  <1> QED
    BY <1>3, <1>6 DEF TypeOK, AddEvidence

\* The steps that read a file or the clock.
LEMMA ReadType ==
    ASSUME TypeOK, NEW p \in Procs, Issue(p) \/ ReadLatest(p) \/ Stamp(p) \/ StampScore(p)
    PROVE  TypeOK'
  <1>1. job[p] \in Job /\ now \in Time
    BY DEF TypeOK
  <1>2. Latest \in Nat
    BY LedgerConstants DEF TypeOK, Latest
  <1>3. [job[p] EXCEPT !.at = now] \in Job /\ [job[p] EXCEPT !.base = Latest] \in Job
    BY <1>1, <1>2 DEF Job
  <1>4. \/ job' = [job EXCEPT ![p] = [job[p] EXCEPT !.at = now]]
        \/ job' = [job EXCEPT ![p] = [job[p] EXCEPT !.base = Latest]]
    BY DEF Issue, IssueAt, ReadLatest, Stamp, StampScore
  <1>5. job' \in [Procs -> Job]
    BY <1>3, <1>4 DEF TypeOK
  <1>6. pc' \in [Procs -> Labels]
    BY DEF TypeOK, Issue, IssueAt, ReadLatest, Stamp, StampScore, Goto, Labels
  <1> QED
    BY <1>5, <1>6 DEF TypeOK, Issue, IssueAt, ReadLatest, Stamp, StampScore, files

\* The steps that save a version.
LEMMA SaveVersionType ==
    ASSUME TypeOK, NEW p \in Procs, SaveForecast(p) \/ AppendVersion(p) PROVE TypeOK'
  <1>1. job[p].at \in Time /\ job[p].ids \subseteq Nat /\ cutoff \in Time /\ collection \subseteq Nat
    BY DEF TypeOK, Job
  <1>2. versions' \in Seq(Version)
    <2>1. CASE SaveForecast(p)
      <3>1. PICK probability \in Probabilities :
               versions' = <<[probability |-> probability, cutoff |-> cutoff,
                              issued |-> job[p].at, evidence |-> collection]>>
        BY <2>1 DEF SaveForecast
      <3>2. [probability |-> probability, cutoff |-> cutoff, issued |-> job[p].at,
             evidence |-> collection] \in Version
        BY <1>1 DEF Version
      <3> QED
        BY <3>1, <3>2
    <2>2. CASE AppendVersion(p)
      <3>1. PICK probability \in Probabilities :
               versions' = Append(versions, NewVersion(p, probability))
        BY <2>2 DEF AppendVersion
      <3>2. NewVersion(p, probability) \in Version
        BY <1>1 DEF Version, NewVersion
      <3> QED
        BY <3>1, <3>2 DEF TypeOK
    <2> QED
      BY <2>1, <2>2
  <1>3. pc' \in [Procs -> Labels]
    BY DEF TypeOK, SaveForecast, AppendVersion, Goto, Labels, Idle
  <1> QED
    BY <1>2, <1>3 DEF TypeOK, SaveForecast, AppendVersion

LEMMA SaveOutcomeType ==
    ASSUME TypeOK, NEW p \in Procs, SaveOutcome(p) PROVE TypeOK'
  <1>1. job[p] \in Job /\ Len(outcomes) + 1 \in Nat
    BY DEF TypeOK
  <1>2. [version |-> job[p].base, value |-> job[p].value, at |-> job[p].at,
         evidence |-> job[p].ids] \in Outcome
    BY <1>1 DEF Job, Outcome
  <1>3. outcomes' \in Seq(Outcome)
    BY <1>2 DEF TypeOK, SaveOutcome
  <1>4. [job[p] EXCEPT !.outcome = Len(outcomes) + 1] \in Job
    BY <1>1 DEF Job
  <1>5. job' = [job EXCEPT ![p] = [job[p] EXCEPT !.outcome = Len(outcomes) + 1]]
    BY DEF SaveOutcome
  <1>6. job' \in [Procs -> Job]
    BY <1>4, <1>5 DEF TypeOK
  <1>7. pc' \in [Procs -> Labels]
    BY DEF TypeOK, SaveOutcome, Goto, Labels
  <1> QED
    BY <1>3, <1>6, <1>7 DEF TypeOK, SaveOutcome

\* A score is a square, or None.
LEMMA BrierType ==
    ASSUME NEW probability \in 0..Scale, NEW value \in Values
    PROVE  Brier(probability, value) \in Nat \cup {None}
  <1>1. ASSUME NEW n \in Nat PROVE n * n \in Nat
    OBVIOUS
  <1>2. probability \in Nat /\ Scale - probability \in Nat
    BY ScaleAssumption
  <1>3. probability * probability \in Nat /\ (Scale - probability) * (Scale - probability) \in Nat
    BY <1>1, <1>2
  <1> QED
    BY <1>3 DEF Brier, Values

LEMMA RateOutcomeType ==
    ASSUME TypeOK, OutcomesJustified, NEW p \in Procs, WorkOK(p), RateOutcome(p)
    PROVE  TypeOK'
  <1> DEFINE o == job[p].outcome
             brier == Brier(versions[outcomes[o].version].probability, outcomes[o].value)
  <1>1. o \in DOMAIN outcomes /\ outcomes[o] \in Outcome
    BY DEF WorkOK, Scoring, RateOutcome, TypeOK
  <1>2. versions[outcomes[o].version] \in Version
    BY <1>1 DEF OutcomesJustified, TypeOK
  <1>3. /\ versions[outcomes[o].version].probability \in 0..Scale
        /\ outcomes[o].value \in Values
    BY <1>1, <1>2, LedgerConstants DEF Version, Outcome
  <1>4. brier \in Nat \cup {None}
    BY <1>3, BrierType
  <1>5. job[p] \in Job
    BY DEF TypeOK
  <1>6. [job[p] EXCEPT !.brier = brier] \in Job
    BY <1>4, <1>5 DEF Job
  <1>7. job' = [job EXCEPT ![p] = [job[p] EXCEPT !.brier = brier]]
    BY DEF RateOutcome, Rate
  <1>8. job' \in [Procs -> Job]
    BY <1>6, <1>7 DEF TypeOK
  <1>9. pc' \in [Procs -> Labels]
    BY DEF TypeOK, RateOutcome, Rate, Goto, Labels
  <1> QED
    BY <1>8, <1>9 DEF TypeOK, RateOutcome, Rate, files

LEMMA SaveScoreType ==
    ASSUME TypeOK, NEW p \in Procs, WorkOK(p), SaveScore(p)
    PROVE  TypeOK'
  <1>1. job[p] \in Job /\ job[p].outcome \in Nat
    BY DEF WorkOK, Scoring, SaveScore, TypeOK, Job
  <1>2. [brier |-> job[p].brier, at |-> job[p].at] \in [brier : Nat \cup {None}, at : Time]
    BY <1>1 DEF Job
  <1>3. DOMAIN scores' = DOMAIN scores \cup {job[p].outcome}
    BY DEF SaveScore
  <1>4. \A o \in DOMAIN scores' : scores'[o] \in [brier : Nat \cup {None}, at : Time]
    BY <1>2 DEF SaveScore, TypeOK
  <1>5. DOMAIN scores' \subseteq Nat
    BY <1>1, <1>3 DEF TypeOK
  <1>6. pc' \in [Procs -> Labels]
    BY DEF TypeOK, SaveScore, Goto, Labels, Idle
  <1> QED
    BY <1>4, <1>5, <1>6 DEF TypeOK, SaveScore

LEMMA CrashType ==
    ASSUME TypeOK, NEW p \in Procs, Crash(p) PROVE TypeOK'
  <1>1. pc' \in [Procs -> Labels] /\ job' \in [Procs -> Job]
    BY NoJobType DEF TypeOK, Crash, Goto, Labels, Idle
  <1> QED
    BY <1>1 DEF TypeOK, Crash, files

LEMMA ActionType ==
    ASSUME IInv, NEW p \in Procs, Command(p) \/ Step(p) \/ Crash(p) PROVE TypeOK'
  <1>1. TypeOK /\ OutcomesJustified /\ WorkOK(p)
    BY DEF IInv, FilesOK
  <1> QED
    BY <1>1, CommandType, FetchType, FetchNoFilingType, MoveType, AddEvidenceType, ReadType,
       SaveVersionType, SaveOutcomeType, RateOutcomeType, SaveScoreType, CrashType
    DEF Step

-----------------------------------------------------------------------------
(* What a step of p does to the files and to the other processes.          *)

Kept(old, new) == \A i \in DOMAIN old : i \in DOMAIN new /\ new[i] = old[i]

\* Files only grow, time only passes.
Grow ==
    /\ now <= now' /\ cutoff' = cutoff
    /\ Kept(evidence, evidence')
    /\ Kept(versions, versions')
    /\ Kept(outcomes, outcomes')
    /\ Kept(scores, scores')

OthersKeep(p) == \A q \in Procs \ {p} : pc'[q] = pc[q] /\ job'[q] = job[q]

LEMMA StepBusy ==
    ASSUME NEW p \in Procs, Step(p) \/ Crash(p) PROVE pc[p] \notin Idle
  BY DEF Step, Crash, Idle, FetchLive, FetchRefused, FetchVintage, FetchFiling, SourceFails,
     AddEvidence, EndCollect, Issue, IssueTooEarly, SaveForecast, EndRefresh, ReadLatest, Stamp,
     StampRefused, AppendVersion, VersionConflict, SaveOutcome, RateOutcome, StampScore,
     SaveScore, FetchNoFiling, Asked

\* Whoever acts, no other process is issuing the forecast.
LEMMA NoOtherIssuing ==
    ASSUME IInv, NEW p \in Procs, Command(p) \/ Step(p) \/ Crash(p), NEW q \in Procs \ {p}
    PROVE  ~Issuing(q)
  <1>1. Issuing(q) => pc[q] \notin Idle
    BY DEF Issuing, Idle
  <1>2. Issuing(q) => versions = <<>> /\ pc[p] \in Idle
    BY DEF IInv, Phases
  <1>3. CASE Command(p)
    <2>1. versions # <<>> \/ pc[q] \in Idle
      BY <1>3 DEF Command, Research, ResumeIssue, Monitor, Refresh, Resolve
    <2> QED
      BY <2>1, <1>1, <1>2
  <1>4. CASE Step(p) \/ Crash(p)
    BY <1>4, <1>2, StepBusy
  <1> QED
    BY <1>3, <1>4

LEMMA ActionOthersKeep ==
    ASSUME TypeOK, NEW p \in Procs, Command(p) \/ Step(p) \/ Crash(p) PROVE OthersKeep(p)
  <1>1. CASE Command(p)
    BY <1>1 DEF Command, Research, ResumeIssue, Monitor, Refresh, Resolve, Launch, Goto,
       OthersKeep, TypeOK
  <1>2. CASE Crash(p)
    BY <1>2 DEF Crash, Goto, OthersKeep, TypeOK
  <1>3. CASE FetchLive(p) \/ FetchVintage(p) \/ FetchFiling(p) \/ FetchNoFiling(p)
    BY <1>3 DEF FetchLive, FetchVintage, FetchFiling, FetchNoFiling, Receive, OthersKeep, TypeOK
  <1>4. CASE \/ FetchRefused(p) \/ SourceFails(p) \/ EndCollect(p) \/ IssueTooEarly(p)
             \/ EndRefresh(p) \/ StampRefused(p) \/ VersionConflict(p)
    BY <1>4 DEF FetchRefused, SourceFails, EndCollect, IssueTooEarly, EndRefresh, StampRefused,
       VersionConflict, Goto, OthersKeep, TypeOK
  <1>5. CASE AddEvidence(p) \/ Issue(p) \/ ReadLatest(p) \/ Stamp(p) \/ StampScore(p)
    BY <1>5 DEF AddEvidence, Issue, IssueAt, ReadLatest, Stamp, StampScore, Goto, OthersKeep,
       TypeOK
  <1>6. CASE \/ SaveForecast(p) \/ AppendVersion(p) \/ SaveOutcome(p) \/ RateOutcome(p)
             \/ SaveScore(p)
    BY <1>6 DEF SaveForecast, AppendVersion, SaveOutcome, RateOutcome, Rate, SaveScore, Goto,
       OthersKeep, TypeOK
  <1> QED
    BY <1>1, <1>2, <1>3, <1>4, <1>5, <1>6 DEF Step

\* Which steps change which files.
LEMMA FilesUnchanged ==
    ASSUME NEW p \in Procs, Command(p) \/ Step(p) \/ Crash(p)
    PROVE  /\ UNCHANGED <<now, cutoff>>
           /\ UNCHANGED evidence \/ AddEvidence(p)
           /\ UNCHANGED collection \/ EndCollect(p)
           /\ UNCHANGED versions \/ SaveForecast(p) \/ AppendVersion(p)
           /\ UNCHANGED outcomes \/ SaveOutcome(p)
           /\ UNCHANGED scores \/ SaveScore(p)
  <1>1. CASE Command(p) \/ Crash(p)
    BY <1>1 DEF Command, Research, ResumeIssue, Monitor, Refresh, Resolve, Launch, Crash, files
  <1>2. CASE Step(p)
    BY <1>2 DEF Step, FetchLive, FetchRefused, FetchVintage, FetchFiling, Receive, SourceFails,
       AddEvidence, EndCollect, Issue, IssueAt, IssueTooEarly, SaveForecast, EndRefresh,
       ReadLatest, Stamp, StampRefused, AppendVersion, VersionConflict, SaveOutcome, SaveScore,
       FetchNoFiling, RateOutcome, Rate, StampScore, files
  <1> QED
    BY <1>1, <1>2

LEMMA KeptAppend ==
    ASSUME NEW S, NEW s \in Seq(S), NEW e \in S PROVE Kept(s, Append(s, e))
  BY DEF Kept

\* A version is appended to the latest one, which is the one it supersedes.
LEMMA AppendIsNext ==
    ASSUME TypeOK, NEW p \in Procs, AppendVersion(p)
    PROVE  /\ job[p].base = Len(versions) /\ versions # <<>>
           /\ \E probability \in Probabilities :
                 versions' = Append(versions, NewVersion(p, probability))
           /\ \A probability \in Probabilities : NewVersion(p, probability) \in Version
  <1>1. job[p] \in Job /\ versions \in Seq(Version)
    BY DEF TypeOK
  <1>2. job[p].base \in 1..Len(versions) /\ job[p].base + 1 \notin 1..Len(versions)
    BY <1>1 DEF AppendVersion
  <1>3. job[p].base = Len(versions) /\ versions # <<>>
    BY <1>1, <1>2
  <1>4. \A probability \in Probabilities : NewVersion(p, probability) \in Version
    BY <1>1 DEF Job, NewVersion, Version
  <1> QED
    BY <1>3, <1>4 DEF AppendVersion

LEMMA ActionGrow ==
    ASSUME IInv, NEW p \in Procs, Command(p) \/ Step(p) \/ Crash(p) PROVE Grow
  <1>1. TypeOK /\ WorkOK(p)
    BY DEF IInv
  <1>2. now <= now' /\ cutoff' = cutoff
    BY <1>1, FilesUnchanged DEF TypeOK, Time
  <1>3. Kept(evidence, evidence')
    <2>1. CASE AddEvidence(p)
      <3>1. Head(job[p].fetched) \in Time
        BY <1>1, <2>1 DEF TypeOK, Job, AddEvidence
      <3> QED
        BY <1>1, <2>1, <3>1, KeptAppend DEF AddEvidence, TypeOK
    <2>2. CASE UNCHANGED evidence
      BY <2>2 DEF Kept
    <2> QED
      BY <2>1, <2>2, FilesUnchanged
  <1>4. Kept(versions, versions')
    <2>1. CASE SaveForecast(p)
      <3>1. versions = <<>>
        BY <2>1 DEF IInv, Phases, SaveForecast, Issuing
      <3> QED
        BY <3>1 DEF Kept
    <2>2. CASE AppendVersion(p)
      BY <1>1, <2>2, AppendIsNext, KeptAppend DEF TypeOK
    <2>3. CASE UNCHANGED versions
      BY <2>3 DEF Kept
    <2> QED
      BY <2>1, <2>2, <2>3, FilesUnchanged
  <1>5. Kept(outcomes, outcomes')
    <2>1. CASE SaveOutcome(p)
      <3>1. [version |-> job[p].base, value |-> job[p].value, at |-> job[p].at,
             evidence |-> job[p].ids] \in Outcome
        BY <1>1 DEF TypeOK, Job, Outcome
      <3> QED
        BY <1>1, <2>1, <3>1, KeptAppend DEF SaveOutcome, TypeOK
    <2>2. CASE UNCHANGED outcomes
      BY <2>2 DEF Kept
    <2> QED
      BY <2>1, <2>2, FilesUnchanged
  <1>6. Kept(scores, scores')
    <2>1. CASE SaveScore(p)
      BY <1>1, <2>1 DEF Kept, SaveScore, WorkOK, Scoring
    <2>2. CASE UNCHANGED scores
      BY <2>2 DEF Kept
    <2> QED
      BY <2>1, <2>2, FilesUnchanged
  <1> QED
    BY <1>2, <1>3, <1>4, <1>5, <1>6 DEF Grow

-----------------------------------------------------------------------------
(* The properties of the files.                                            *)

LEMMA RecordTimes ==
    ASSUME TypeOK
    PROVE  /\ \A i \in DOMAIN versions : versions[i].issued \in Nat
           /\ \A o \in DOMAIN outcomes : outcomes[o].at \in Nat
  <1>1. \A i \in DOMAIN versions : versions[i] \in Version
    BY DEF TypeOK
  <1>2. \A o \in DOMAIN outcomes : outcomes[o] \in Outcome
    BY DEF TypeOK
  <1> QED
    BY <1>1, <1>2 DEF Version, Outcome, Time

LEMMA HorizonKept ==
    ASSUME TypeOK, Grow, versions # <<>> PROVE Horizon' = Horizon
  <1>1. 1 \in DOMAIN versions
    BY DEF TypeOK
  <1> QED
    BY <1>1 DEF Grow, Kept, Horizon

\* Versions, outcomes and scores are as they were; evidence may be added.
LEMMA FilesStay ==
    ASSUME TypeOK, TypeOK', FilesOK, Grow, UNCHANGED <<versions, outcomes, scores>>
    PROVE  /\ FilesPast' /\ NoLookAhead' /\ VersionsOrdered' /\ OutcomesJustified'
           /\ ScoresRecompute'
           /\ collection' = collection => CollectionSound'
  <1>1. FilesPast'
    <2>1. now \in Nat /\ now' \in Nat /\ now <= now'
      BY DEF TypeOK, Time, Grow
    <2> QED
      BY <2>1, RecordTimes DEF FilesOK, FilesPast
  <1>2. VersionsOrdered' /\ ScoresRecompute'
    BY DEF FilesOK, VersionsOrdered, ScoresRecompute
  <1>3. \A ids : ids \subseteq DOMAIN evidence => ids \subseteq DOMAIN evidence'
    BY DEF Grow, Kept
  <1>4. \A e \in DOMAIN evidence : evidence'[e] = evidence[e]
    BY DEF Grow, Kept
  <1>5. NoLookAhead' /\ OutcomesJustified'
    BY <1>3, <1>4 DEF FilesOK, NoLookAhead, OutcomesJustified, Horizon
  <1>6. collection' = collection => CollectionSound'
    BY <1>3, <1>4 DEF FilesOK, CollectionSound, Grow
  <1> QED
    BY <1>1, <1>2, <1>5, <1>6

LEMMA EndCollectFiles ==
    ASSUME IInv, TypeOK', NEW p \in Procs, EndCollect(p) PROVE FilesOK'
  <1>1. Grow
    BY ActionGrow DEF Step
  <1>2. CollectionSound'
    <2>1. CollectionSound /\ UNCHANGED <<cutoff, evidence>>
      BY DEF IInv, FilesOK, EndCollect
    <2>2. job[p].ids \subseteq DOMAIN evidence /\ \A e \in job[p].ids : evidence[e] <= cutoff
      BY DEF IInv, WorkOK, FetchOK, EndCollect
    <2>3. collection' = job[p].ids \/ collection' = collection
      BY DEF EndCollect
    <2> QED
      BY <2>1, <2>2, <2>3 DEF CollectionSound
  <1> QED
    BY <1>1, <1>2, FilesStay DEF IInv, EndCollect, FilesOK

LEMMA SaveForecastFiles ==
    ASSUME IInv, TypeOK', NEW p \in Procs, SaveForecast(p) PROVE FilesOK'
  <1>1. /\ versions = <<>> /\ collection # {}
        /\ cutoff <= job[p].at /\ job[p].at <= now
    BY DEF IInv, Phases, Issuing, WorkOK, SaveForecast
  <1>2. outcomes = <<>> /\ DOMAIN scores = {}
    <2>1. DOMAIN outcomes = {}
      <3>1. DOMAIN versions = {}
        BY <1>1
      <3> QED
        BY <3>1 DEF IInv, FilesOK, OutcomesJustified
    <2>2. DOMAIN scores = {}
      BY <2>1 DEF IInv, FilesOK, ScoresRecompute
    <2> QED
      BY <2>1, <2>2 DEF IInv, TypeOK
  <1>3. PICK probability \in Probabilities :
           versions' = <<[probability |-> probability, cutoff |-> cutoff, issued |-> job[p].at,
                          evidence |-> collection]>>
    BY DEF SaveForecast
  <1>4. DOMAIN versions' = {1} /\ versions'[1].cutoff = cutoff /\ versions'[1].issued = job[p].at
        /\ versions'[1].evidence = collection
    BY <1>3
  <1>5. /\ job[p].at \in Nat /\ cutoff \in Nat /\ now \in Nat
        /\ UNCHANGED <<now, cutoff, evidence, collection, outcomes, scores>>
    BY DEF IInv, TypeOK, Job, Time, SaveForecast
  <1>6. CollectionSound' /\ FilesPast'
    BY <1>1, <1>2, <1>4, <1>5 DEF IInv, FilesOK, CollectionSound, FilesPast
  <1>7. Horizon' = job[p].at + HorizonDays
    BY <1>4 DEF Horizon
  <1>8. NoLookAhead'
    BY <1>1, <1>4, <1>5, <1>7, LedgerConstants
    DEF IInv, FilesOK, CollectionSound, NoLookAhead
  <1>9. VersionsOrdered' /\ OutcomesJustified' /\ ScoresRecompute'
    BY <1>2, <1>4, <1>5 DEF VersionsOrdered, OutcomesJustified, ScoresRecompute
  <1> QED
    BY <1>6, <1>8, <1>9 DEF FilesOK

LEMMA AppendVersionFiles ==
    ASSUME IInv, TypeOK', NEW p \in Procs, AppendVersion(p) PROVE FilesOK'
  <1>1. Grow
    BY ActionGrow DEF Step
  <1>2. PICK probability \in Probabilities :
           versions' = Append(versions, NewVersion(p, probability))
    BY AppendIsNext DEF IInv
  <1>3. /\ job[p].base = Len(versions) /\ versions # <<>>
        /\ versions \in Seq(Version) /\ Len(versions) \in DOMAIN versions
    BY AppendIsNext DEF IInv, TypeOK
  <1> DEFINE n == Len(versions) + 1
  <1>4. /\ DOMAIN versions' = DOMAIN versions \cup {n} /\ n \notin DOMAIN versions
        /\ versions'[n] = NewVersion(p, probability)
        /\ \A i \in DOMAIN versions : versions'[i] = versions[i] /\ i < n /\ i <= Len(versions)
    BY <1>2, <1>3
  <1>5. /\ job[p].ids # {} /\ job[p].ids \subseteq DOMAIN evidence /\ StampedOK(p)
        /\ job[p].kind # "resolve"
    BY DEF IInv, WorkOK, AppendVersion
  <1>6. /\ job[p].at \in Nat /\ now \in Nat
        /\ UNCHANGED <<now, cutoff, evidence, collection, outcomes, scores>>
    BY DEF IInv, TypeOK, Job, Time, AppendVersion
  <1>7. \A i \in DOMAIN versions : versions[i].issued \in Nat
    BY RecordTimes DEF IInv
  <1>8. Horizon' = Horizon
    BY <1>1, <1>3, HorizonKept DEF IInv
  <1>9. CollectionSound' /\ FilesPast'
    BY <1>4, <1>5, <1>6
    DEF IInv, FilesOK, CollectionSound, FilesPast, StampedOK, NewVersion
  <1>10. NoLookAhead'
    <2>1. ASSUME NEW i \in DOMAIN versions
          PROVE  /\ versions'[i].evidence # {}
                 /\ versions'[i].evidence \subseteq DOMAIN evidence'
                 /\ \A e \in versions'[i].evidence : evidence'[e] <= versions'[i].cutoff
                 /\ versions'[i].cutoff <= versions'[i].issued /\ versions'[i].issued <= Horizon'
      BY <1>4, <1>6, <1>8 DEF IInv, FilesOK, NoLookAhead
    <2>2. /\ versions'[n].evidence # {} /\ versions'[n].evidence \subseteq DOMAIN evidence'
          /\ \A e \in versions'[n].evidence : evidence'[e] <= versions'[n].cutoff
          /\ versions'[n].cutoff <= versions'[n].issued /\ versions'[n].issued <= Horizon'
      BY <1>4, <1>5, <1>6, <1>8 DEF NewVersion, StampedOK
    <2> QED
      BY <1>4, <2>1, <2>2 DEF NoLookAhead
  <1>11. VersionsOrdered'
    <2>1. \A i \in DOMAIN versions : versions[i].issued <= job[p].at
      <3>1. \A i \in DOMAIN versions : versions[i].issued <= versions[Len(versions)].issued
        BY <1>3, <1>4, <1>7 DEF IInv, FilesOK, VersionsOrdered
      <3>2. versions[Len(versions)].issued <= job[p].at
        BY <1>3, <1>5 DEF StampedOK
      <3> QED
        BY <1>3, <1>6, <1>7, <3>1, <3>2
    <2> QED
      BY <1>3, <1>4, <1>6, <2>1 DEF IInv, FilesOK, VersionsOrdered, NewVersion
  <1>12. OutcomesJustified' /\ ScoresRecompute'
    <2>1. \A o \in DOMAIN outcomes : outcomes[o].version \in DOMAIN versions
      BY DEF IInv, FilesOK, OutcomesJustified
    <2>2. OutcomesJustified'
      BY <1>4, <1>6, <1>8, <2>1 DEF IInv, FilesOK, OutcomesJustified
    <2>3. ScoresRecompute'
      BY <1>4, <1>6, <2>1 DEF IInv, FilesOK, ScoresRecompute
    <2> QED
      BY <2>2, <2>3
  <1> QED
    BY <1>9, <1>10, <1>11, <1>12 DEF FilesOK

LEMMA SaveOutcomeFiles ==
    ASSUME IInv, TypeOK', NEW p \in Procs, SaveOutcome(p) PROVE FilesOK'
  <1> DEFINE n == Len(outcomes) + 1
             new == [version |-> job[p].base, value |-> job[p].value, at |-> job[p].at,
                     evidence |-> job[p].ids]
  <1>1. /\ outcomes \in Seq(Outcome) /\ outcomes' = Append(outcomes, new)
        /\ UNCHANGED <<now, cutoff, evidence, collection, versions, scores>>
    BY DEF IInv, TypeOK, SaveOutcome
  <1>2. new \in Outcome
    BY DEF IInv, TypeOK, Job, Outcome
  <1>3. /\ DOMAIN outcomes' = DOMAIN outcomes \cup {n} /\ n \notin DOMAIN outcomes
        /\ outcomes'[n] = new
        /\ \A o \in DOMAIN outcomes : outcomes'[o] = outcomes[o]
    BY <1>1, <1>2
  <1>4. /\ job[p].ids # {} /\ job[p].ids \subseteq DOMAIN evidence /\ StampedOK(p)
        /\ job[p].kind = "resolve" /\ job[p].base \in DOMAIN versions
    BY DEF IInv, WorkOK, SaveOutcome
  <1>5. Horizon' = Horizon
    BY <1>1 DEF Horizon
  <1>6. CollectionSound' /\ NoLookAhead' /\ VersionsOrdered'
    BY <1>1 DEF IInv, FilesOK, CollectionSound, NoLookAhead, VersionsOrdered, Horizon
  <1>7. FilesPast'
    BY <1>1, <1>3, <1>4 DEF IInv, FilesOK, FilesPast, StampedOK
  <1>8. OutcomesJustified'
    <2>1. ASSUME NEW o \in DOMAIN outcomes
          PROVE  /\ outcomes'[o].version \in DOMAIN versions'
                 /\ versions'[outcomes'[o].version].issued <= outcomes'[o].at
                 /\ Horizon' <= outcomes'[o].at
                 /\ outcomes'[o].evidence # {} /\ outcomes'[o].evidence \subseteq DOMAIN evidence'
                 /\ \A e \in outcomes'[o].evidence : evidence'[e] <= outcomes'[o].at
      BY <1>1, <1>3, <1>5 DEF IInv, FilesOK, OutcomesJustified
    <2>2. /\ outcomes'[n].version \in DOMAIN versions'
          /\ versions'[outcomes'[n].version].issued <= outcomes'[n].at
          /\ Horizon' <= outcomes'[n].at
          /\ outcomes'[n].evidence # {} /\ outcomes'[n].evidence \subseteq DOMAIN evidence'
          /\ \A e \in outcomes'[n].evidence : evidence'[e] <= outcomes'[n].at
      BY <1>1, <1>3, <1>4, <1>5 DEF StampedOK
    <2> QED
      BY <1>3, <2>1, <2>2 DEF OutcomesJustified
  <1>9. ScoresRecompute'
    BY <1>1, <1>3 DEF IInv, FilesOK, ScoresRecompute
  <1> QED
    BY <1>6, <1>7, <1>8, <1>9 DEF FilesOK

LEMMA SaveScoreFiles ==
    ASSUME IInv, TypeOK', NEW p \in Procs, SaveScore(p) PROVE FilesOK'
  <1> DEFINE o == job[p].outcome
  <1>1. o \in DOMAIN outcomes /\ outcomes[o].at <= job[p].at /\ RatedOK(p)
    BY DEF IInv, WorkOK, Scoring, SaveScore
  <1>2. UNCHANGED <<now, cutoff, evidence, collection, versions, outcomes>>
    BY DEF SaveScore
  <1>3. /\ DOMAIN scores' = DOMAIN scores \cup {o}
        /\ scores'[o] = [brier |-> job[p].brier, at |-> job[p].at]
        /\ \A q \in DOMAIN scores \ {o} : scores'[q] = scores[q]
    BY DEF SaveScore
  <1>4. ScoresRecompute'
    <2>1. scores'[o].brier = Brier(versions[outcomes[o].version].probability, outcomes[o].value)
          /\ scores'[o].at = job[p].at
      BY <1>1, <1>3 DEF RatedOK
    <2> QED
      BY <1>1, <1>2, <1>3, <2>1 DEF IInv, FilesOK, ScoresRecompute
  <1>5. /\ CollectionSound' /\ FilesPast' /\ NoLookAhead' /\ VersionsOrdered'
        /\ OutcomesJustified'
    BY <1>2 DEF IInv, FilesOK, CollectionSound, FilesPast, NoLookAhead, VersionsOrdered,
       OutcomesJustified, Horizon
  <1> QED
    BY <1>4, <1>5 DEF FilesOK

LEMMA ActionFiles ==
    ASSUME IInv, NEW p \in Procs, Command(p) \/ Step(p) \/ Crash(p) PROVE FilesOK'
  <1>1. TypeOK' /\ Grow
    BY ActionType, ActionGrow
  <1>2. CASE \/ EndCollect(p) \/ SaveForecast(p) \/ AppendVersion(p) \/ SaveOutcome(p)
             \/ SaveScore(p)
    BY <1>1, <1>2, EndCollectFiles, SaveForecastFiles, AppendVersionFiles, SaveOutcomeFiles,
       SaveScoreFiles
  <1>3. CASE UNCHANGED <<collection, versions, outcomes, scores>>
    BY <1>1, <1>3, FilesStay DEF IInv, FilesOK
  <1> QED
    BY <1>2, <1>3, FilesUnchanged

-----------------------------------------------------------------------------
(* The processes.                                                          *)

\* A process that does not move is not disturbed: it relies on files that only grow.
LEMMA WorkStays ==
    ASSUME TypeOK, TypeOK', Grow, NEW q \in Procs, WorkOK(q), pc'[q] = pc[q], job'[q] = job[q],
           Issuing(q) => collection' = collection,
           OutcomesJustified, Scoring(q) => job[q].outcome \notin DOMAIN scores'
    PROVE  WorkOK(q)'
  <1>1. now \in Nat /\ now' \in Nat /\ now <= now' /\ cutoff' = cutoff
    BY DEF TypeOK, Time, Grow
  <1>2. /\ DOMAIN evidence \subseteq DOMAIN evidence'
        /\ DOMAIN versions \subseteq DOMAIN versions'
        /\ DOMAIN outcomes \subseteq DOMAIN outcomes'
        /\ \A e \in DOMAIN evidence : evidence'[e] = evidence[e]
        /\ \A i \in DOMAIN versions : versions'[i] = versions[i]
        /\ \A o \in DOMAIN outcomes : outcomes'[o] = outcomes[o]
    BY DEF Grow, Kept
  <1>3. pc[q] = "fetch" => FetchOK(q)'
    BY <1>1, <1>2 DEF WorkOK, FetchOK
  <1>4. pc[q] = "save" => StampedOK(q)'
    <2> SUFFICES ASSUME pc[q] = "save" PROVE StampedOK(q)'
      OBVIOUS
    <2>1. /\ StampedOK(q) /\ job[q].base \in DOMAIN versions
          /\ job[q].ids \subseteq DOMAIN evidence
      BY DEF WorkOK
    <2>2. Horizon' = Horizon
      BY <2>1, HorizonKept
    <2>3. job[q].at \in Nat
      BY DEF TypeOK, Job, Time
    <2> QED
      BY <1>1, <1>2, <2>1, <2>2, <2>3 DEF StampedOK
  <1>5. pc[q] = "publish" => job[q].at <= now'
    <2>1. job[q].at \in Nat
      BY DEF TypeOK, Job, Time
    <2> QED
      BY <1>1, <2>1 DEF WorkOK
  <1>6. pc[q] \in {"rate", "record"} => RatedOK(q)'
    <2> SUFFICES ASSUME pc[q] \in {"rate", "record"} PROVE RatedOK(q)'
      OBVIOUS
    <2>1. RatedOK(q) /\ job[q].outcome \in DOMAIN outcomes
      BY DEF WorkOK, Scoring
    <2>2. outcomes[job[q].outcome].version \in DOMAIN versions
      BY <2>1 DEF OutcomesJustified
    <2> QED
      BY <1>2, <2>1, <2>2 DEF RatedOK
  <1>7. pc[q] = "record" => outcomes'[job[q].outcome].at <= job[q].at /\ job[q].at <= now'
    <2>1. job[q].at \in Nat
      BY DEF TypeOK, Job, Time
    <2> QED
      BY <1>1, <1>2, <2>1 DEF WorkOK, Scoring
  <1>8. Scoring(q)' => Scoring(q) /\ job[q].outcome \in DOMAIN outcomes
    BY DEF WorkOK, Scoring
  <1> QED
    BY <1>1, <1>2, <1>3, <1>4, <1>5, <1>6, <1>7, <1>8 DEF WorkOK, Issuing

LEMMA IdleWork ==
    ASSUME NEW p \in Procs, pc'[p] \in Idle PROVE WorkOK(p)'
  BY DEF WorkOK, Scoring, Idle

LEMMA LaunchSets ==
    ASSUME TypeOK, NEW p \in Procs, NEW j, NEW label, Launch(p, j, label)
    PROVE  pc'[p] = label /\ job'[p] = j
  BY DEF TypeOK, Launch, Goto

LEMMA CommandWork ==
    ASSUME IInv, NEW p \in Procs, Command(p) PROVE WorkOK(p)'
  <1>1. TypeOK /\ UNCHANGED <<cutoff, evidence, collection>>
    BY DEF IInv, Command, Research, ResumeIssue, Monitor, Refresh, Resolve, Launch, files
  <1>2. CASE Research(p) \/ Refresh(p)
    <2>1. /\ pc'[p] = "fetch" /\ job'[p].kind \in {"research", "refresh"}
          /\ job'[p].kind = "research" => job'[p].cutoff = cutoff
          /\ job'[p].todo = Requests /\ job'[p].ids = {} /\ job'[p].fetched = <<>>
      <3>1. CASE Research(p)
        <4>1. pc'[p] = "fetch" /\ job'[p] = [NoJob EXCEPT !.kind = "research",
                                              !.cutoff = cutoff, !.todo = Requests]
          BY <1>1, <3>1, LaunchSets DEF Research
        <4> QED
          BY <4>1 DEF NoJob
      <3>2. CASE Refresh(p)
        <4>1. pc'[p] = "fetch" /\ job'[p] = [NoJob EXCEPT !.kind = "refresh",
                                              !.cutoff = now, !.todo = Requests]
          BY <1>1, <3>2, LaunchSets DEF Refresh
        <4> QED
          BY <4>1 DEF NoJob
      <3> QED
        BY <1>2, <3>1, <3>2
    <2> QED
      BY <1>1, <2>1, LedgerConstants DEF WorkOK, Scoring, FetchOK
  <1>3. CASE ResumeIssue(p)
    <2>1. pc'[p] = "issue" /\ job'[p] = [NoJob EXCEPT !.kind = "research"]
      BY <1>1, <1>3, LaunchSets DEF ResumeIssue
    <2>2. job'[p].kind = "research" /\ collection # {}
      BY <1>3, <2>1 DEF NoJob, ResumeIssue
    <2> QED
      BY <1>1, <2>1, <2>2 DEF WorkOK, Scoring
  <1>4. CASE Monitor(p) \/ Resolve(p)
    <2>1. /\ pc'[p] = "read" /\ job'[p].kind \in {"monitor", "resolve"}
          /\ job'[p].ids # {} /\ job'[p].ids \subseteq DOMAIN evidence
      <3>1. CASE Monitor(p)
        <4>1. PICK ids \in (SUBSET DOMAIN evidence) \ {{}} :
                 Launch(p, [NoJob EXCEPT !.kind = "monitor", !.ids = ids], "read")
          BY <3>1 DEF Monitor
        <4>2. pc'[p] = "read" /\ job'[p] = [NoJob EXCEPT !.kind = "monitor", !.ids = ids]
          BY <1>1, <4>1, LaunchSets
        <4>3. job'[p].kind = "monitor" /\ job'[p].ids = ids
          BY <4>2 DEF NoJob
        <4> QED
          BY <4>1, <4>2, <4>3
      <3>2. CASE Resolve(p)
        <4>1. PICK ids \in (SUBSET DOMAIN evidence) \ {{}}, value \in Values :
                 Launch(p, [NoJob EXCEPT !.kind = "resolve", !.ids = ids, !.value = value],
                        "read")
          BY <3>2 DEF Resolve
        <4>2. /\ pc'[p] = "read"
              /\ job'[p] = [NoJob EXCEPT !.kind = "resolve", !.ids = ids, !.value = value]
          BY <1>1, <4>1, LaunchSets
        <4>3. job'[p].kind = "resolve" /\ job'[p].ids = ids
          BY <4>2 DEF NoJob
        <4> QED
          BY <4>1, <4>2, <4>3
      <3> QED
        BY <1>4, <3>1, <3>2
    <2> QED
      BY <1>1, <2>1 DEF WorkOK, Scoring
  <1> QED
    BY <1>2, <1>3, <1>4 DEF Command

LEMMA ReceiveWork ==
    ASSUME IInv, NEW p \in Procs, pc[p] = "fetch", NEW available \in Time,
           available <= job[p].cutoff, Receive(p, available)
    PROVE  WorkOK(p)'
  <1>1. job[p] \in Job /\ FetchOK(p)
    BY DEF IInv, TypeOK, WorkOK
  <1>2. /\ pc'[p] = "fetch" /\ UNCHANGED <<cutoff, evidence>>
        /\ job'[p].fetched = Append(job[p].fetched, available)
        /\ job'[p].kind = job[p].kind /\ job'[p].cutoff = job[p].cutoff
        /\ job'[p].ids = job[p].ids
    BY DEF IInv, TypeOK, Receive, files
  <1>3. job[p].fetched \in Seq(Time)
    BY <1>1 DEF Job
  <1>4. job'[p].fetched # <<>> /\ \A k \in DOMAIN job'[p].fetched : job'[p].fetched[k] <= job[p].cutoff
    BY <1>1, <1>2, <1>3 DEF FetchOK
  <1>5. FetchOK(p)'
    BY <1>1, <1>2, <1>4 DEF FetchOK
  <1> QED
    BY <1>2, <1>5 DEF WorkOK, Scoring

LEMMA FetchWork ==
    ASSUME IInv, NEW p \in Procs, FetchLive(p) \/ FetchVintage(p) \/ FetchFiling(p)
    PROVE  WorkOK(p)'
  <1>1. now \in Time /\ job[p].cutoff \in Time /\ 0..now \subseteq Time /\ pc[p] = "fetch"
    BY LedgerConstants DEF IInv, TypeOK, Job, Time, FetchLive, FetchVintage, FetchFiling, Asked
  <1>2. PICK available \in Time : available <= job[p].cutoff /\ Receive(p, available)
    BY <1>1 DEF FetchLive, FetchVintage, FetchFiling, Time
  <1> QED
    BY <1>1, <1>2, ReceiveWork

LEMMA FetchNoFilingWork ==
    ASSUME IInv, NEW p \in Procs, FetchNoFiling(p) PROVE WorkOK(p)'
  <1>1. /\ job[p] \in Job /\ FetchOK(p) /\ pc[p] = "fetch"
        /\ job[p].todo # <<>> /\ Head(job[p].todo) = "filing"
    BY DEF IInv, TypeOK, WorkOK, FetchNoFiling, Asked
  <1>2. /\ pc'[p] = "fetch" /\ UNCHANGED <<cutoff, evidence>>
        /\ job'[p].todo = Tail(job[p].todo) /\ job'[p].fetched = job[p].fetched
        /\ job'[p].kind = job[p].kind /\ job'[p].cutoff = job[p].cutoff
        /\ job'[p].ids = job[p].ids
    BY <1>1 DEF IInv, TypeOK, FetchNoFiling, files
  <1>3. ASSUME NEW k \in DOMAIN job[p].todo, job[p].todo[k] # "filing"
        PROVE  k - 1 \in DOMAIN Tail(job[p].todo) /\ Tail(job[p].todo)[k - 1] # "filing"
    <2>1. job[p].todo \in Seq(RequestKinds) /\ k # 1
      BY <1>1, <1>3 DEF Job
    <2> QED
      BY <1>1, <1>3, <2>1
  <1>4. FetchOK(p)'
    BY <1>1, <1>2, <1>3 DEF FetchOK
  <1> QED
    BY <1>2, <1>4 DEF WorkOK, Scoring

LEMMA AddEvidenceWork ==
    ASSUME IInv, NEW p \in Procs, AddEvidence(p) PROVE WorkOK(p)'
  <1>1. job[p] \in Job /\ FetchOK(p) /\ evidence \in Seq(Time) /\ job[p].fetched # <<>>
    BY DEF IInv, TypeOK, WorkOK, AddEvidence
  <1> DEFINE n == Len(evidence) + 1
  <1>2. /\ pc'[p] = "fetch" /\ cutoff' = cutoff
        /\ evidence' = Append(evidence, Head(job[p].fetched))
        /\ job'[p].fetched = Tail(job[p].fetched) /\ job'[p].ids = job[p].ids \cup {n}
        /\ job'[p].kind = job[p].kind /\ job'[p].cutoff = job[p].cutoff
    BY DEF IInv, TypeOK, AddEvidence
  <1>3. /\ job[p].fetched \in Seq(Time)
        /\ Head(job[p].fetched) = job[p].fetched[1] /\ 1 \in DOMAIN job[p].fetched
        /\ Head(job[p].fetched) \in Time
    BY <1>1 DEF Job
  <1>4. Head(job[p].fetched) <= job[p].cutoff
    BY <1>1, <1>3 DEF FetchOK
  <1>5. /\ DOMAIN evidence' = DOMAIN evidence \cup {n} /\ n \notin DOMAIN evidence
        /\ evidence'[n] = Head(job[p].fetched)
        /\ \A e \in DOMAIN evidence : evidence'[e] = evidence[e]
    BY <1>1, <1>2, <1>3
  <1>6. \A k \in DOMAIN Tail(job[p].fetched) : Tail(job[p].fetched)[k] <= job[p].cutoff
    <2>1. ASSUME NEW k \in DOMAIN Tail(job[p].fetched)
          PROVE  k + 1 \in DOMAIN job[p].fetched /\ Tail(job[p].fetched)[k] = job[p].fetched[k + 1]
      BY <1>1, <1>3
    <2> QED
      BY <1>1, <2>1 DEF FetchOK
  <1>7. FetchOK(p)'
    BY <1>1, <1>2, <1>4, <1>5, <1>6 DEF FetchOK
  <1> QED
    BY <1>2, <1>7 DEF WorkOK, Scoring

LEMMA EndFetchWork ==
    ASSUME IInv, NEW p \in Procs, EndCollect(p) \/ EndRefresh(p) PROVE WorkOK(p)'
  <1>1. FetchOK(p) /\ job[p].ids # {}
    BY DEF IInv, WorkOK, FetchOK, EndCollect, EndRefresh
  <1>2. CASE EndCollect(p)
    BY <1>1, <1>2 DEF IInv, TypeOK, EndCollect, Goto, WorkOK, Scoring
  <1>3. CASE EndRefresh(p)
    BY <1>1, <1>3 DEF IInv, TypeOK, EndRefresh, Goto, WorkOK, Scoring, FetchOK, files
  <1> QED
    BY <1>2, <1>3

LEMMA IssueWork ==
    ASSUME IInv, NEW p \in Procs, Issue(p) PROVE WorkOK(p)'
  <1>1. pc'[p] = "publish" /\ job'[p].at = now /\ now \in Nat /\ job'[p].kind = job[p].kind
        /\ UNCHANGED <<now, cutoff, collection>> /\ cutoff <= now
    BY DEF IInv, TypeOK, Time, Issue, IssueAt, Goto, files
  <1>2. collection # {} /\ job[p].kind = "research"
    BY DEF IInv, WorkOK, Issue
  <1> QED
    BY <1>1, <1>2 DEF WorkOK, Scoring

LEMMA ReadLatestWork ==
    ASSUME IInv, NEW p \in Procs, ReadLatest(p) PROVE WorkOK(p)'
  <1>1. versions # <<>> /\ versions \in Seq(Version)
    BY DEF IInv, TypeOK, Phases, ReadLatest, Issuing, Idle
  <1>2. Latest \in DOMAIN versions
    BY <1>1, LedgerConstants DEF Latest
  <1>3. /\ pc'[p] = "stamp" /\ job'[p].base = Latest /\ UNCHANGED <<evidence, versions>>
        /\ job'[p].kind = job[p].kind /\ job'[p].ids = job[p].ids
    BY DEF IInv, TypeOK, ReadLatest, Goto, files
  <1> QED
    BY <1>2, <1>3 DEF IInv, WorkOK, Scoring, ReadLatest

LEMMA StampWork ==
    ASSUME IInv, NEW p \in Procs, Stamp(p) PROVE WorkOK(p)'
  <1>1. /\ pc'[p] = "save" /\ job'[p].at = now /\ UNCHANGED <<now, evidence, versions>>
        /\ job'[p].kind = job[p].kind /\ job'[p].ids = job[p].ids /\ job'[p].base = job[p].base
    BY DEF IInv, TypeOK, Stamp, Goto, files
  <1>2. /\ job[p].kind \in {"monitor", "refresh", "resolve"}
        /\ job[p].ids # {} /\ job[p].ids \subseteq DOMAIN evidence
        /\ job[p].base \in DOMAIN versions
    BY DEF IInv, WorkOK, Stamp
  <1>3. /\ \A e \in job[p].ids : evidence[e] <= now
        /\ IF job[p].kind = "resolve" THEN Horizon <= now ELSE now <= Horizon
    BY DEF Stamp, VersionAllowed, OutcomeAllowed, Snapshot
  <1>4. versions[job[p].base].issued <= now /\ now \in Nat
    BY <1>2 DEF IInv, FilesOK, FilesPast, TypeOK, Time
  <1>5. StampedOK(p)'
    BY <1>1, <1>3, <1>4 DEF StampedOK, Horizon
  <1> QED
    BY <1>1, <1>2, <1>5 DEF WorkOK, Scoring

LEMMA SaveOutcomeWork ==
    ASSUME IInv, NEW p \in Procs, SaveOutcome(p)
    PROVE  WorkOK(p)' /\ job'[p].outcome \notin DOMAIN outcomes
  <1>1. /\ pc'[p] = "score" /\ job'[p].outcome = Len(outcomes) + 1
        /\ job'[p].kind = "resolve" /\ scores' = scores
    BY DEF IInv, TypeOK, SaveOutcome, Goto
  <1>2. Len(outcomes) + 1 \in DOMAIN outcomes' \ DOMAIN outcomes
    <2>1. [version |-> job[p].base, value |-> job[p].value, at |-> job[p].at,
           evidence |-> job[p].ids] \in Outcome
      BY DEF IInv, TypeOK, Job, Outcome
    <2> QED
      BY <2>1 DEF IInv, TypeOK, SaveOutcome
  <1>3. DOMAIN scores \subseteq DOMAIN outcomes
    BY DEF IInv, FilesOK, ScoresRecompute
  <1> QED
    BY <1>1, <1>2, <1>3 DEF WorkOK

LEMMA RateOutcomeWork ==
    ASSUME IInv, NEW p \in Procs, RateOutcome(p) PROVE WorkOK(p)'
  <1>1. /\ pc'[p] = "rate" /\ UNCHANGED <<versions, outcomes, scores>>
        /\ job'[p].kind = job[p].kind /\ job'[p].outcome = job[p].outcome
        /\ job'[p].brier = Brier(versions[outcomes[job[p].outcome].version].probability,
                                 outcomes[job[p].outcome].value)
    BY DEF IInv, TypeOK, RateOutcome, Rate, Goto, files
  <1>2. RatedOK(p)'
    BY <1>1 DEF RatedOK
  <1>3. job[p].kind = "resolve" /\ job[p].outcome \in DOMAIN outcomes \ DOMAIN scores
    BY DEF IInv, WorkOK, Scoring, RateOutcome
  <1> QED
    BY <1>1, <1>2, <1>3 DEF WorkOK, Scoring

LEMMA StampScoreWork ==
    ASSUME IInv, NEW p \in Procs, StampScore(p) PROVE WorkOK(p)'
  <1>1. /\ pc'[p] = "record" /\ UNCHANGED <<now, versions, outcomes, scores>>
        /\ job'[p].kind = job[p].kind /\ job'[p].outcome = job[p].outcome
        /\ job'[p].brier = job[p].brier /\ job'[p].at = now
    BY DEF IInv, TypeOK, StampScore, Goto, files
  <1>2. /\ job[p].kind = "resolve" /\ job[p].outcome \in DOMAIN outcomes \ DOMAIN scores
        /\ RatedOK(p)
    BY DEF IInv, WorkOK, Scoring, StampScore
  <1>3. RatedOK(p)'
    BY <1>1, <1>2 DEF RatedOK
  <1>4. outcomes[job[p].outcome].at <= now /\ now \in Nat
    BY <1>2 DEF IInv, FilesOK, FilesPast, TypeOK, Time
  <1> QED
    BY <1>1, <1>2, <1>3, <1>4 DEF WorkOK, Scoring

LEMMA ActionWork ==
    ASSUME IInv, NEW p \in Procs, Command(p) \/ Step(p) \/ Crash(p) PROVE WorkOK(p)'
  <1>1. CASE \/ FetchRefused(p) \/ SourceFails(p) \/ IssueTooEarly(p) \/ SaveForecast(p)
             \/ StampRefused(p) \/ AppendVersion(p) \/ VersionConflict(p) \/ SaveScore(p)
             \/ Crash(p)
    <2>1. pc'[p] \in Idle
      BY <1>1 DEF IInv, TypeOK, Idle, FetchRefused, SourceFails, IssueTooEarly, SaveForecast,
         StampRefused, AppendVersion, VersionConflict, SaveScore, Crash, Goto
    <2> QED
      BY <2>1, IdleWork
  <1> QED
    BY <1>1, CommandWork, FetchWork, FetchNoFilingWork, AddEvidenceWork, EndFetchWork, IssueWork,
       ReadLatestWork, StampWork, SaveOutcomeWork, RateOutcomeWork, StampScoreWork
    DEF Step

-----------------------------------------------------------------------------
(* The processes together.                                                 *)

\* The process that acts joins a phase only if the others allow it.
LEMMA OwnPhase ==
    ASSUME IInv, NEW p \in Procs, Command(p) \/ Step(p) \/ Crash(p)
    PROVE  /\ Issuing(p)' => versions' = <<>> /\ \A q \in Procs \ {p} : pc[q] \in Idle
           /\ pc'[p] \notin Idle /\ ~Issuing(p)' => versions # <<>>
  <1>1. TypeOK /\ WorkOK(p)
    BY DEF IInv
  <1>2. CASE Command(p)
    <2>1. UNCHANGED versions
      BY <1>2 DEF Command, Research, ResumeIssue, Monitor, Refresh, Resolve, Launch, files
    <2>2. CASE Research(p) \/ ResumeIssue(p)
      <3>1. versions = <<>> /\ \A q \in Procs : pc[q] \in Idle
        BY <2>2 DEF Research, ResumeIssue
      <3>2. pc'[p] \in {"fetch", "issue"} /\ job'[p].kind = "research"
        <4>1. CASE Research(p)
          <5>1. pc'[p] = "fetch" /\ job'[p] = [NoJob EXCEPT !.kind = "research",
                                                !.cutoff = cutoff, !.todo = Requests]
            BY <1>1, <4>1, LaunchSets DEF Research
          <5> QED
            BY <5>1 DEF NoJob
        <4>2. CASE ResumeIssue(p)
          <5>1. pc'[p] = "issue" /\ job'[p] = [NoJob EXCEPT !.kind = "research"]
            BY <1>1, <4>2, LaunchSets DEF ResumeIssue
          <5> QED
            BY <5>1 DEF NoJob
        <4> QED
          BY <2>2, <4>1, <4>2
      <3> QED
        BY <2>1, <3>1, <3>2 DEF Issuing
    <2>3. CASE Monitor(p) \/ Resolve(p)
      <3>1. versions # <<>> /\ pc'[p] = "read"
        BY <1>1, <2>3 DEF Monitor, Resolve, Launch, Goto, TypeOK
      <3> QED
        BY <3>1 DEF Issuing
    <2>4. CASE Refresh(p)
      <3>1. pc'[p] = "fetch" /\ job'[p] = [NoJob EXCEPT !.kind = "refresh", !.cutoff = now,
                                                        !.todo = Requests]
        BY <1>1, <2>4, LaunchSets DEF Refresh
      <3>2. versions # <<>> /\ job'[p].kind = "refresh"
        BY <2>4, <3>1 DEF Refresh, NoJob
      <3> QED
        BY <3>1, <3>2 DEF Issuing
    <2> QED
      BY <1>2, <2>2, <2>3, <2>4 DEF Command
  <1>3. CASE Crash(p)
    BY <1>1, <1>3 DEF TypeOK, Crash, Goto, Idle, Issuing
  <1>4. CASE \/ FetchRefused(p) \/ SourceFails(p) \/ IssueTooEarly(p) \/ SaveForecast(p)
             \/ StampRefused(p) \/ AppendVersion(p) \/ VersionConflict(p) \/ SaveScore(p)
    <2>1. pc'[p] \in Idle
      BY <1>1, <1>4 DEF TypeOK, Idle, FetchRefused, SourceFails, IssueTooEarly, SaveForecast,
         StampRefused, AppendVersion, VersionConflict, SaveScore, Goto
    <2> QED
      BY <2>1 DEF Issuing, Idle
  <1>5. CASE \/ FetchLive(p) \/ FetchVintage(p) \/ FetchFiling(p) \/ FetchNoFiling(p)
             \/ AddEvidence(p) \/ EndCollect(p) \/ Issue(p)
    <2>1. UNCHANGED versions /\ pc[p] \in {"fetch", "issue"} /\ pc'[p] \in {"fetch", "issue", "publish"}
      BY <1>1, <1>5 DEF TypeOK, FetchLive, FetchVintage, FetchFiling, FetchNoFiling, Asked, Receive,
         AddEvidence, EndCollect, Issue, IssueAt, Goto, files
    <2>2. Issuing(p)' <=> Issuing(p)
      <3>1. CASE \/ FetchLive(p) \/ FetchVintage(p) \/ FetchFiling(p) \/ FetchNoFiling(p)
                 \/ AddEvidence(p)
        <4>1. pc'[p] = pc[p] /\ pc[p] = "fetch" /\ job'[p].kind = job[p].kind
          <5>1. CASE AddEvidence(p)
            BY <1>1, <5>1 DEF TypeOK, AddEvidence
          <5>2. CASE FetchNoFiling(p)
            BY <1>1, <5>2 DEF TypeOK, FetchNoFiling, Asked
          <5>3. CASE FetchLive(p) \/ FetchVintage(p) \/ FetchFiling(p)
            <6>1. pc[p] = "fetch" /\ \E available : Receive(p, available)
              BY <5>3 DEF FetchLive, FetchVintage, FetchFiling, Asked
            <6> QED
              BY <1>1, <6>1 DEF TypeOK, Receive
          <5> QED
            BY <3>1, <5>1, <5>2, <5>3
        <4> QED
          BY <4>1 DEF Issuing
      <3>2. CASE EndCollect(p)
        BY <1>1, <3>2 DEF TypeOK, EndCollect, Goto, Issuing
      <3>3. CASE Issue(p)
        BY <1>1, <3>3 DEF TypeOK, Issue, IssueAt, Goto, Issuing
      <3> QED
        BY <1>5, <3>1, <3>2, <3>3
    <2> QED
      BY <2>1, <2>2 DEF IInv, Phases, Idle
  <1>6. CASE \/ EndRefresh(p) \/ ReadLatest(p) \/ Stamp(p) \/ SaveOutcome(p)
             \/ RateOutcome(p) \/ StampScore(p)
    <2>1. /\ pc'[p] \in {"read", "stamp", "save", "score", "rate", "record"}
          /\ pc[p] \notin Idle /\ ~Issuing(p)
      BY <1>1, <1>6 DEF TypeOK, EndRefresh, ReadLatest, Stamp, SaveOutcome, RateOutcome, Rate,
         StampScore, Goto, Issuing, Idle
    <2> QED
      BY <2>1 DEF IInv, Phases, Issuing
  <1> QED
    BY <1>2, <1>3, <1>4, <1>5, <1>6 DEF Step

LEMMA ActionPhases ==
    ASSUME IInv, NEW p \in Procs, Command(p) \/ Step(p) \/ Crash(p) PROVE Phases'
  <1>1. OthersKeep(p) /\ Grow /\ versions \in Seq(Version)
    BY ActionOthersKeep, ActionGrow DEF IInv, TypeOK
  <1>2. versions # <<>> => versions' # <<>>
    <2>1. versions # <<>> => 1 \in DOMAIN versions
      BY <1>1
    <2> QED
      BY <1>1, <2>1 DEF Grow, Kept
  <1>3. ASSUME NEW q \in Procs \ {p}
        PROVE  ~Issuing(q)' /\ (pc'[q] \notin Idle => versions' # <<>>)
    BY <1>1, <1>2, NoOtherIssuing DEF OthersKeep, Issuing, IInv, Phases
  <1>4. \A q \in Procs \ {p} : pc'[q] = pc[q]
    BY <1>1 DEF OthersKeep
  <1> QED
    BY <1>2, <1>3, <1>4, OwnPhase DEF Phases

LEMMA ActionScorers ==
    ASSUME IInv, NEW p \in Procs, Command(p) \/ Step(p) \/ Crash(p) PROVE ScorersApart'
  <1>1. OthersKeep(p) /\ TypeOK
    BY ActionOthersKeep DEF IInv
  <1>2. ASSUME NEW q \in Procs \ {p}
        PROVE  /\ Scoring(q)' <=> Scoring(q)
               /\ job'[q].outcome = job[q].outcome
               /\ Scoring(q) => job[q].outcome \in DOMAIN outcomes
    BY <1>1 DEF IInv, WorkOK, OthersKeep, Scoring
  <1>3. CASE SaveOutcome(p)
    <2>1. job'[p].outcome \notin DOMAIN outcomes
      BY <1>3, SaveOutcomeWork
    <2> QED
      BY <1>2, <2>1 DEF IInv, ScorersApart
  <1>4. CASE RateOutcome(p) \/ StampScore(p)
    <2>1. Scoring(p) /\ job'[p].outcome = job[p].outcome
      <3>1. CASE RateOutcome(p)
        BY <1>1, <3>1 DEF Scoring, RateOutcome, Rate, TypeOK
      <3>2. CASE StampScore(p)
        BY <1>1, <3>2 DEF Scoring, StampScore, TypeOK
      <3> QED
        BY <1>4, <3>1, <3>2
    <2> QED
      BY <1>2, <2>1 DEF IInv, ScorersApart
  <1>5. CASE ~(SaveOutcome(p) \/ RateOutcome(p) \/ StampScore(p))
    <2>1. ~Scoring(p)'
      <3>1. CASE Command(p)
        BY <1>1, <3>1 DEF Command, Research, ResumeIssue, Monitor, Refresh, Resolve, Launch, Goto,
           TypeOK, Scoring
      <3>2. CASE Crash(p)
        BY <1>1, <3>2 DEF Crash, Goto, TypeOK, Scoring
      <3>3. CASE Step(p)
        BY <1>1, <1>5, <3>3 DEF TypeOK, Step, FetchLive, FetchRefused, FetchVintage, FetchFiling,
           FetchNoFiling, Asked, Receive, SourceFails, AddEvidence, EndCollect, Issue, IssueAt,
           IssueTooEarly, SaveForecast, EndRefresh, ReadLatest, Stamp, StampRefused,
           AppendVersion, VersionConflict, SaveScore, Goto, Scoring
      <3> QED
        BY <3>1, <3>2, <3>3
    <2> QED
      BY <1>2, <2>1 DEF IInv, ScorersApart
  <1> QED
    BY <1>3, <1>4, <1>5

\* A step of p scores no outcome another process is about to score.
LEMMA OthersUnscored ==
    ASSUME IInv, NEW p \in Procs, Command(p) \/ Step(p) \/ Crash(p), NEW q \in Procs \ {p},
           Scoring(q)
    PROVE  job[q].outcome \notin DOMAIN scores'
  <1>1. job[q].outcome \notin DOMAIN scores
    BY DEF IInv, WorkOK
  <1>2. CASE SaveScore(p)
    <2>1. Scoring(p) /\ DOMAIN scores' = DOMAIN scores \cup {job[p].outcome}
      BY <1>2 DEF SaveScore, Scoring
    <2> QED
      BY <1>1, <2>1 DEF IInv, ScorersApart
  <1> QED
    BY <1>1, <1>2, FilesUnchanged

\* What p has saved when it reports success.
Reported(p) ==
    /\ job[p].kind = "resolve" => job[p].outcome \in DOMAIN outcomes \cap DOMAIN scores
    /\ job[p].kind \in {"monitor", "refresh"} =>
          \E i \in DOMAIN versions :
              /\ i = job[p].base + 1
              /\ versions[i].issued = job[p].at /\ versions[i].evidence = job[p].ids

LEMMA OwnReported ==
    ASSUME IInv, NEW p \in Procs, Command(p) \/ Step(p) \/ Crash(p), pc'[p] = "returned"
    PROVE  Reported(p)'
  <1>1. TypeOK /\ WorkOK(p)
    BY DEF IInv
  <1>2. CASE SaveForecast(p)
    <2>1. job'[p].kind = "research"
      BY <1>1, <1>2 DEF SaveForecast, WorkOK
    <2> QED
      BY <2>1 DEF Reported
  <1>3. CASE AppendVersion(p)
    <2>1. PICK probability \in Probabilities :
             versions' = Append(versions, NewVersion(p, probability))
      BY <1>1, <1>3, AppendIsNext
    <2>2. job[p].base = Len(versions) /\ job' = job /\ job[p].kind # "resolve"
      BY <1>1, <1>3, AppendIsNext DEF AppendVersion
    <2>3. Len(versions) + 1 \in DOMAIN versions'
          /\ versions'[Len(versions) + 1] = NewVersion(p, probability)
      BY <1>1, <1>3, <2>1, AppendIsNext DEF TypeOK
    <2> QED
      BY <2>2, <2>3 DEF Reported, NewVersion
  <1>4. CASE SaveScore(p)
    <2>1. /\ job' = job /\ outcomes' = outcomes /\ job[p].kind = "resolve"
          /\ job[p].outcome \in DOMAIN outcomes
          /\ DOMAIN scores' = DOMAIN scores \cup {job[p].outcome}
      BY <1>1, <1>4 DEF SaveScore, WorkOK, Scoring
    <2> QED
      BY <2>1 DEF Reported
  <1>5. SaveForecast(p) \/ AppendVersion(p) \/ SaveScore(p)
    <2>1. CASE Command(p)
      BY <1>1, <2>1 DEF Command, Research, ResumeIssue, Monitor, Refresh, Resolve, Launch, Goto,
         TypeOK
    <2>2. CASE Crash(p)
      BY <1>1, <2>2 DEF Crash, Goto, TypeOK
    <2>3. CASE Step(p)
      BY <1>1, <2>3 DEF TypeOK, Step, FetchLive, FetchRefused, FetchVintage, FetchFiling,
         Asked, Receive, SourceFails, AddEvidence, EndCollect, Issue, IssueAt, IssueTooEarly,
         FetchNoFiling, EndRefresh, ReadLatest, Stamp, StampRefused, VersionConflict,
         SaveOutcome, RateOutcome, Rate, StampScore, Goto
    <2> QED
      BY <2>1, <2>2, <2>3
  <1> QED
    BY <1>2, <1>3, <1>4, <1>5

LEMMA ActionReported ==
    ASSUME IInv, NEW p \in Procs, Command(p) \/ Step(p) \/ Crash(p) PROVE ReportedPersisted'
  <1>1. OthersKeep(p) /\ Grow
    BY ActionOthersKeep, ActionGrow DEF IInv
  <1>2. ASSUME NEW q \in Procs \ {p}, pc'[q] = "returned" PROVE Reported(q)'
    <2>1. Reported(q) /\ job'[q] = job[q]
      BY <1>1, <1>2 DEF IInv, ReportedPersisted, Reported, OthersKeep
    <2> QED
      BY <1>1, <2>1 DEF Reported, Grow, Kept
  <1>3. \A q \in Procs : pc'[q] = "returned" => Reported(q)'
    BY <1>2, OwnReported
  <1> QED
    BY <1>3 DEF ReportedPersisted, Reported

LEMMA ActionIInv ==
    ASSUME IInv, NEW p \in Procs, Command(p) \/ Step(p) \/ Crash(p) PROVE IInv'
  <1>1. TypeOK' /\ FilesOK' /\ Phases' /\ ScorersApart' /\ ReportedPersisted'
    BY ActionType, ActionFiles, ActionPhases, ActionScorers, ActionReported
  <1>2. ASSUME NEW q \in Procs \ {p} PROVE WorkOK(q)'
    <2>1. /\ TypeOK /\ OutcomesJustified /\ WorkOK(q) /\ Grow
          /\ pc'[q] = pc[q] /\ job'[q] = job[q]
      BY ActionGrow, ActionOthersKeep DEF IInv, FilesOK, OthersKeep
    <2>2. ~Issuing(q)
      BY NoOtherIssuing
    <2> QED
      BY <1>1, <2>1, <2>2, OthersUnscored, WorkStays
  <1> QED
    BY <1>1, <1>2, ActionWork DEF IInv

LEMMA TickIInv ==
    ASSUME IInv, Tick PROVE IInv'
  <1>1. /\ TypeOK /\ now \in Nat /\ now' = now + 1 /\ now < MaxTime
        /\ UNCHANGED <<cutoff, evidence, collection, versions, outcomes, scores, pc, job, launches>>
    BY DEF IInv, TypeOK, Time, Tick, files
  <1>2. TypeOK'
    BY <1>1, LedgerConstants DEF TypeOK, Time
  <1>3. Grow
    BY <1>1 DEF Grow, Kept
  <1>4. FilesOK'
    BY <1>1, <1>2, <1>3, FilesStay DEF IInv, FilesOK
  <1>5. Phases' /\ ScorersApart' /\ ReportedPersisted'
    BY <1>1 DEF IInv, Phases, Issuing, ScorersApart, Scoring, ReportedPersisted
  <1>6. ASSUME NEW q \in Procs PROVE WorkOK(q)'
    BY <1>1, <1>2, <1>3, WorkStays DEF IInv, FilesOK, WorkOK, Scoring
  <1> QED
    BY <1>2, <1>4, <1>5, <1>6 DEF IInv

LEMMA InitIInv == Init => IInv
  <1> SUFFICES ASSUME Init PROVE IInv
    OBVIOUS
  <1>1. TypeOK
    BY InitTypeOK
  <1>2. FilesOK
    BY DEF Init, FilesOK, CollectionSound, FilesPast, NoLookAhead, VersionsOrdered,
       OutcomesJustified, ScoresRecompute
  <1>3. \A p \in Procs : pc[p] = "down"
    BY DEF Init
  <1>4. Phases /\ ScorersApart /\ ReportedPersisted /\ \A p \in Procs : WorkOK(p)
    BY <1>3 DEF Phases, Issuing, Idle, ScorersApart, Scoring, ReportedPersisted, WorkOK
  <1> QED
    BY <1>1, <1>2, <1>4 DEF IInv

LEMMA NextIInv == IInv /\ [Next]_vars => IInv'
  <1> SUFFICES ASSUME IInv, [Next]_vars PROVE IInv'
    OBVIOUS
  <1>1. CASE Tick
    BY <1>1, TickIInv
  <1>2. CASE \E p \in Procs : Command(p) \/ Step(p) \/ Crash(p)
    BY <1>2, ActionIInv
  <1>3. CASE UNCHANGED vars
    <2>1. UNCHANGED <<now, cutoff, evidence, collection, versions, outcomes, scores, pc, job,
                      launches>>
      BY <1>3 DEF vars, files
    <2>2. TypeOK' /\ Phases' /\ ScorersApart' /\ ReportedPersisted'
      BY <2>1 DEF IInv, TypeOK, Phases, Issuing, ScorersApart, Scoring, ReportedPersisted
    <2>3. FilesOK'
      BY <2>1 DEF IInv, FilesOK, CollectionSound, FilesPast, NoLookAhead, VersionsOrdered,
         OutcomesJustified, ScoresRecompute, Horizon
    <2>4. ASSUME NEW p \in Procs PROVE WorkOK(p)'
      BY <2>1 DEF IInv, WorkOK, FetchOK, StampedOK, Scoring, RatedOK, Horizon
    <2> QED
      BY <2>2, <2>3, <2>4 DEF IInv
  <1> QED
    BY <1>1, <1>2, <1>3 DEF Next

-----------------------------------------------------------------------------
(* Every step is a step of the abstract ledger, or changes nothing in it.  *)

LEMMA LedgerPublish ==
    ASSUME IInv, NEW p \in Procs, SaveForecast(p) \/ AppendVersion(p) PROVE Record!Publish
  <1>1. /\ TypeOK /\ Grow
        /\ UNCHANGED <<now, outcomes, scores>>
    BY ActionGrow DEF IInv, Step, SaveForecast, AppendVersion
  <1>2. Len(versions') = Len(versions) + 1 /\ versions'[Len(versions) + 1].issued <= now
    <2>1. CASE SaveForecast(p)
      <3>1. versions = <<>> /\ job[p].at <= now
        BY <2>1 DEF IInv, Phases, Issuing, WorkOK, SaveForecast
      <3> QED
        BY <2>1, <3>1 DEF SaveForecast
    <2>2. CASE AppendVersion(p)
      <3>1. PICK probability \in Probabilities :
               /\ versions' = Append(versions, NewVersion(p, probability))
               /\ NewVersion(p, probability) \in Version
        BY <1>1, <2>2, AppendIsNext
      <3>2. Len(versions') = Len(versions) + 1
            /\ versions'[Len(versions) + 1] = NewVersion(p, probability)
        BY <1>1, <3>1 DEF TypeOK
      <3>3. job[p].at <= now
        BY <2>2 DEF IInv, WorkOK, StampedOK, AppendVersion
      <3> QED
        BY <3>2, <3>3 DEF NewVersion
    <2> QED
      BY <2>1, <2>2
  <1>3. \A i \in DOMAIN versions : versions'[i] = versions[i]
    BY <1>1 DEF Grow, Kept
  <1> QED
    BY <1>1, <1>2, <1>3 DEF Record!Publish

LEMMA LedgerSettle ==
    ASSUME IInv, NEW p \in Procs, SaveOutcome(p) PROVE Record!Settle
  <1>1. /\ TypeOK /\ UNCHANGED <<now, versions, scores>>
    BY DEF IInv, SaveOutcome
  <1>2. [version |-> job[p].base, value |-> job[p].value, at |-> job[p].at,
         evidence |-> job[p].ids] \in Outcome
    BY <1>1 DEF TypeOK, Job, Outcome
  <1>3. /\ Len(outcomes') = Len(outcomes) + 1
        /\ \A o \in DOMAIN outcomes : outcomes'[o] = outcomes[o]
        /\ outcomes'[Len(outcomes) + 1].version = job[p].base
        /\ outcomes'[Len(outcomes) + 1].at = job[p].at
    BY <1>1, <1>2 DEF SaveOutcome, TypeOK
  <1>4. job[p].base \in DOMAIN versions /\ job[p].at <= now
    BY DEF IInv, WorkOK, StampedOK, SaveOutcome
  <1> QED
    BY <1>1, <1>3, <1>4 DEF Record!Settle

LEMMA LedgerScore ==
    ASSUME IInv, NEW p \in Procs, SaveScore(p) PROVE Record!Score
  <1> DEFINE o == job[p].outcome
  <1>1. /\ o \in DOMAIN outcomes \ DOMAIN scores /\ RatedOK(p)
        /\ outcomes[o].at <= job[p].at /\ job[p].at <= now
    BY DEF IInv, WorkOK, Scoring, SaveScore
  <1>2. /\ DOMAIN scores' = DOMAIN scores \cup {o}
        /\ \A q \in DOMAIN scores : scores'[q] = scores[q]
        /\ scores'[o] = [brier |-> job[p].brier, at |-> job[p].at]
        /\ UNCHANGED <<now, versions, outcomes>>
    BY <1>1 DEF SaveScore
  <1>3. /\ scores'[o].at = job[p].at
        /\ scores'[o].brier = Brier(versions[outcomes[o].version].probability,
                                    outcomes[o].value)
    BY <1>1, <1>2 DEF RatedOK
  <1>4. \A probability, value : Record!Brier(probability, value) = Brier(probability, value)
    BY DEF Record!Brier, Brier
  <1> QED
    BY <1>1, <1>2, <1>3, <1>4 DEF Record!Score

LEMMA LedgerStep ==
    IInv /\ [Next]_vars => [Record!Next]_(Record!vars)
  <1> SUFFICES ASSUME IInv, [Next]_vars PROVE [Record!Next]_(Record!vars)
    OBVIOUS
  <1>1. CASE Tick
    <2>1. now \in Nat /\ now' = now + 1 /\ UNCHANGED <<versions, outcomes, scores>>
      BY <1>1 DEF IInv, TypeOK, Time, Tick, files
    <2> QED
      BY <2>1 DEF Record!Next, Record!Pass
  <1>2. CASE \E p \in Procs : Command(p) \/ Step(p) \/ Crash(p)
    <2>1. PICK p \in Procs : Command(p) \/ Step(p) \/ Crash(p)
      BY <1>2
    <2>2. CASE UNCHANGED <<now, versions, outcomes, scores>>
      BY <2>2 DEF Record!vars
    <2> QED
      BY <2>1, <2>2, FilesUnchanged, LedgerPublish, LedgerSettle, LedgerScore DEF Record!Next
  <1>3. CASE UNCHANGED vars
    BY <1>3 DEF vars, files, Record!vars
  <1> QED
    BY <1>1, <1>2, <1>3 DEF Next

-----------------------------------------------------------------------------

\* The inductive invariant holds in every reachable state.
THEOREM ForecastInvariant == Spec => []IInv
  BY InitIInv, NextIInv, PTL DEF Spec

\* Type correctness of the files and the processes, for any constants.
THEOREM ForecastTypeOK == Spec => []TypeOK
  <1>1. IInv => TypeOK
    BY DEF IInv
  <1> QED
    BY <1>1, ForecastInvariant, PTL

\* Whatever collections, cutoffs and refreshes, no version rests on evidence from
\* after its cutoff (crisis_research.py:206-211, forecast_service.py:216).
THEOREM ForecastNoLookAhead == Spec => []NoLookAhead
  <1>1. IInv => NoLookAhead
    BY DEF IInv, FilesOK
  <1> QED
    BY <1>1, ForecastInvariant, PTL

\* However many monitors race, the numbers of versions follow their times of issue
\* (forecast_service.py:105-122, markdown_forecasts.py:25-35).
THEOREM ForecastVersionsOrdered == Spec => []VersionsOrdered
  <1>1. IInv => VersionsOrdered
    BY DEF IInv, FilesOK
  <1> QED
    BY <1>1, ForecastInvariant, PTL

\* However many commands race, an outcome is dated no earlier than the horizon, its
\* evidence and the version it names (forecast_service.py:152-167).
THEOREM ForecastOutcomesJustified == Spec => []OutcomesJustified
  <1>1. IInv => OutcomesJustified
    BY DEF IInv, FilesOK
  <1> QED
    BY <1>1, ForecastInvariant, PTL

\* Every score on disk can be recomputed from the outcome and the version it names,
\* whatever versions were added in between (forecast_service.py:184-208).
THEOREM ForecastScoresRecompute == Spec => []ScoresRecompute
  <1>1. IInv => ScoresRecompute
    BY DEF IInv, FilesOK
  <1> QED
    BY <1>1, ForecastInvariant, PTL

\* A command that reports success has saved what it reports, and no other command
\* takes it away (forecast_service.py:251-291).
THEOREM ForecastReportedPersisted == Spec => []ReportedPersisted
  <1>1. IInv => ReportedPersisted
    BY DEF IInv
  <1> QED
    BY <1>1, ForecastInvariant, PTL

\* The files of a forecast are an append-only ledger, whatever commands race on them
\* and wherever they stop (docs/02-architecture.md:240).
THEOREM ForecastImplementsLedger == Spec => ImplementsLedger
  <1>1. Init => Record!Init
    BY DEF Init, Record!Init
  <1> QED
    BY <1>1, LedgerStep, ForecastInvariant, PTL DEF Spec, ImplementsLedger, Record!Spec
=============================================================================

--------------------------- MODULE ForecastLedger ---------------------------
(***************************************************************************)
(* The life of one forecast: the crisis run that issues it, the commands   *)
(* that monitor, refresh and resolve it, and the files they write          *)
(* (src/fra/application/forecast_service.py, crisis_research.py, the       *)
(* forecast and outcome repositories).                                     *)
(*                                                                         *)
(* A process is one command.  A step ends where another process may come   *)
(* between: at a read of a file, at the reading of the clock, at a write   *)
(* (atomic, under the lock of its aggregate) or at an await.  Versions,    *)
(* outcomes and evidence are named by the order they were written in; an   *)
(* evidence file is its available_at.                                      *)
(***************************************************************************)
EXTENDS Scoring, Sequences

CONSTANTS
    Procs,          \* processes that may run a forecast command
    Requests,       \* what a crisis collection asks for, in order
    Probabilities,  \* probabilities in use, in units of 1/Scale
    HorizonDays,    \* horizon_days of the mandate
    LastNumbered,   \* the last version that vNNN.md can number (999 in the code)
    MaxTime,        \* bound: the clock stops here
    MaxLaunches     \* bound: how many commands are run

\* live: the values of today, stamped when they are retrieved; vintage: a
\* snapshot frozen at the cutoff; filing: facts filed by the cutoff.
RequestKinds == {"live", "vintage", "filing"}

\* Economic series are asked for in every collection (crisis_research.py:142-181).
ASSUME LedgerConstants ==
    /\ Requests \in Seq(RequestKinds)
    /\ \E k \in DOMAIN Requests : Requests[k] # "filing"
    /\ Probabilities \subseteq 0..Scale
    /\ HorizonDays \in Nat \ {0}
    /\ LastNumbered \in Nat \ {0}
    /\ MaxTime \in Nat
    /\ MaxLaunches \in Nat

VARIABLES
    now,            \* the clock all processes read
    cutoff,         \* the knowledge cutoff the user gave the run
    evidence,       \* evidence/ of the run: available_at of each file
    collection,     \* the evidence named by the first collect checkpoint
    versions,       \* forecasts/ID/: version i is file i
    outcomes,       \* outcomes/: each file in the order written
    scores,         \* the score files, by outcome
    pc,             \* where each process stands
    job,            \* what each process has read and collected
    launches        \* commands run so far

files == <<evidence, collection, versions, outcomes, scores>>
vars == <<now, cutoff, files, pc, job, launches>>

\* The command has reported success or an error, or its process is gone;
\* "unavailable" is the error PointInTimeUnavailableError.
Idle == {"returned", "failed", "unavailable", "down"}

\* cutoff: the cutoff of a collection; todo: requests to make; fetched: answers
\* to write; ids: evidence cited; base: the version read; at: the clock as read;
\* value: the resolution; outcome: the outcome saved; brier: its score.
NoJob == [kind |-> "none", cutoff |-> 0, todo |-> <<>>, fetched |-> <<>>, ids |-> {},
          base |-> 0, at |-> 0, value |-> "true", outcome |-> 0, brier |-> None]

Init ==
    /\ now = 0
    /\ cutoff \in 0..MaxTime
    /\ evidence = <<>>
    /\ collection = {}
    /\ versions = <<>>
    /\ outcomes = <<>>
    /\ scores = [o \in {} |-> None]
    /\ pc = [p \in Procs |-> "down"]
    /\ job = [p \in Procs |-> NoJob]
    /\ launches = 0

-----------------------------------------------------------------------------
(* Helpers.                                                                *)

Goto(p, label) == pc' = [pc EXCEPT ![p] = label]

\* Every version copies the horizon of the one before it.
Horizon == versions[1].issued + HorizonDays

\* The version get(id) and list() find: the last file the glob matches.
Latest == IF Len(versions) <= LastNumbered THEN Len(versions) ELSE LastNumbered

\* Every cited item is on disk and was available by the clock just read.
Snapshot(ids) == \A i \in ids : i \in DOMAIN evidence /\ evidence[i] <= now

Tick ==
    /\ now < MaxTime
    /\ now' = now + 1
    /\ UNCHANGED <<cutoff, files, pc, job, launches>>

Launch(p, j, label) ==
    /\ pc[p] \in Idle
    /\ launches < MaxLaunches
    /\ launches' = launches + 1
    /\ job' = [job EXCEPT ![p] = j]
    /\ Goto(p, label)
    /\ UNCHANGED <<now, cutoff, files>>

-----------------------------------------------------------------------------
(* The crisis run: collect at the user's cutoff, then issue.  One process  *)
(* drives it; a command that finds it interrupted resumes it, and a failed  *)
(* verification collects again.                                            *)

Research(p) ==
    /\ versions = <<>>
    /\ \A q \in Procs : pc[q] \in Idle
    /\ Launch(p, [NoJob EXCEPT !.kind = "research", !.cutoff = cutoff, !.todo = Requests],
              "fetch")

ResumeIssue(p) ==
    /\ versions = <<>>
    /\ \A q \in Procs : pc[q] \in Idle
    /\ collection # {}
    /\ Launch(p, [NoJob EXCEPT !.kind = "research"], "issue")

Asked(p, kind) ==
    /\ pc[p] = "fetch"
    /\ job[p].todo # <<>>
    /\ Head(job[p].todo) = kind

Receive(p, available) ==
    /\ job' = [job EXCEPT ![p].todo = Tail(@), ![p].fetched = Append(@, available)]
    /\ UNCHANGED <<now, cutoff, files, pc, launches>>

\* An envelope without historical_cutoff_at is accepted up to the cutoff.
FetchLive(p) ==
    /\ Asked(p, "live")
    /\ now <= job[p].cutoff
    /\ Receive(p, now)

FetchRefused(p) ==
    /\ Asked(p, "live")
    /\ now > job[p].cutoff
    /\ Goto(p, "unavailable")
    /\ UNCHANGED <<now, cutoff, files, job, launches>>

FetchVintage(p) ==
    /\ Asked(p, "vintage")
    /\ Receive(p, job[p].cutoff)

FetchFiling(p) ==
    /\ Asked(p, "filing")
    /\ \E filed \in 0..now : filed <= job[p].cutoff /\ Receive(p, filed)

\* No fact was filed by the cutoff: the collection goes on without.
FetchNoFiling(p) ==
    /\ Asked(p, "filing")
    /\ job' = [job EXCEPT ![p].todo = Tail(@)]
    /\ UNCHANGED <<now, cutoff, files, pc, launches>>

\* A source times out, refuses or answers with something else.
SourceFails(p) ==
    /\ pc[p] = "fetch" /\ job[p].todo # <<>>
    /\ Goto(p, "failed")
    /\ UNCHANGED <<now, cutoff, files, job, launches>>

\* add_evidence, one file each, once everything has been collected.
AddEvidence(p) ==
    /\ pc[p] = "fetch" /\ job[p].todo = <<>>
    /\ job[p].fetched # <<>>
    /\ evidence' = Append(evidence, Head(job[p].fetched))
    /\ job' = [job EXCEPT ![p].fetched = Tail(@),
                          ![p].ids = @ \cup {Len(evidence) + 1}]
    /\ UNCHANGED <<now, cutoff, collection, versions, outcomes, scores, pc, launches>>

\* The collect checkpoint of the run; finalize reads the first one there is.
EndCollect(p) ==
    /\ pc[p] = "fetch" /\ job[p].todo = <<>> /\ job[p].fetched = <<>>
    /\ job[p].kind = "research"
    /\ collection' = IF collection = {} THEN job[p].ids ELSE collection
    /\ Goto(p, "issue")
    /\ UNCHANGED <<now, cutoff, evidence, versions, outcomes, scores, job, launches>>

IssueAt(p, time) ==
    /\ job' = [job EXCEPT ![p].at = time]
    /\ Goto(p, "publish")
    /\ UNCHANGED <<now, cutoff, files, launches>>

\* Mutant: the cutoff is not compared with the time of issue.
IssueUnchecked(p) == pc[p] = "issue" /\ IssueAt(p, now)

\* CrisisResearchWorkflow.finalize: the cutoff may not follow the issue.
Issue(p) ==
    /\ pc[p] = "issue"
    /\ cutoff <= now
    /\ IssueAt(p, now)

IssueTooEarly(p) ==
    /\ pc[p] = "issue"
    /\ cutoff > now
    /\ Goto(p, "failed")
    /\ UNCHANGED <<now, cutoff, files, job, launches>>

\* The orchestrator saves the finalized forecast: version 1 of a new identity.
SaveForecast(p) ==
    /\ pc[p] = "publish"
    /\ \E probability \in Probabilities :
          versions' = <<[probability |-> probability, cutoff |-> cutoff, issued |-> job[p].at,
                         evidence |-> collection]>>
    /\ Goto(p, "returned")
    /\ UNCHANGED <<now, cutoff, evidence, collection, outcomes, scores, job, launches>>

-----------------------------------------------------------------------------
(* fra monitor: with evidence on disk, or after a refresh.                 *)

\* ForecastLifecycleService.monitor: an identity that does not exist ends the
\* command at once, with nothing done.
Monitor(p) ==
    /\ versions # <<>>
    /\ \E ids \in (SUBSET DOMAIN evidence) \ {{}} :
          Launch(p, [NoJob EXCEPT !.kind = "monitor", !.ids = ids], "read")

\* ForecastRefreshService.refresh: the cutoff is the clock before collecting.
Refresh(p) ==
    /\ versions # <<>>
    /\ Launch(p, [NoJob EXCEPT !.kind = "refresh", !.cutoff = now, !.todo = Requests],
              "fetch")

\* Calculations are added here too; no forecast operation reads them.
EndRefresh(p) ==
    /\ pc[p] = "fetch" /\ job[p].todo = <<>> /\ job[p].fetched = <<>>
    /\ job[p].kind = "refresh"
    /\ Goto(p, "read")
    /\ UNCHANGED <<now, cutoff, files, job, launches>>

\* MonitorForecast.update and ResolveForecast.resolve read the latest version,
\* then the clock.
ReadLatest(p) ==
    /\ pc[p] = "read"
    /\ job' = [job EXCEPT ![p].base = Latest]
    /\ Goto(p, "stamp")
    /\ UNCHANGED <<now, cutoff, files, launches>>

\* What MonitorForecast.update and ForecastVersion require of the clock.
VersionAllowed(p) ==
    /\ job[p].kind \in {"monitor", "refresh"}
    /\ Snapshot(job[p].ids)
    /\ now <= Horizon

\* Mutant: a resolution one unit early.
OutcomeAllowedEarly(p) ==
    /\ job[p].kind = "resolve"
    /\ now + 1 >= Horizon
    /\ Snapshot(job[p].ids)

\* What ResolveForecast.resolve requires of the clock.
OutcomeAllowed(p) ==
    /\ job[p].kind = "resolve"
    /\ now >= Horizon
    /\ Snapshot(job[p].ids)

Stamp(p) ==
    /\ pc[p] = "stamp"
    /\ VersionAllowed(p) \/ OutcomeAllowed(p)
    /\ job' = [job EXCEPT ![p].at = now]
    /\ Goto(p, "save")
    /\ UNCHANGED <<now, cutoff, files, launches>>

StampRefused(p) ==
    /\ pc[p] = "stamp"
    /\ ~(VersionAllowed(p) \/ OutcomeAllowed(p))
    /\ Goto(p, "failed")
    /\ UNCHANGED <<now, cutoff, files, job, launches>>

NewVersion(p, probability) ==
    [probability |-> probability, cutoff |-> job[p].at, issued |-> job[p].at,
     evidence |-> job[p].ids]

\* Mutant: the number of the new version is found when it is saved.
AppendNext(p) ==
    /\ pc[p] = "save" /\ job[p].kind # "resolve"
    /\ \E probability \in Probabilities :
          versions' = Append(versions, NewVersion(p, probability))
    /\ Goto(p, "returned")
    /\ UNCHANGED <<now, cutoff, evidence, collection, outcomes, scores, job, launches>>

\* Mutant: an existing file is replaced.
AppendOver(p) ==
    /\ pc[p] = "save" /\ job[p].kind # "resolve"
    /\ \E probability \in Probabilities :
          versions' = [i \in 1..(Len(versions) + (IF job[p].base = Len(versions) THEN 1 ELSE 0)) |->
                          IF i = job[p].base + 1 THEN NewVersion(p, probability)
                          ELSE versions[i]]
    /\ Goto(p, "returned")
    /\ UNCHANGED <<now, cutoff, evidence, collection, outcomes, scores, job, launches>>

\* MarkdownForecastRepository.save: the file must not exist, the one before must.
AppendVersion(p) ==
    /\ pc[p] = "save" /\ job[p].kind # "resolve"
    /\ job[p].base \in DOMAIN versions
    /\ job[p].base + 1 \notin DOMAIN versions
    /\ \E probability \in Probabilities :
          versions' = Append(versions, NewVersion(p, probability))
    /\ Goto(p, "returned")
    /\ UNCHANGED <<now, cutoff, evidence, collection, outcomes, scores, job, launches>>

VersionConflict(p) ==
    /\ pc[p] = "save" /\ job[p].kind # "resolve"
    /\ job[p].base + 1 \in DOMAIN versions
    /\ Goto(p, "failed")
    /\ UNCHANGED <<now, cutoff, files, job, launches>>

-----------------------------------------------------------------------------
(* fra resolve: save the outcome of the version read, then its score.      *)

Resolve(p) ==
    /\ versions # <<>>
    /\ \E ids \in (SUBSET DOMAIN evidence) \ {{}}, value \in Values :
          Launch(p, [NoJob EXCEPT !.kind = "resolve", !.ids = ids, !.value = value], "read")

\* Mutant: an ambiguous outcome is not scored.
SaveOutcomeUnscored(p) ==
    /\ pc[p] = "save" /\ job[p].kind = "resolve"
    /\ outcomes' = Append(outcomes, [version |-> job[p].base, value |-> job[p].value,
                                     at |-> job[p].at, evidence |-> job[p].ids])
    /\ job' = [job EXCEPT ![p].outcome = Len(outcomes) + 1]
    /\ Goto(p, IF job[p].value = "ambiguous" THEN "returned" ELSE "score")
    /\ UNCHANGED <<now, cutoff, evidence, collection, versions, scores, launches>>

SaveOutcome(p) ==
    /\ pc[p] = "save" /\ job[p].kind = "resolve"
    /\ outcomes' = Append(outcomes, [version |-> job[p].base, value |-> job[p].value,
                                     at |-> job[p].at, evidence |-> job[p].ids])
    /\ job' = [job EXCEPT ![p].outcome = Len(outcomes) + 1]
    /\ Goto(p, "score")
    /\ UNCHANGED <<now, cutoff, evidence, collection, versions, scores, launches>>

\* The rule of ScoreForecast.score, applied to outcome o and a version.
Rate(p, o, version) ==
    /\ job' = [job EXCEPT ![p].brier = Brier(versions[version].probability, outcomes[o].value)]
    /\ Goto(p, "rate")
    /\ UNCHANGED <<now, cutoff, files, launches>>

\* Mutant: the latest version is scored, not the one the outcome names.
RateLatest(p) == pc[p] = "score" /\ Rate(p, job[p].outcome, Latest)

\* ScoreForecast.score reads the outcome and the version it names back from disk.
RateOutcome(p) ==
    /\ pc[p] = "score"
    /\ Rate(p, job[p].outcome, outcomes[job[p].outcome].version)

StampScore(p) ==
    /\ pc[p] = "rate"
    /\ job' = [job EXCEPT ![p].at = now]
    /\ Goto(p, "record")
    /\ UNCHANGED <<now, cutoff, files, launches>>

SaveScore(p) ==
    /\ pc[p] = "record"
    /\ scores' = [o \in DOMAIN scores \cup {job[p].outcome} |->
                     IF o = job[p].outcome THEN [brier |-> job[p].brier, at |-> job[p].at]
                     ELSE scores[o]]
    /\ Goto(p, "returned")
    /\ UNCHANGED <<now, cutoff, evidence, collection, versions, outcomes, job, launches>>

-----------------------------------------------------------------------------

\* A kill, a power cut, or an error that leaves the command.
Crash(p) ==
    /\ pc[p] \notin Idle
    /\ Goto(p, "down")
    /\ job' = [job EXCEPT ![p] = NoJob]
    /\ UNCHANGED <<now, cutoff, files, launches>>

Step(p) ==
    \/ FetchLive(p) \/ FetchRefused(p) \/ FetchVintage(p) \/ FetchFiling(p)
    \/ FetchNoFiling(p) \/ SourceFails(p) \/ AddEvidence(p) \/ EndCollect(p)
    \/ Issue(p) \/ IssueTooEarly(p) \/ SaveForecast(p)
    \/ EndRefresh(p) \/ ReadLatest(p) \/ Stamp(p) \/ StampRefused(p)
    \/ AppendVersion(p) \/ VersionConflict(p)
    \/ SaveOutcome(p) \/ RateOutcome(p) \/ StampScore(p) \/ SaveScore(p)

Command(p) == Research(p) \/ ResumeIssue(p) \/ Monitor(p) \/ Refresh(p) \/ Resolve(p)

Next == Tick \/ \E p \in Procs : Command(p) \/ Step(p) \/ Crash(p)

Spec == Init /\ [][Next]_vars
=============================================================================

---------------------------- MODULE Orchestrator ----------------------------
(***************************************************************************)
(* ResearchOrchestrator (src/fra/application/research_orchestrator.py)     *)
(* with the verification service it calls and the run directory it writes. *)
(*                                                                         *)
(* One research run, the files of its directory, and the processes that    *)
(* start or resume it: a process is one invocation of `fra research ...`   *)
(* or `fra resume RUN_ID`.  Each action ends at one file write (writes are *)
(* atomic: temporary sibling, fsync, replace, under the aggregate lock) or *)
(* at an await, so a process may stop between any two writes.  Crash is    *)
(* that stop: a kill, a power cut, or an exception that leaves the call    *)
(* (a write error, a stale-update conflict, a KeyError): all of them leave *)
(* the files as they are and lose the process's copy of the run.           *)
(*                                                                         *)
(* Identities are positions: claim i is the i-th claim file ever written,  *)
(* artifact i the i-th evidence or calculation file; 0 is an identity the  *)
(* agent made up.                                                          *)
(***************************************************************************)
EXTENDS ResearchRun, FiniteSets

CONSTANTS
    Procs,          \* processes that may run the orchestrator on this run
    Structured,     \* backends that support schema-constrained output
    Resumable,      \* backends that support session resume
    Sessions,       \* backends whose results name a provider session
    Workflow,       \* whether a workflow is registered for the mandate
    Collections,    \* what a collection may bring: sequences of artifacts
    Analyses,       \* what an analysis may bring: sequences of drafts
    Outputs,        \* kinds of artifact the workflow's finalization saves
    MaxRepairs,     \* _max_repairs
    MaxIterations,  \* _max_research_iterations
    MaxLaunches     \* bound: how often the run is started or resumed

\* An evidence or calculation file.  discovery: the descriptor is discovery
\* only; late: available_at is after the run's knowledge cutoff.
Artifact == [kind : {"evidence", "calculation"}, discovery : BOOLEAN, late : BOOLEAN]

\* A claim or scenario in an analysis output; cites are artifact identities.
Draft == [kind : {"claim", "scenario"}, materiality : {"low", "medium", "high"},
          cites : SUBSET Nat]

\* Claim and ResearchScenario construct: anything else is a DomainValidationError.
ValidDraft(d) == d.kind = "scenario" \/ d.materiality = "high" => d.cites # {}

OutputKinds == {"signal", "forecast", "graph", "profile", "portfolio"}

\* What verification.md records: the verdict and the claims it is about.
Verdict == [passed : BOOLEAN, claims : Seq(Nat)]

ASSUME ConstantsAssumption ==
    /\ Structured \subseteq Backends
    /\ Resumable \subseteq Backends
    /\ Sessions \subseteq Backends
    /\ Workflow \in BOOLEAN
    /\ Collections \subseteq Seq(Artifact)
    /\ Analyses \subseteq Seq(Draft)
    /\ Outputs \in Seq(OutputKinds)
    /\ MaxRepairs \in Nat
    /\ MaxIterations \in Nat \ {0}
    /\ MaxLaunches \in Nat
    /\ None \notin Run \cup Verdict

VARIABLES
    run,            \* run.md, or None before the run exists
    planned,        \* plan.md exists
    artifacts,      \* evidence/ and calculations/, in the order written
    claims,         \* claims/, in the order first written
    scenarios,      \* how many files scenarios/ holds
    verification,   \* the verdict in verification.md, or None
    outputs,        \* how many artifacts of each kind finalizations saved
    report,         \* report.md exists
    limitation,     \* limitation.md exists
    missing,        \* the mandate lacks a material input
    pc,             \* where each process stands
    loc,            \* each process's copy of the run
    backend,        \* the backend each process was launched with
    job,            \* what each process is in the middle of
    launches        \* calls of start and resume so far

files == <<planned, artifacts, claims, scenarios, verification, outputs, report,
           limitation>>
vars == <<run, files, missing, pc, loc, backend, job, launches>>

\* The call has returned, or the process is gone.
Idle == {"returned", "down"}

\* todo: what remains to be written; ids: the claims written or judged;
\* passed: the verdict; repair: repair_number; session: the provider session
\* the agent was asked to resume.
NoJob == [todo |-> <<>>, ids |-> <<>>, passed |-> FALSE, repair |-> 0,
          session |-> None]

Init ==
    /\ run = None
    /\ planned = FALSE
    /\ artifacts = <<>>
    /\ claims = <<>>
    /\ scenarios = 0
    /\ verification = None
    /\ outputs = [k \in OutputKinds |-> 0]
    /\ report = FALSE
    /\ limitation = FALSE
    /\ missing \in (IF Workflow THEN BOOLEAN ELSE {FALSE})
    /\ pc = [p \in Procs |-> "down"]
    /\ loc = [p \in Procs |-> None]
    /\ backend = [p \in Procs |-> None]
    /\ job = [p \in Procs |-> NoJob]
    /\ launches = 0

-----------------------------------------------------------------------------
(* Helpers.                                                                *)

Goto(p, label) == pc' = [pc EXCEPT ![p] = label]

\* MarkdownResearchRepository.save: the whole run is written over run.md.
Save(p, r) ==
    /\ run' = r
    /\ loc' = [loc EXCEPT ![p] = r]

\* run.transition(target) followed by save.
Transition(p, target) ==
    /\ CanTransition(loc[p].state, target)
    /\ Save(p, [loc[p] EXCEPT !.state = target])

Stage(p) == NextStage(loc[p].checkpoints)

\* The process is inside the stage its next checkpoint will record.
InStage(p) == Stage(p) # "done" /\ loc[p].state = StateForStage(Stage(p))

\* VerificationService._verify_claim raises no issue for claim c.
ClaimPasses(c) ==
    LET evidence == {i \in c.cites \cap DOMAIN artifacts : artifacts[i].kind = "evidence"}
    IN  /\ c.materiality # "low" => c.cites # {}
        /\ c.cites \subseteq DOMAIN artifacts
        /\ \A i \in evidence : ~artifacts[i].late
        /\ c.materiality = "high" /\ evidence # {}
              => \E i \in evidence : ~artifacts[i].discovery

\* VerificationService.verify raises no deterministic issue for these claims.
DeterministicPass(ids) ==
    /\ ids # <<>>
    /\ \A k \in DOMAIN ids : ClaimPasses(claims[ids[k]])

\* Mutant: the checkpoints are searched from the front.
FirstClaims(cks) ==
    LET first == CHOOSE i \in StagesOf(cks, "analyze") :
                     \A j \in StagesOf(cks, "analyze") : i <= j
    IN  cks[first].claims

\* The claim_ids of the latest analyze checkpoint.
LatestClaims(cks) ==
    LET last == CHOOSE i \in StagesOf(cks, "analyze") :
                    \A j \in StagesOf(cks, "analyze") : j <= i
    IN  cks[last].claims

-----------------------------------------------------------------------------
(* start and resume.                                                       *)

Launch(p) ==
    /\ pc[p] \in Idle
    /\ launches < MaxLaunches
    /\ launches' = launches + 1
    /\ \E b \in Backends : backend' = [backend EXCEPT ![p] = b]

Start(p) ==
    /\ Launch(p)
    /\ run = None
    /\ Save(p, FreshRun)
    /\ Goto(p, "created")
    /\ UNCHANGED <<files, missing, job>>

\* A material input is missing: the run waits for the user.
AskUser(p) ==
    /\ pc[p] = "created"
    /\ missing
    /\ Transition(p, "needs_user_input")
    /\ Goto(p, "limit")
    /\ UNCHANGED <<files, missing, backend, job, launches>>

\* The selected agent cannot produce schema-constrained output.
Unsupported(p) ==
    /\ pc[p] = "created"
    /\ ~missing
    /\ backend[p] \notin Structured
    /\ Transition(p, "failed")
    /\ Goto(p, "returned")
    /\ UNCHANGED <<files, missing, backend, job, launches>>

Proceed(p) ==
    /\ pc[p] = "created"
    /\ ~missing
    /\ backend[p] \in Structured
    /\ Goto(p, "loop")
    /\ UNCHANGED <<run, files, missing, loc, backend, job, launches>>

\* resume: repository.get
Load(p) ==
    /\ Launch(p)
    /\ run # None
    /\ loc' = [loc EXCEPT ![p] = run]
    /\ Goto(p, "resuming")
    /\ UNCHANGED <<run, files, missing, job>>

\* A completed run, or one with no stage left, is returned as it is.
ResumeReturns(p) ==
    /\ pc[p] = "resuming"
    /\ loc[p].state = "completed" \/ Stage(p) = "done"
    /\ Goto(p, "returned")
    /\ UNCHANGED <<run, files, missing, loc, backend, job, launches>>

\* Mutant: an interrupted run starts over at planning.
ReopenPlanning(p) ==
    /\ pc[p] = "resuming"
    /\ loc[p].state \in InterruptedStates
    /\ Stage(p) # "done"
    /\ Save(p, [loc[p] EXCEPT !.state = "planning"])
    /\ Goto(p, "loop")
    /\ UNCHANGED <<files, missing, backend, job, launches>>

\* Mutant: an interrupted run loses its checkpoints.
ReopenAfresh(p) ==
    /\ pc[p] = "resuming"
    /\ loc[p].state \in InterruptedStates
    /\ Stage(p) # "done"
    /\ Save(p, [loc[p] EXCEPT !.state = "planning", !.checkpoints = <<>>])
    /\ Goto(p, "loop")
    /\ UNCHANGED <<files, missing, backend, job, launches>>

\* ResearchRun.resume: an interrupted run re-enters its next stage.
Reopen(p) ==
    /\ pc[p] = "resuming"
    /\ loc[p].state \in InterruptedStates
    /\ Stage(p) # "done"
    /\ Save(p, [loc[p] EXCEPT !.state = StateForStage(Stage(p))])
    /\ Goto(p, "loop")
    /\ UNCHANGED <<files, missing, backend, job, launches>>

\* A run left active by a crash is continued where it stands.
Rejoin(p) ==
    /\ pc[p] = "resuming"
    /\ loc[p].state \in ActiveStates
    /\ Stage(p) # "done"
    /\ Goto(p, "loop")
    /\ UNCHANGED <<run, files, missing, loc, backend, job, launches>>

-----------------------------------------------------------------------------
(* _continue: entering a stage.                                            *)

\* A failed verification sends the run back to collection.
NeedsResearch(p) ==
    /\ pc[p] = "loop"
    /\ Stage(p) = "collect"
    /\ loc[p].state = "verifying"
    /\ Transition(p, "needs_research")
    /\ UNCHANGED <<files, missing, pc, backend, job, launches>>

EnterStage(p) ==
    /\ pc[p] = "loop"
    /\ Stage(p) # "done"
    /\ ~InStage(p)
    /\ ~(Stage(p) = "collect" /\ loc[p].state = "verifying")
    /\ Transition(p, StateForStage(Stage(p)))
    /\ UNCHANGED <<files, missing, pc, backend, job, launches>>

\* No stage is left.
Complete(p) ==
    /\ pc[p] = "loop"
    /\ Stage(p) = "done"
    /\ loc[p].state = "synthesizing"
    /\ Transition(p, "completed")
    /\ Goto(p, "returned")
    /\ UNCHANGED <<files, missing, backend, job, launches>>

-----------------------------------------------------------------------------
(* _continue: the collect stage.                                           *)

\* workflow.collect returns; get_plan found the plan.
Collect(p) ==
    /\ pc[p] = "loop"
    /\ InStage(p) /\ Stage(p) = "collect"
    /\ Workflow /\ planned
    /\ \E c \in Collections : job' = [job EXCEPT ![p].todo = c]
    /\ Goto(p, "collecting")
    /\ UNCHANGED <<run, files, missing, loc, backend, launches>>

\* There is no workflow, no plan, or the workflow raises an expected error.
CollectFails(p) ==
    /\ pc[p] = "loop"
    /\ InStage(p) /\ Stage(p) = "collect"
    /\ Goto(p, "fail")
    /\ UNCHANGED <<run, files, missing, loc, backend, job, launches>>

\* add_evidence or add_calculation, one file each.
AddArtifact(p) ==
    /\ pc[p] = "collecting"
    /\ job[p].todo # <<>>
    /\ artifacts' = Append(artifacts, Head(job[p].todo))
    /\ job' = [job EXCEPT ![p].todo = Tail(@)]
    /\ UNCHANGED <<run, planned, claims, scenarios, verification, outputs, report,
                   limitation, missing, pc, loc, backend, launches>>

-----------------------------------------------------------------------------
(* _execute_agent_stage: attempts, repair and the agent's reply.           *)

\* _record_attempt, then the request: the stored session is resumed only when
\* the recorded provider is the configured one and it can resume sessions.
Attempt(p) ==
    /\ \/ pc[p] = "loop" /\ InStage(p) /\ Stage(p) \in AgentStages
       \/ pc[p] = "retry"
    /\ Save(p, [loc[p] EXCEPT !.attempts[Stage(p)] = @ + 1])
    /\ job' = [job EXCEPT ![p].session =
                  IF loc[p].provider = backend[p] /\ backend[p] \in Resumable
                  THEN loc[p].session ELSE None]
    /\ Goto(p, "agent")
    /\ UNCHANGED <<files, missing, backend, launches>>

\* _record_agent_metadata: a result without a session keeps the prior one.
MetadataAfter(r, b, session) ==
    [r EXCEPT !.provider = b,
              !.session = IF session # None THEN session ELSE @]

\* Mutant: one repair too many.
AfterReplyOffByOne(kind, repair) ==
    CASE kind = "cancelled" -> "cancel"
      [] kind = "broken"    -> "fail"
      [] kind = "invalid"   -> IF repair <= MaxRepairs THEN "retry" ELSE "fail"
      [] kind = "valid"     -> "accept"

\* Where the process goes on each kind of result.  "invalid" is a result or an
\* output that fails its schema, which is repaired while repairs remain.
AfterReply(kind, repair) ==
    CASE kind = "cancelled" -> "cancel"
      [] kind = "broken"    -> "fail"
      [] kind = "invalid"   -> IF repair < MaxRepairs THEN "retry" ELSE "fail"
      [] kind = "valid"     -> "accept"

Reply(p) ==
    /\ pc[p] = "agent"
    /\ \E session \in {None} \cup ({backend[p]} \cap Sessions) :
          Save(p, MetadataAfter(loc[p], backend[p], session))
    /\ \E kind \in {"valid", "invalid", "broken", "cancelled"} :
          LET next == AfterReply(kind, job[p].repair)
          IN  /\ Goto(p, next)
              /\ job' = [job EXCEPT ![p].session = None,
                                    ![p].repair = IF next = "retry" THEN @ + 1 ELSE 0]
    /\ UNCHANGED <<files, missing, backend, launches>>

\* Mutant: a cancelled run is not explained.
CancelSilently(p) ==
    /\ pc[p] = "cancel"
    /\ Transition(p, "cancelled")
    /\ Goto(p, "returned")
    /\ UNCHANGED <<files, missing, backend, job, launches>>

Cancel(p) ==
    /\ pc[p] = "cancel"
    /\ Transition(p, "cancelled")
    /\ Goto(p, "limit")
    /\ UNCHANGED <<files, missing, backend, job, launches>>

-----------------------------------------------------------------------------
(* _continue: what each stage persists.                                    *)

\* The output cannot be converted, or the workflow cannot finalize: the stage
\* fails without another repair.  An analysis may fail part-way: each claim and
\* scenario is written before the next is converted.
RejectOutput(p) ==
    /\ pc[p] \in {"accept", "analyzing"}
    /\ pc[p] = "analyzing" => job[p].todo # <<>>
    /\ Goto(p, "fail")
    /\ job' = [job EXCEPT ![p] = NoJob]
    /\ UNCHANGED <<run, files, missing, loc, backend, launches>>

SavePlan(p) ==
    /\ pc[p] = "accept" /\ Stage(p) = "plan"
    /\ ~planned
    /\ planned' = TRUE
    /\ Goto(p, "checkpoint")
    /\ UNCHANGED <<run, artifacts, claims, scenarios, verification, outputs, report,
                   limitation, missing, loc, backend, job, launches>>

\* plan.md is immutable and every plan has a new identity.
PlanConflict(p) ==
    /\ pc[p] = "accept" /\ Stage(p) = "plan"
    /\ planned
    /\ Goto(p, "fail")
    /\ UNCHANGED <<run, files, missing, loc, backend, job, launches>>

Analyze(p) ==
    /\ pc[p] = "accept" /\ Stage(p) = "analyze"
    /\ \E a \in Analyses : job' = [job EXCEPT ![p].todo = a]
    /\ Goto(p, "analyzing")
    /\ UNCHANGED <<run, files, missing, loc, backend, launches>>

AddClaim(p) ==
    /\ pc[p] = "analyzing" /\ job[p].todo # <<>>
    /\ LET draft == Head(job[p].todo)
       IN  /\ draft.kind = "claim" /\ ValidDraft(draft)
           /\ claims' = Append(claims, [materiality |-> draft.materiality,
                                        cites |-> draft.cites,
                                        status |-> "proposed"])
    /\ job' = [job EXCEPT ![p].todo = Tail(@), ![p].ids = Append(@, Len(claims'))]
    /\ UNCHANGED <<run, planned, artifacts, scenarios, verification, outputs, report,
                   limitation, missing, pc, loc, backend, launches>>

AddScenario(p) ==
    /\ pc[p] = "analyzing" /\ job[p].todo # <<>>
    /\ LET draft == Head(job[p].todo)
       IN  draft.kind = "scenario" /\ ValidDraft(draft)
    /\ scenarios' = scenarios + 1
    /\ job' = [job EXCEPT ![p].todo = Tail(@)]
    /\ UNCHANGED <<run, planned, artifacts, claims, verification, outputs, report,
                   limitation, missing, pc, loc, backend, launches>>

\* Mutant: the agent's verdict replaces the deterministic checks.
JudgeTrusting(p) ==
    /\ pc[p] = "accept" /\ Stage(p) = "verify"
    /\ \E agentPassed, blocking \in BOOLEAN :
          LET ids == LatestClaims(loc[p].checkpoints)
          IN  job' = [job EXCEPT ![p].todo = ids, ![p].ids = ids,
                                 ![p].passed = agentPassed /\ ~blocking]
    /\ Goto(p, "judging")
    /\ UNCHANGED <<run, files, missing, loc, backend, launches>>

\* VerificationService.verify up to its first write: the verdict is computed
\* from the claims and artifacts on disk and the agent's critique, then the
\* claims are marked one by one.
Judge(p) ==
    /\ pc[p] = "accept" /\ Stage(p) = "verify"
    /\ \E agentPassed, blocking \in BOOLEAN :
          LET ids == LatestClaims(loc[p].checkpoints)
          IN  job' = [job EXCEPT
                        ![p].todo = ids,
                        ![p].ids = ids,
                        ![p].passed = DeterministicPass(ids) /\ agentPassed /\ ~blocking]
    /\ Goto(p, "judging")
    /\ UNCHANGED <<run, files, missing, loc, backend, launches>>

MarkClaim(p) ==
    /\ pc[p] = "judging" /\ job[p].todo # <<>>
    /\ claims' = [claims EXCEPT ![Head(job[p].todo)].status =
                     IF job[p].passed THEN "verified" ELSE "rejected"]
    /\ job' = [job EXCEPT ![p].todo = Tail(@)]
    /\ UNCHANGED <<run, planned, artifacts, scenarios, verification, outputs, report,
                   limitation, missing, pc, loc, backend, launches>>

SaveVerification(p) ==
    /\ pc[p] = "judging" /\ job[p].todo = <<>>
    /\ verification' = [passed |-> job[p].passed, claims |-> job[p].ids]
    /\ Goto(p, "checkpoint")
    /\ UNCHANGED <<run, planned, artifacts, claims, scenarios, outputs, report,
                   limitation, missing, loc, backend, job, launches>>

\* workflow.finalize returned.
Finalize(p) ==
    /\ pc[p] = "accept" /\ Stage(p) = "synthesize"
    /\ job' = [job EXCEPT ![p].todo = Outputs]
    /\ Goto(p, "saving")
    /\ UNCHANGED <<run, files, missing, loc, backend, launches>>

\* Signal, forecasts, graphs, profiles, portfolios; each under a new identity.
SaveOutput(p) ==
    /\ pc[p] = "saving" /\ job[p].todo # <<>>
    /\ outputs' = [outputs EXCEPT ![Head(job[p].todo)] = @ + 1]
    /\ job' = [job EXCEPT ![p].todo = Tail(@)]
    /\ UNCHANGED <<run, planned, artifacts, claims, scenarios, verification, report,
                   limitation, missing, pc, loc, backend, launches>>

\* Mutant: the run is completed before the synthesis is recorded.
SaveReportCompletes(p) ==
    /\ pc[p] = "saving" /\ job[p].todo = <<>>
    /\ ~report
    /\ report' = TRUE
    /\ Save(p, [loc[p] EXCEPT !.state = "completed"])
    /\ Goto(p, "checkpoint")
    /\ UNCHANGED <<planned, artifacts, claims, scenarios, verification, outputs,
                   limitation, missing, backend, job, launches>>

SaveReport(p) ==
    /\ pc[p] = "saving" /\ job[p].todo = <<>>
    /\ ~report
    /\ report' = TRUE
    /\ Goto(p, "checkpoint")
    /\ UNCHANGED <<run, planned, artifacts, claims, scenarios, verification, outputs,
                   limitation, missing, loc, backend, job, launches>>

\* report.md is written once: the conflict leaves the call, outside any try.
ReportConflict(p) ==
    /\ pc[p] = "saving" /\ job[p].todo = <<>>
    /\ report
    /\ Goto(p, "down")
    /\ loc' = [loc EXCEPT ![p] = None]
    /\ job' = [job EXCEPT ![p] = NoJob]
    /\ UNCHANGED <<run, files, missing, backend, launches>>

-----------------------------------------------------------------------------
(* _continue: checkpoint, bounded iteration, failure.                      *)

WithCheckpoint(r, j) ==
    LET stage == NextStage(r.checkpoints)
    IN  [r EXCEPT !.checkpoints =
            Append(@, [stage  |-> stage,
                       claims |-> IF stage = "analyze" THEN j.ids ELSE <<>>,
                       passed |-> stage = "verify" /\ j.passed])]

\* Mutant: one research iteration too many.
ExhaustedLate(cks) ==
    /\ Latest(cks).stage = "verify" /\ ~Latest(cks).passed
    /\ Cardinality(StagesOf(cks, "verify")) > MaxIterations

\* A failed verification that used up the research iterations.
Exhausted(cks) ==
    /\ Latest(cks).stage = "verify" /\ ~Latest(cks).passed
    /\ Cardinality(StagesOf(cks, "verify")) >= MaxIterations

\* Mutant: the synthesis is recorded before its report is saved.
WriteCheckpointEarly(p) ==
    /\ \/ pc[p] = "checkpoint"
       \/ pc[p] \in {"collecting", "analyzing", "saving"} /\ job[p].todo = <<>>
    /\ Save(p, WithCheckpoint(loc[p], job[p]))
    /\ Goto(p, IF Exhausted(run'.checkpoints) THEN "fail" ELSE "loop")
    /\ job' = [job EXCEPT ![p] = NoJob]
    /\ UNCHANGED <<files, missing, backend, launches>>

WriteCheckpoint(p) ==
    /\ \/ pc[p] = "checkpoint"
       \/ pc[p] \in {"collecting", "analyzing"} /\ job[p].todo = <<>>
    /\ LET next == WithCheckpoint(loc[p], job[p])
       IN  /\ Save(p, next)
           /\ Goto(p, IF Exhausted(next.checkpoints) THEN "fail" ELSE "loop")
    /\ job' = [job EXCEPT ![p] = NoJob]
    /\ UNCHANGED <<files, missing, backend, launches>>

\* _fail_run
Fail(p) ==
    /\ pc[p] = "fail"
    /\ Transition(p, "failed")
    /\ Goto(p, "limit")
    /\ UNCHANGED <<files, missing, backend, job, launches>>

SaveLimitation(p) ==
    /\ pc[p] = "limit"
    /\ limitation' = TRUE
    /\ Goto(p, "returned")
    /\ UNCHANGED <<run, planned, artifacts, claims, scenarios, verification, outputs,
                   report, missing, loc, backend, job, launches>>

Crash(p) ==
    /\ pc[p] \notin Idle
    /\ Goto(p, "down")
    /\ loc' = [loc EXCEPT ![p] = None]
    /\ job' = [job EXCEPT ![p] = NoJob]
    /\ UNCHANGED <<run, files, missing, backend, launches>>

-----------------------------------------------------------------------------

\* What a running call does by itself.
Step(p) ==
    \/ AskUser(p) \/ Unsupported(p) \/ Proceed(p)
    \/ ResumeReturns(p) \/ Reopen(p) \/ Rejoin(p)
    \/ NeedsResearch(p) \/ EnterStage(p) \/ Complete(p)
    \/ Collect(p) \/ CollectFails(p) \/ AddArtifact(p)
    \/ Attempt(p) \/ Reply(p) \/ Cancel(p) \/ RejectOutput(p)
    \/ SavePlan(p) \/ PlanConflict(p)
    \/ Analyze(p) \/ AddClaim(p) \/ AddScenario(p)
    \/ Judge(p) \/ MarkClaim(p) \/ SaveVerification(p)
    \/ Finalize(p) \/ SaveOutput(p) \/ SaveReport(p) \/ ReportConflict(p)
    \/ WriteCheckpoint(p) \/ Fail(p) \/ SaveLimitation(p)

Next == \E p \in Procs : Start(p) \/ Load(p) \/ Step(p) \/ Crash(p)

Spec == Init /\ [][Next]_vars

\* A call that is running keeps running: the event loop schedules it, and every
\* await ends (agent and source calls carry timeouts).  Nobody need resume.
FairSpec == Spec /\ \A p \in Procs : WF_vars(Step(p))
=============================================================================

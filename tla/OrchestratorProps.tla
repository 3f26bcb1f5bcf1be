-------------------------- MODULE OrchestratorProps --------------------------
(***************************************************************************)
(* What the orchestrator must guarantee, stated over module Orchestrator.  *)
(* The invariants named "...Saved", "StateTracksStage" and "LoopProceeds"  *)
(* hold for any number of processes; those marked [one process] rely on a  *)
(* run being driven by one process at a time.                              *)
(***************************************************************************)
EXTENDS Orchestrator

ClaimRecord == [materiality : {"low", "medium", "high"}, cites : SUBSET Nat,
                status : {"proposed", "verified", "rejected"}]

Labels == {"down", "returned", "created", "resuming", "loop", "collecting", "agent",
           "retry", "accept", "analyzing", "judging", "saving", "checkpoint",
           "cancel", "fail", "limit"}

\* What a process is in the middle of: its todo list holds work only at the four
\* labels that write one file per step.
JobOK(p) ==
    /\ DOMAIN job[p] = {"todo", "ids", "passed", "repair", "session"}
    /\ pc[p] = "collecting" => job[p].todo \in Seq(Artifact)
    /\ pc[p] = "analyzing" => job[p].todo \in Seq(Draft)
    /\ pc[p] = "judging" => job[p].todo \in Seq(Nat)
    /\ pc[p] = "saving" => job[p].todo \in Seq(OutputKinds)
    /\ pc[p] \notin {"collecting", "analyzing", "judging", "saving"} => job[p].todo = <<>>
    /\ job[p].ids \in Seq(Nat)
    /\ pc[p] \notin {"analyzing", "judging", "checkpoint"} => job[p].ids = <<>>
    /\ job[p].passed \in BOOLEAN
    /\ job[p].repair \in 0..MaxRepairs
    /\ job[p].session \in Backends \cup {None}

\* Type invariant: every file and every process-local variable has the shape
\* the code's dataclasses give it, and a live process has a run in hand.
TypeOK ==
    /\ run \in Run \cup {None}
    /\ planned \in BOOLEAN
    /\ artifacts \in Seq(Artifact)
    /\ claims \in Seq(ClaimRecord)
    /\ scenarios \in Nat
    /\ verification \in Verdict \cup {None}
    /\ outputs \in [OutputKinds -> Nat]
    /\ report \in BOOLEAN
    /\ limitation \in BOOLEAN
    /\ missing \in BOOLEAN
    /\ pc \in [Procs -> Labels]
    /\ loc \in [Procs -> Run \cup {None}]
    /\ backend \in [Procs -> Backends \cup {None}]
    /\ DOMAIN job = Procs
    /\ launches \in Nat
    /\ \A p \in Procs : JobOK(p)

-----------------------------------------------------------------------------
(* Safety.                                                                 *)

\* What a recorded stage left behind: a checkpoint never refers to a file that
\* a crash between two writes could have kept from being written.
CheckpointBacked(cks, i) ==
    /\ cks[i].stage = "plan" => planned
    /\ cks[i].stage = "analyze" =>
          \A k \in DOMAIN cks[i].claims : cks[i].claims[k] \in DOMAIN claims
    /\ cks[i].stage = "verify" => verification # None
    /\ cks[i].stage = "synthesize" =>
          report /\ \A k \in DOMAIN Outputs : outputs[Outputs[k]] > 0

\* Every checkpoint in run.md, and in the copy of any process, is backed by the
\* files its stage had to write first (research_orchestrator.py:202-300: the
\* artifacts are saved before _checkpoint), whatever crashes and however many
\* processes resume the run.
CheckpointsSaved ==
    /\ run # None => \A i \in DOMAIN run.checkpoints : CheckpointBacked(run.checkpoints, i)
    /\ \A p \in Procs : loc[p] # None =>
          \A i \in DOMAIN loc[p].checkpoints : CheckpointBacked(loc[p].checkpoints, i)

\* A completed run has its report and every artifact of its finalization on disk
\* and was last verified with a passing verdict (docs/05-runtime-flows.md:65).
CompletedSaved ==
    run # None /\ run.state = "completed" =>
        /\ planned /\ report
        /\ \A k \in DOMAIN Outputs : outputs[Outputs[k]] > 0
        /\ LET cks == run.checkpoints
           IN  /\ Len(cks) >= 5
               /\ cks[Len(cks)].stage = "synthesize"
               /\ cks[Len(cks) - 1].stage = "verify" /\ cks[Len(cks) - 1].passed

\* [one process] The verified claims of a completed run are exactly those of its
\* last analysis, each of them supported by artifacts on disk, although crashes
\* may have left claims of abandoned analyses and half-marked verdicts behind.
CompletedVerified ==
    run # None /\ run.state = "completed" =>
        LET analysis == run.checkpoints[Len(run.checkpoints) - 2]
            final == {analysis.claims[k] : k \in DOMAIN analysis.claims}
        IN  /\ analysis.stage = "analyze" /\ final # {}
            /\ \A i \in DOMAIN claims : (claims[i].status = "verified") = (i \in final)
            /\ \A i \in final : ClaimPasses(claims[i])
            /\ verification.passed

\* No claim is ever marked verified unless it passes the deterministic checks on
\* the artifacts on disk (verification_service.py:20: "checks that an agent
\* cannot waive"), in a finished run or not.
VerifiedSupported ==
    \A i \in DOMAIN claims : claims[i].status = "verified" => ClaimPasses(claims[i])

\* The state in run.md names the stage the checkpoints say is under way: either
\* the stage to be recorded next, or the one just recorded.
StateTracksStage ==
    run # None /\ run.state \in ActiveStates \ {"created"} =>
        LET cks == run.checkpoints
        IN  \/ NextStage(cks) # "done" /\ run.state = StateForStage(NextStage(cks))
            \/ cks # <<>> /\ run.state = StateForStage(Latest(cks).stage)
            \/ run.state = "needs_research" /\ NextStage(cks) = "collect"

\* No transition the orchestrator attempts is one the aggregate refuses: a loop
\* head can always enter its stage, or complete the run when none is left, and a
\* failing or cancelled call can always record that.
LoopProceeds ==
    \A p \in Procs :
        /\ pc[p] = "loop" =>
              \/ InStage(p)
              \/ Stage(p) # "done" /\ CanTransition(loc[p].state, StateForStage(Stage(p)))
              \/ Stage(p) = "collect" /\ CanTransition(loc[p].state, "needs_research")
              \/ Stage(p) = "done" /\ CanTransition(loc[p].state, "completed")
        /\ pc[p] \in {"fail", "cancel"} => loc[p].state \in ActiveStates

\* [one process] Bounded research: a launch adds at most MaxIterations failed
\* verifications to a new run and one to a run that had used them up.
ResearchBounded ==
    run # None =>
        Cardinality({i \in StagesOf(run.checkpoints, "verify") : ~run.checkpoints[i].passed})
            <= MaxIterations + launches - 1

\* [one process] Bounded repair: each entry into an agent stage makes at most
\* MaxRepairs + 1 attempts; an entry ends in a checkpoint or ends its call.
AttemptsBounded ==
    run # None =>
        \A s \in AgentStages :
            run.attempts[s] <=
                (MaxRepairs + 1) * (launches + Cardinality(StagesOf(run.checkpoints, s)))

\* A run that is reported failed after launch, or cancelled, explains itself in
\* limitation.md; the exception is a run refused because its first agent cannot
\* produce structured output, which never tried a stage.
EndingsExplained ==
    \A p \in Procs :
        pc[p] = "returned" /\ loc[p].state \in InterruptedStates =>
            \/ limitation
            \/ loc[p].checkpoints = <<>> /\ loc[p].attempts = FreshRun.attempts

-----------------------------------------------------------------------------
(* Action properties.                                                      *)

\* [one process] Checkpoints are only ever appended, one at a time, and only to
\* a run whose state is that of the recorded stage.
CheckpointsAppended ==
    [][run # None /\ run'.checkpoints # run.checkpoints =>
          /\ Len(run'.checkpoints) = Len(run.checkpoints) + 1
          /\ \A i \in DOMAIN run.checkpoints : run'.checkpoints[i] = run.checkpoints[i]
          /\ run.state = StateForStage(NextStage(run.checkpoints))]_vars

-----------------------------------------------------------------------------
(* Liveness.                                                               *)

\* Every call of start or resume comes to an end: repairs, research iterations
\* and the loop over stages are all bounded.
CallsEnd == \A p \in Procs : pc[p] \notin Idle ~> pc[p] \in Idle

-----------------------------------------------------------------------------
(* A statement of the documentation that the code does not live up to.      *)

\* docs/10-implementation-plan.md:268: "restarting FRA after any completed stage
\* resumes from Markdown": a call never returns a run that is still under way.
ReturnedSettled ==
    \A p \in Procs : pc[p] = "returned" => loc[p].state \notin ActiveStates
=============================================================================

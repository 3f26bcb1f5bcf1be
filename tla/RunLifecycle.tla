---------------------------- MODULE RunLifecycle ----------------------------
(***************************************************************************)
(* What run.md promises to whoever reads it (docs/06-markdown-storage.md:  *)
(* "run.md is the aggregate root and workflow checkpoint"): a state, and   *)
(* the stages completed so far with the verdict of each verification.      *)
(* Nothing is said of processes, agents or other files; Orchestrator is    *)
(* shown to implement this specification when one process at a time drives *)
(* the run (module OrchestratorRefinement).                                *)
(***************************************************************************)
EXTENDS ResearchRun

VARIABLES
    state,      \* the state of the run, or "absent"
    done        \* the completed stages, oldest first

lifecycle == <<state, done>>

Completed == [stage : Stages, passed : BOOLEAN]

Init ==
    /\ state = "absent"
    /\ done = <<>>

Create ==
    /\ state = "absent"
    /\ state' = "created"
    /\ UNCHANGED done

\* Enter the stage that comes next, directly or by way of needs_research.
Enter ==
    /\ NextStage(done) # "done"
    /\ \/ state' = StateForStage(NextStage(done))
       \/ state' = "needs_research" /\ NextStage(done) = "collect"
    /\ CanTransition(state, state')
    /\ UNCHANGED done

\* Record the stage the run is in; only a verification has a verdict.
Record ==
    /\ NextStage(done) # "done"
    /\ state = StateForStage(NextStage(done))
    /\ \E passed \in BOOLEAN :
          /\ passed => NextStage(done) = "verify"
          /\ done' = Append(done, [stage |-> NextStage(done), passed |-> passed])
    /\ UNCHANGED state

Interrupt ==
    /\ \E target \in InterruptedStates :
          CanTransition(state, target) /\ state' = target
    /\ UNCHANGED done

\* An interrupted run re-enters the stage that comes next.
Reopen ==
    /\ state \in InterruptedStates
    /\ NextStage(done) # "done"
    /\ state' = StateForStage(NextStage(done))
    /\ UNCHANGED done

\* Mutant: a synthesizing run completes before its synthesis is recorded.
CompleteEarly ==
    /\ CanTransition(state, "completed")
    /\ state' = "completed"
    /\ UNCHANGED done

Complete ==
    /\ NextStage(done) = "done"
    /\ CanTransition(state, "completed")
    /\ state' = "completed"
    /\ UNCHANGED done

Next == Create \/ Enter \/ Record \/ Interrupt \/ Reopen \/ Complete

Spec == Init /\ [][Next]_lifecycle

-----------------------------------------------------------------------------

TypeOK ==
    /\ state \in States \cup {"absent"}
    /\ done \in Seq(Completed)

\* The stages follow one another: a plan first, then rounds of collect, analyze
\* and verify until a verification passes, then one synthesis and nothing more
\* (_next_stage, research_orchestrator.py:596-612).
Follows(previous, stage) ==
    \/ previous.stage = "plan"    /\ stage = "collect"
    \/ previous.stage = "collect" /\ stage = "analyze"
    \/ previous.stage = "analyze" /\ stage = "verify"
    \/ previous.stage = "verify"  /\ stage = (IF previous.passed THEN "synthesize"
                                              ELSE "collect")

\* Every run's stages form such a chain, however often it was interrupted.
ChainLegal ==
    /\ done # <<>> => done[1].stage = "plan"
    /\ \A i \in DOMAIN done : i > 1 => Follows(done[i - 1], done[i].stage)

\* A completed run ends in a synthesis that a passing verification preceded.
CompletedMeans ==
    state = "completed" =>
        /\ Len(done) >= 2
        /\ done[Len(done)].stage = "synthesize"
        /\ done[Len(done) - 1] = [stage |-> "verify", passed |-> TRUE]

\* A failed or rejected verification never leads to synthesis: a run that is
\* synthesizing was last verified with a passing verdict.
SynthesisEarned ==
    state = "synthesizing" =>
        \E i \in DOMAIN done :
            /\ i >= Len(done) - 1
            /\ done[i] = [stage |-> "verify", passed |-> TRUE]
=============================================================================

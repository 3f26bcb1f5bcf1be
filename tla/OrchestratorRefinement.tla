----------------------- MODULE OrchestratorRefinement -----------------------
(***************************************************************************)
(* The refinement mapping from Orchestrator to RunLifecycle: the reader's  *)
(* view is the state of run.md and its checkpoints without their claims.   *)
(***************************************************************************)
EXTENDS OrchestratorProps

Reader == INSTANCE RunLifecycle WITH
    state <- IF run = None THEN "absent" ELSE run.state,
    done  <- IF run = None THEN <<>>
             ELSE [i \in DOMAIN run.checkpoints |->
                      [stage  |-> run.checkpoints[i].stage,
                       passed |-> run.checkpoints[i].passed]]

\* [one process] Whatever crashes, retries and resumes a run goes through, its
\* run.md only ever changes the way RunLifecycle lets a reader expect.
ImplementsLifecycle == Reader!Spec
=============================================================================

---------------------------- MODULE ResearchRun ----------------------------
(***************************************************************************)
(* The research-run aggregate of src/fra/domain/research.py: its states,   *)
(* the transitions the aggregate allows, and the stage the orchestrator    *)
(* reads off the last checkpoint.  A run is the record written to run.md:  *)
(*                                                                         *)
(*   state       where the run stands                                      *)
(*   checkpoints the completed stages, oldest first; a verify checkpoint   *)
(*               carries its verdict, an analyze checkpoint the identities *)
(*               of the claims it persisted                                *)
(*   attempts    how often each agent stage was tried                      *)
(*   provider    the backend named by the agent metadata, or None          *)
(*   session     the provider session in that metadata, named after the    *)
(*               backend that opened it, or None                           *)
(*                                                                         *)
(* Left out: identities, timestamps, state_history (which mirrors state),  *)
(* prompt and schema versions, and the text of results and failures.       *)
(***************************************************************************)
EXTENDS Naturals, Sequences

CONSTANTS
    Backends,       \* the agent CLIs that may be configured
    None            \* an absent value

ASSUME NoneAssumption == None \notin Backends

ActiveStates ==
    {"created", "planning", "collecting_evidence", "analyzing", "verifying",
     "needs_research", "synthesizing"}
InterruptedStates == {"failed", "cancelled", "needs_user_input"}
States == ActiveStates \cup InterruptedStates \cup {"completed"}

\* Mutant: a verification cannot ask for more research.
NextStatesForward(state) ==
    CASE state = "created"             -> {"planning"}
      [] state = "planning"            -> {"collecting_evidence"}
      [] state = "collecting_evidence" -> {"analyzing"}
      [] state = "analyzing"           -> {"verifying"}
      [] state = "verifying"           -> {"synthesizing"}
      [] state = "needs_research"      -> {"collecting_evidence"}
      [] state = "synthesizing"        -> {"completed"}
      [] OTHER                         -> {}

\* The transitions of the happy path.
NextStates(state) ==
    CASE state = "created"             -> {"planning"}
      [] state = "planning"            -> {"collecting_evidence"}
      [] state = "collecting_evidence" -> {"analyzing"}
      [] state = "analyzing"           -> {"verifying"}
      [] state = "verifying"           -> {"needs_research", "synthesizing"}
      [] state = "needs_research"      -> {"collecting_evidence"}
      [] state = "synthesizing"        -> {"completed"}
      [] OTHER                         -> {}

\* Mutant: a run can only be interrupted before it verifies.
CanTransitionForward(state, target) ==
    \/ target \in NextStates(state)
    \/ state \in ActiveStates \ {"verifying", "synthesizing"} /\ target \in InterruptedStates

\* ResearchRun.transition: any other target raises InvalidStateTransitionError.
CanTransition(state, target) ==
    \/ target \in NextStates(state)
    \/ state \in ActiveStates /\ target \in InterruptedStates

AgentStages == {"plan", "analyze", "verify", "synthesize"}
Stages == AgentStages \cup {"collect"}

StateForStage(stage) ==
    CASE stage = "plan"       -> "planning"
      [] stage = "collect"    -> "collecting_evidence"
      [] stage = "analyze"    -> "analyzing"
      [] stage = "verify"     -> "verifying"
      [] stage = "synthesize" -> "synthesizing"

Checkpoint == [stage : Stages, claims : Seq(Nat), passed : BOOLEAN]

Run == [state       : States,
        checkpoints : Seq(Checkpoint),
        attempts    : [AgentStages -> Nat],
        provider    : Backends \cup {None},
        session     : Backends \cup {None}]

\* ResearchRun.create
FreshRun == [state       |-> "created",
             checkpoints |-> <<>>,
             attempts    |-> [s \in AgentStages |-> 0],
             provider    |-> None,
             session     |-> None]

Latest(cks) == cks[Len(cks)]

\* Mutant: the verdict of a verification is not looked at.
NextStageBlind(cks) ==
    IF cks = <<>> THEN "plan"
    ELSE CASE Latest(cks).stage = "plan"       -> "collect"
           [] Latest(cks).stage = "collect"    -> "analyze"
           [] Latest(cks).stage = "analyze"    -> "verify"
           [] Latest(cks).stage = "verify"     -> "synthesize"
           [] Latest(cks).stage = "synthesize" -> "done"

\* ResearchOrchestrator._next_stage; "done" stands for None.
NextStage(cks) ==
    IF cks = <<>> THEN "plan"
    ELSE CASE Latest(cks).stage = "plan"       -> "collect"
           [] Latest(cks).stage = "collect"    -> "analyze"
           [] Latest(cks).stage = "analyze"    -> "verify"
           [] Latest(cks).stage = "verify"     ->
                 IF Latest(cks).passed THEN "synthesize" ELSE "collect"
           [] Latest(cks).stage = "synthesize" -> "done"

StagesOf(cks, stage) == {i \in DOMAIN cks : cks[i].stage = stage}
=============================================================================

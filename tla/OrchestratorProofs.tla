------------------------- MODULE OrchestratorProofs -------------------------
(***************************************************************************)
(* TLAPS proofs about Orchestrator, for any number of processes, launches, *)
(* repairs and iterations, and for any collections, analyses and outputs.  *)
(*                                                                         *)
(* The inductive invariant IInv says of each process what it has already   *)
(* written when it stands at a label (WorkDone), and of each copy of the   *)
(* run that its checkpoints are backed by files (GoodRun).  Files only     *)
(* grow (FilesGrow), so what one process relies on no other process takes  *)
(* away; a step of p therefore needs an argument about p alone.            *)
(*                                                                         *)
(* Two more invariants rest on it: SupportInv, of the verification, and    *)
(* StageInv, of the state and the stage of every copy of the run.          *)
(***************************************************************************)
EXTENDS OrchestratorProps, TLAPS

GoodRun(r) ==
    /\ r \in Run
    /\ \A i \in DOMAIN r.checkpoints : CheckpointBacked(r.checkpoints, i)

OutputsSaved == \A k \in DOMAIN Outputs : outputs[Outputs[k]] > 0

\* What process p has written of the stage it is in.
WorkDone(p) ==
    /\ pc[p] \in {"agent", "retry", "accept"} => Stage(p) \in AgentStages
    /\ pc[p] = "collecting" => Stage(p) = "collect"
    /\ pc[p] = "analyzing" =>
          /\ Stage(p) = "analyze"
          /\ \A k \in DOMAIN job[p].ids : job[p].ids[k] \in DOMAIN claims
    /\ pc[p] = "judging" => Stage(p) = "verify"
    /\ pc[p] = "saving" =>
          /\ Stage(p) = "synthesize"
          /\ \A k \in DOMAIN Outputs :
                \/ outputs[Outputs[k]] > 0
                \/ \E j \in DOMAIN job[p].todo : job[p].todo[j] = Outputs[k]
    /\ pc[p] = "checkpoint" =>
          \/ Stage(p) = "plan" /\ planned
          \/ Stage(p) = "verify" /\ verification # None
          \/ Stage(p) = "synthesize" /\ report /\ OutputsSaved

ProcOK(p) ==
    /\ loc[p] = None \/ GoodRun(loc[p])
    /\ pc[p] \notin Idle => loc[p] \in Run /\ backend[p] \in Backends
    /\ JobOK(p)
    /\ WorkDone(p)

FilesOK ==
    /\ planned \in BOOLEAN
    /\ artifacts \in Seq(Artifact)
    /\ claims \in Seq(ClaimRecord)
    /\ scenarios \in Nat
    /\ verification \in Verdict \cup {None}
    /\ outputs \in [OutputKinds -> Nat]
    /\ report \in BOOLEAN
    /\ limitation \in BOOLEAN
    /\ missing \in BOOLEAN

MapsOK ==
    /\ pc \in [Procs -> Labels]
    /\ loc \in [Procs -> Run \cup {None}]
    /\ backend \in [Procs -> Backends \cup {None}]
    /\ DOMAIN job = Procs
    /\ launches \in Nat

IInv ==
    /\ FilesOK
    /\ MapsOK
    /\ run = None \/ GoodRun(run)
    /\ \A p \in Procs : ProcOK(p)

\* A step never takes away a file another process's checkpoints rest on.
FilesGrow ==
    /\ planned => planned'
    /\ report => report'
    /\ DOMAIN claims \subseteq DOMAIN claims'
    /\ verification # None => verification' # None
    /\ \A k \in OutputKinds : outputs[k] > 0 => outputs'[k] > 0

\* What a step of p leaves alone of every other process.
OthersKeep(p) ==
    \A q \in Procs \ {p} :
        /\ pc'[q] = pc[q] /\ loc'[q] = loc[q]
        /\ backend'[q] = backend[q] /\ job'[q] = job[q]

\* What every step of p has to establish.
GoodStep(p) ==
    /\ FilesOK' /\ FilesGrow
    /\ MapsOK' /\ OthersKeep(p)
    /\ run' = run \/ run' = loc'[p]
    /\ ProcOK(p)'

-----------------------------------------------------------------------------
(* The argument common to all steps.                                       *)

\* A backed checkpoint stays backed.
LEMMA BackedStays ==
    ASSUME FilesGrow, NEW r, GoodRun(r)
    PROVE  GoodRun(r)'
  <1>1. \A k \in DOMAIN Outputs : Outputs[k] \in OutputKinds
    BY ConstantsAssumption
  <1>2. ASSUME NEW i \in DOMAIN r.checkpoints
        PROVE  CheckpointBacked(r.checkpoints, i)'
    BY <1>1 DEF FilesGrow, GoodRun, CheckpointBacked
  <1> QED
    BY <1>2 DEF GoodRun

\* A process that does not step keeps its part of the invariant.
LEMMA OthersStay ==
    ASSUME FilesGrow, NEW p \in Procs, NEW q \in Procs \ {p}, OthersKeep(p), ProcOK(q)
    PROVE  ProcOK(q)'
  <1>1. /\ pc'[q] = pc[q] /\ loc'[q] = loc[q]
        /\ backend'[q] = backend[q] /\ job'[q] = job[q]
    BY DEF OthersKeep
  <1>2. loc'[q] = None \/ GoodRun(loc[q])'
    BY <1>1, BackedStays DEF ProcOK
  <1>3. JobOK(q)'
    BY <1>1 DEF ProcOK, JobOK
  <1>4. \A k \in DOMAIN Outputs : Outputs[k] \in OutputKinds
    BY ConstantsAssumption
  <1>5. WorkDone(q)'
    BY <1>1, <1>4 DEF ProcOK, WorkDone, FilesGrow, OutputsSaved, Stage
  <1> QED
    BY <1>1, <1>2, <1>3, <1>5 DEF ProcOK, GoodRun

\* A good step of one process keeps the invariant of all.
LEMMA GoodStepKeeps ==
    ASSUME IInv, NEW p \in Procs, GoodStep(p)
    PROVE  IInv'
  <1>1. \A q \in Procs : ProcOK(q)'
    BY OthersStay DEF IInv, GoodStep
  <1>2. run' = None \/ GoodRun(run)'
    <2>1. CASE run' = run
      BY <2>1, BackedStays DEF IInv, GoodStep, GoodRun
    <2>2. CASE run' = loc'[p]
      BY <2>2, <1>1 DEF ProcOK, GoodRun
    <2> QED
      BY <2>1, <2>2 DEF GoodStep
  <1> QED
    BY <1>1, <1>2 DEF IInv, GoodStep

-----------------------------------------------------------------------------
(* Facts about the operators of the aggregate.                             *)

\* The stage to be recorded next is typed, and collection or a stage of the
\* agent unless none is left (_next_stage).
LEMMA StageTyped ==
    ASSUME NEW cks \in Seq(Checkpoint)
    PROVE  /\ NextStage(cks) \in Stages \cup {"done"}
           /\ NextStage(cks) = "verify" => cks # <<>> /\ Latest(cks).stage = "analyze"
  <1>1. CASE cks = <<>>
    BY <1>1 DEF NextStage, Stages, AgentStages
  <1>2. CASE cks # <<>>
    <2>1. Latest(cks) \in Checkpoint
      BY <1>2 DEF Latest
    <2>2. Latest(cks).stage \in {"plan", "collect", "analyze", "verify", "synthesize"}
      BY <2>1 DEF Checkpoint, Stages, AgentStages
    <2> QED
      BY <1>2, <2>2 DEF NextStage, Stages, AgentStages
  <1> QED
    BY <1>1, <1>2

\* A legal transition leads to a state of the aggregate.
LEMMA TransitionTyped ==
    ASSUME NEW state, NEW target, CanTransition(state, target)
    PROVE  target \in States
  BY DEF CanTransition, NextStates, States, ActiveStates, InterruptedStates

\* Changing the state of a run leaves it backed.
LEMMA StateChangeGood ==
    ASSUME NEW r, GoodRun(r), NEW state \in States
    PROVE  GoodRun([r EXCEPT !.state = state])
  <1>1. [r EXCEPT !.state = state] \in Run
    BY DEF GoodRun, Run
  <1>2. [r EXCEPT !.state = state].checkpoints = r.checkpoints
    BY DEF GoodRun, Run
  <1> QED
    BY <1>1, <1>2 DEF GoodRun

-----------------------------------------------------------------------------
(* Steps that write no file but run.md.                                    *)

\* A step that writes no file but run.md keeps the files typed.
LEMMA QuietFiles ==
    ASSUME IInv, UNCHANGED <<files, missing>>
    PROVE  FilesOK' /\ FilesGrow
  BY DEF IInv, files, FilesOK, FilesGrow

\* Such a step may leave p at a label that promises nothing about files.
LEMMA QuietSettles ==
    ASSUME IInv, NEW p \in Procs, UNCHANGED <<files, missing>>,
           pc'[p] \in {"created", "resuming", "loop", "cancel", "fail", "limit",
                       "returned", "down"},
           loc'[p] = None \/ GoodRun(loc'[p]),
           pc'[p] \notin Idle => loc'[p] \in Run /\ backend'[p] \in Backends,
           JobOK(p)'
    PROVE  ProcOK(p)'
  <1>1. loc'[p] = None \/ GoodRun(loc[p])'
    BY DEF GoodRun, CheckpointBacked, files
  <1>2. WorkDone(p)'
    BY DEF WorkDone
  <1> QED
    BY <1>1, <1>2 DEF ProcOK

\* Saving a backed run puts it in run.md and in p's hands, and nowhere else.
LEMMA SaveGood ==
    ASSUME IInv, NEW p \in Procs, NEW r, GoodRun(r), Save(p, r)
    PROVE  /\ run' = r /\ loc'[p] = r
           /\ loc' \in [Procs -> Run \cup {None}]
           /\ \A q \in Procs \ {p} : loc'[q] = loc[q]
  BY DEF Save, GoodRun, IInv, MapsOK

\* Steps that only move p to another label.
LEMMA MoveGood ==
    ASSUME IInv, NEW p \in Procs,
           Proceed(p) \/ ResumeReturns(p) \/ Rejoin(p) \/ CollectFails(p) \/ PlanConflict(p)
    PROVE  GoodStep(p)
  <1> DEFINE from == {"created", "resuming", "loop", "accept"}
  <1>1. /\ pc[p] \in from
        /\ \E label \in {"loop", "returned", "fail"} : pc' = [pc EXCEPT ![p] = label]
        /\ UNCHANGED <<run, files, missing, loc, backend, job, launches>>
    BY DEF Proceed, ResumeReturns, Rejoin, CollectFails, PlanConflict, Goto
  <1>2. FilesOK' /\ FilesGrow
    BY <1>1, QuietFiles
  <1>3. MapsOK' /\ OthersKeep(p)
    BY <1>1 DEF IInv, MapsOK, OthersKeep, Labels
  <1>4. pc'[p] \in {"loop", "returned", "fail"}
    BY <1>1 DEF IInv, MapsOK
  <1>5. JobOK(p)'
    BY <1>1, <1>4 DEF IInv, ProcOK, JobOK
  <1>6. ProcOK(p)'
    BY <1>1, <1>4, <1>5, QuietSettles DEF IInv, ProcOK, Idle
  <1> QED
    BY <1>1, <1>2, <1>3, <1>6 DEF GoodStep

\* Steps that change the state of the run and keep its checkpoints.
LEMMA StateStepGood ==
    ASSUME IInv, NEW p \in Procs,
           \/ AskUser(p) \/ Unsupported(p) \/ Reopen(p) \/ NeedsResearch(p)
           \/ EnterStage(p) \/ Complete(p) \/ Cancel(p) \/ Fail(p)
    PROVE  GoodStep(p)
  <1> DEFINE to == {"loop", "limit", "returned"}
  <1>1. /\ pc[p] \in {"created", "resuming", "loop", "cancel", "fail"}
        /\ \E label \in to : pc' = [pc EXCEPT ![p] = label]
        /\ UNCHANGED <<files, missing, backend, job, launches>>
    BY DEF AskUser, Unsupported, Reopen, NeedsResearch, EnterStage, Complete, Cancel, Fail,
       Goto, IInv, MapsOK
  <1>2. loc[p] \in Run /\ GoodRun(loc[p]) /\ backend[p] \in Backends
    BY <1>1, ConstantsAssumption DEF IInv, ProcOK, Idle
  <1>3. PICK target \in States : Save(p, [loc[p] EXCEPT !.state = target])
    <2>1. CASE Reopen(p)
      <3>1. NextStage(loc[p].checkpoints) \in Stages
        BY <2>1, <1>2, StageTyped DEF Reopen, Stage, Run
      <3>2. StateForStage(NextStage(loc[p].checkpoints)) \in States
        BY <3>1 DEF StateForStage, Stages, AgentStages, States, ActiveStates
      <3> QED
        BY <2>1, <3>2 DEF Reopen, Stage
    <2>2. CASE ~Reopen(p)
      <3>1. PICK target : Transition(p, target)
        BY <2>2 DEF AskUser, Unsupported, NeedsResearch, EnterStage, Complete, Cancel, Fail
      <3> QED
        BY <3>1, TransitionTyped DEF Transition
    <2> QED
      BY <2>1, <2>2
  <1>4. GoodRun([loc[p] EXCEPT !.state = target])
    BY <1>2, StateChangeGood
  <1>5. FilesOK' /\ FilesGrow
    BY <1>1, QuietFiles
  <1>6. /\ run' = loc'[p] /\ GoodRun(loc'[p])
        /\ loc' \in [Procs -> Run \cup {None}]
        /\ \A q \in Procs \ {p} : loc'[q] = loc[q]
    BY <1>3, <1>4, SaveGood
  <1>7. MapsOK' /\ OthersKeep(p)
    BY <1>1, <1>6 DEF IInv, MapsOK, OthersKeep, Labels
  <1>8. pc'[p] \in to
    BY <1>1 DEF IInv, MapsOK
  <1>9. JobOK(p)'
    BY <1>1, <1>8 DEF IInv, ProcOK, JobOK
  <1>10. ProcOK(p)'
    BY <1>1, <1>2, <1>6, <1>8, <1>9, QuietSettles DEF GoodRun
  <1> QED
    BY <1>5, <1>6, <1>7, <1>10 DEF GoodStep

\* A process that goes away leaves the files as they are.
LEMMA StopGood ==
    ASSUME IInv, NEW p \in Procs, Crash(p) \/ ReportConflict(p)
    PROVE  GoodStep(p)
  <1>1. /\ pc' = [pc EXCEPT ![p] = "down"]
        /\ loc' = [loc EXCEPT ![p] = None]
        /\ job' = [job EXCEPT ![p] = NoJob]
        /\ UNCHANGED <<run, files, missing, backend, launches>>
    BY DEF Crash, ReportConflict, Goto
  <1>2. FilesOK' /\ FilesGrow
    BY <1>1, QuietFiles
  <1>3. MapsOK' /\ OthersKeep(p)
    BY <1>1 DEF IInv, MapsOK, OthersKeep, Labels
  <1>4. pc'[p] = "down" /\ loc'[p] = None /\ job'[p] = NoJob
    BY <1>1 DEF IInv, MapsOK
  <1>5. JobOK(p)'
    BY <1>4, ConstantsAssumption DEF JobOK, NoJob
  <1>6. ProcOK(p)'
    BY <1>1, <1>4, <1>5, QuietSettles DEF Idle
  <1> QED
    BY <1>1, <1>2, <1>3, <1>6 DEF GoodStep

\* A new call: the fresh run of start, or the run on disk of resume.
LEMMA LaunchGood ==
    ASSUME IInv, NEW p \in Procs, Start(p) \/ Load(p)
    PROVE  GoodStep(p)
  <1>1. /\ pc[p] \in Idle
        /\ launches' = launches + 1
        /\ \E b \in Backends : backend' = [backend EXCEPT ![p] = b]
        /\ \E label \in {"created", "resuming"} : pc' = [pc EXCEPT ![p] = label]
        /\ UNCHANGED <<files, missing, job>>
    BY DEF Start, Load, Launch, Goto
  <1>2. /\ GoodRun(loc'[p])
        /\ run' = run \/ run' = loc'[p]
        /\ loc' \in [Procs -> Run \cup {None}]
        /\ \A q \in Procs \ {p} : loc'[q] = loc[q]
    <2>1. CASE Start(p)
      <3>1. FreshRun \in Run
        BY DEF FreshRun, Run, States, ActiveStates
      <3>2. GoodRun(FreshRun)
        BY <3>1 DEF GoodRun, FreshRun
      <3> QED
        BY <2>1, <3>2, SaveGood DEF Start
    <2>2. CASE Load(p)
      BY <2>2 DEF Load, IInv, GoodRun, MapsOK
    <2> QED
      BY <2>1, <2>2
  <1>3. FilesOK' /\ FilesGrow
    BY <1>1, QuietFiles
  <1>4. MapsOK' /\ OthersKeep(p)
    <2>1. pc' \in [Procs -> Labels]
      BY <1>1 DEF IInv, MapsOK, Labels
    <2>2. backend' \in [Procs -> Backends \cup {None}] /\ launches' \in Nat
      BY <1>1 DEF IInv, MapsOK
    <2>3. OthersKeep(p)
      BY <1>1, <1>2 DEF IInv, MapsOK, OthersKeep
    <2> QED
      BY <1>1, <1>2, <2>1, <2>2, <2>3 DEF IInv, MapsOK
  <1>5. pc'[p] \in {"created", "resuming"} /\ backend'[p] \in Backends
    BY <1>1 DEF IInv, MapsOK
  <1>6. JobOK(p)'
    BY <1>1, <1>5 DEF IInv, ProcOK, JobOK, Idle
  <1>7. ProcOK(p)'
    BY <1>1, <1>2, <1>5, <1>6, QuietSettles DEF GoodRun
  <1> QED
    BY <1>2, <1>3, <1>4, <1>7 DEF GoodStep

-----------------------------------------------------------------------------
(* Steps of a stage that only change run.md and what p is in the middle of. *)

\* What these steps leave alone, whatever they put into job.
LEMMA LocalFrame ==
    ASSUME IInv, NEW p \in Procs, UNCHANGED <<files, missing, backend, launches>>,
           NEW label \in Labels, pc' = [pc EXCEPT ![p] = label],
           DOMAIN job' = Procs, \A q \in Procs \ {p} : job'[q] = job[q],
           loc' \in [Procs -> Run \cup {None}],
           \A q \in Procs \ {p} : loc'[q] = loc[q]
    PROVE  FilesOK' /\ FilesGrow /\ MapsOK' /\ OthersKeep(p) /\ pc'[p] = label
  <1>1. FilesOK' /\ FilesGrow
    BY QuietFiles
  <1>2. MapsOK' /\ OthersKeep(p) /\ pc'[p] = label
    BY DEF IInv, MapsOK, OthersKeep
  <1> QED
    BY <1>1, <1>2

\* The workflow collected, the agent analyzed, or the workflow finalized.
LEMMA TodoGood ==
    ASSUME IInv, NEW p \in Procs, Collect(p) \/ Analyze(p) \/ Finalize(p)
    PROVE  GoodStep(p)
  <1>1. /\ pc[p] \in {"loop", "accept"}
        /\ loc[p] \in Run /\ GoodRun(loc[p]) /\ backend[p] \in Backends
        /\ UNCHANGED <<run, files, missing, loc, backend, launches>>
    BY ConstantsAssumption DEF Collect, Analyze, Finalize, IInv, ProcOK, Idle
  <1>2. PICK todo, label :
          /\ job' = [job EXCEPT ![p].todo = todo]
          /\ pc' = [pc EXCEPT ![p] = label]
          /\ \/ label = "collecting" /\ Stage(p) = "collect" /\ todo \in Seq(Artifact)
             \/ label = "analyzing" /\ Stage(p) = "analyze" /\ todo \in Seq(Draft)
             \/ label = "saving" /\ Stage(p) = "synthesize" /\ todo = Outputs
    BY ConstantsAssumption DEF Collect, Analyze, Finalize, Goto
  <1>3. DOMAIN job = Procs /\ JobOK(p)
    BY DEF IInv, MapsOK, ProcOK
  <1>4. /\ DOMAIN job' = Procs /\ \A q \in Procs \ {p} : job'[q] = job[q]
        /\ job'[p] = [job[p] EXCEPT !.todo = todo]
    BY <1>2, <1>3
  <1>5. /\ DOMAIN job'[p] = DOMAIN job[p] /\ job'[p].todo = todo
        /\ job'[p].ids = job[p].ids /\ job'[p].passed = job[p].passed
        /\ job'[p].repair = job[p].repair /\ job'[p].session = job[p].session
    BY <1>3, <1>4 DEF JobOK
  <1>6. FilesOK' /\ FilesGrow /\ MapsOK' /\ OthersKeep(p) /\ pc'[p] = label
    BY <1>1, <1>2, <1>4, LocalFrame DEF IInv, MapsOK, Labels
  <1>7. JobOK(p)'
    BY <1>1, <1>2, <1>3, <1>5, <1>6, ConstantsAssumption DEF JobOK
  <1>8. WorkDone(p)'
    BY <1>1, <1>2, <1>3, <1>5, <1>6 DEF WorkDone, Stage, JobOK
  <1>9. ProcOK(p)'
    BY <1>1, <1>7, <1>8 DEF ProcOK, GoodRun, CheckpointBacked, files
  <1> QED
    BY <1>1, <1>6, <1>9 DEF GoodStep

\* The claims a verification judges are those of the analysis just recorded.
LEMMA LatestClaimsTyped ==
    ASSUME NEW cks \in Seq(Checkpoint), cks # <<>>, Latest(cks).stage = "analyze"
    PROVE  LatestClaims(cks) \in Seq(Nat)
  <1>1. Len(cks) \in StagesOf(cks, "analyze")
    BY DEF Latest, StagesOf
  <1>2. \A j \in StagesOf(cks, "analyze") : j \in 1..Len(cks)
    BY DEF StagesOf
  <1> DEFINE IsLast(i) == \A j \in StagesOf(cks, "analyze") : j <= i
  <1>3. \E i \in StagesOf(cks, "analyze") : IsLast(i)
    BY <1>1, <1>2
  <1> DEFINE last == CHOOSE i \in StagesOf(cks, "analyze") : IsLast(i)
  <1>4. last \in DOMAIN cks
    BY <1>3 DEF StagesOf
  <1>5. LatestClaims(cks) = cks[last].claims
    BY DEF LatestClaims
  <1>6. cks[last] \in Checkpoint
    BY <1>4
  <1> QED
    BY <1>5, <1>6 DEF Checkpoint

\* The verdict is computed; nothing is written yet.
LEMMA JudgeGood ==
    ASSUME IInv, NEW p \in Procs, Judge(p)
    PROVE  GoodStep(p)
  <1>1. /\ pc[p] = "accept" /\ Stage(p) = "verify"
        /\ UNCHANGED <<run, files, missing, loc, backend, launches>>
        /\ pc' = [pc EXCEPT ![p] = "judging"]
    BY DEF Judge, Goto
  <1>2. loc[p] \in Run /\ GoodRun(loc[p]) /\ backend[p] \in Backends
    BY <1>1, ConstantsAssumption DEF IInv, ProcOK, Idle
  <1> DEFINE ids == LatestClaims(loc[p].checkpoints)
  <1>3. ids \in Seq(Nat)
    BY <1>1, <1>2, StageTyped, LatestClaimsTyped DEF Stage, Run
  <1>4. PICK passed \in BOOLEAN :
            job' = [job EXCEPT ![p].todo = ids, ![p].ids = ids, ![p].passed = passed]
    BY DEF Judge, DeterministicPass
  <1>5. DOMAIN job = Procs /\ JobOK(p)
    BY DEF IInv, MapsOK, ProcOK
  <1>6. /\ DOMAIN job' = Procs /\ \A q \in Procs \ {p} : job'[q] = job[q]
        /\ job'[p] = [job[p] EXCEPT !.todo = ids, !.ids = ids, !.passed = passed]
    BY <1>4, <1>5
  <1>7. /\ DOMAIN job'[p] = DOMAIN job[p] /\ job'[p].todo = ids
        /\ job'[p].ids = ids /\ job'[p].passed = passed
        /\ job'[p].repair = job[p].repair /\ job'[p].session = job[p].session
    BY <1>5, <1>6 DEF JobOK
  <1>8. FilesOK' /\ FilesGrow /\ MapsOK' /\ OthersKeep(p) /\ pc'[p] = "judging"
    BY <1>1, <1>6, LocalFrame DEF IInv, MapsOK, Labels
  <1>9. JobOK(p)'
    BY <1>3, <1>4, <1>5, <1>7, <1>8 DEF JobOK
  <1>10. WorkDone(p)'
    BY <1>1, <1>8 DEF WorkDone, Stage
  <1>11. ProcOK(p)'
    BY <1>1, <1>2, <1>9, <1>10 DEF ProcOK, GoodRun, CheckpointBacked, files
  <1> QED
    BY <1>1, <1>8, <1>11 DEF GoodStep

\* A rejected output fails the stage.
LEMMA RejectGood ==
    ASSUME IInv, NEW p \in Procs, RejectOutput(p)
    PROVE  GoodStep(p)
  <1>1. /\ pc[p] \in {"accept", "analyzing"}
        /\ UNCHANGED <<run, files, missing, loc, backend, launches>>
        /\ pc' = [pc EXCEPT ![p] = "fail"]
        /\ job' = [job EXCEPT ![p] = NoJob]
    BY DEF RejectOutput, Goto
  <1>2. loc[p] \in Run /\ GoodRun(loc[p]) /\ backend[p] \in Backends
    BY <1>1, ConstantsAssumption DEF IInv, ProcOK, Idle
  <1>3. FilesOK' /\ FilesGrow /\ MapsOK' /\ OthersKeep(p) /\ pc'[p] = "fail"
    BY <1>1, LocalFrame DEF IInv, MapsOK, Labels
  <1>4. JobOK(p)'
    BY <1>1, <1>3, ConstantsAssumption DEF JobOK, NoJob, IInv, MapsOK
  <1>5. ProcOK(p)'
    BY <1>1, <1>2, <1>3, <1>4, QuietSettles
  <1> QED
    BY <1>1, <1>3, <1>5 DEF GoodStep

\* An attempt is counted before the agent is asked.
LEMMA AttemptGood ==
    ASSUME IInv, NEW p \in Procs, Attempt(p)
    PROVE  GoodStep(p)
  <1>1. /\ pc[p] \in {"loop", "retry"}
        /\ UNCHANGED <<files, missing, backend, launches>>
        /\ pc' = [pc EXCEPT ![p] = "agent"]
    BY DEF Attempt, Goto
  <1>2. /\ loc[p] \in Run /\ GoodRun(loc[p]) /\ backend[p] \in Backends
        /\ Stage(p) \in AgentStages
    BY <1>1, ConstantsAssumption DEF Attempt, IInv, ProcOK, WorkDone, Idle
  <1> DEFINE next == [loc[p] EXCEPT !.attempts[Stage(p)] = @ + 1]
  <1>3. next \in Run /\ next.checkpoints = loc[p].checkpoints
    <2> DEFINE tried == [loc[p].attempts EXCEPT ![Stage(p)] = @ + 1]
    <2>1. tried \in [AgentStages -> Nat]
      BY <1>2 DEF Run
    <2>2. next = [loc[p] EXCEPT !.attempts = tried]
      BY <1>2 DEF Run
    <2> HIDE DEF tried, next
    <2> QED
      BY <1>2, <2>1, <2>2 DEF Run
  <1>4. GoodRun(next)
    BY <1>2, <1>3 DEF GoodRun
  <1>5. /\ run' = next /\ loc'[p] = next
        /\ loc' \in [Procs -> Run \cup {None}]
        /\ \A q \in Procs \ {p} : loc'[q] = loc[q]
    BY <1>4, SaveGood DEF Attempt
  <1>6. PICK session \in Backends \cup {None} : job' = [job EXCEPT ![p].session = session]
    BY <1>2 DEF Attempt, Run
  <1>7. DOMAIN job = Procs /\ JobOK(p)
    BY DEF IInv, MapsOK, ProcOK
  <1>8. /\ DOMAIN job' = Procs /\ \A q \in Procs \ {p} : job'[q] = job[q]
        /\ job'[p] = [job[p] EXCEPT !.session = session]
    BY <1>6, <1>7
  <1>9. /\ DOMAIN job'[p] = DOMAIN job[p] /\ job'[p].todo = job[p].todo
        /\ job'[p].ids = job[p].ids /\ job'[p].passed = job[p].passed
        /\ job'[p].repair = job[p].repair /\ job'[p].session = session
    BY <1>7, <1>8 DEF JobOK
  <1>10. FilesOK' /\ FilesGrow /\ MapsOK' /\ OthersKeep(p) /\ pc'[p] = "agent"
    BY <1>1, <1>5, <1>8, LocalFrame DEF Labels
  <1>11. JobOK(p)'
    BY <1>1, <1>6, <1>7, <1>9, <1>10 DEF JobOK
  <1>12. WorkDone(p)'
    BY <1>2, <1>3, <1>5, <1>10 DEF WorkDone, Stage
  <1>13. ProcOK(p)'
    BY <1>1, <1>2, <1>3, <1>4, <1>5, <1>11, <1>12
    DEF ProcOK, GoodRun, CheckpointBacked, files
  <1> QED
    BY <1>5, <1>10, <1>13 DEF GoodStep

\* A reply names its backend and session, and goes on, repairs, fails or cancels.
LEMMA ReplyGood ==
    ASSUME IInv, NEW p \in Procs, Reply(p)
    PROVE  GoodStep(p)
  <1>1. /\ pc[p] = "agent"
        /\ UNCHANGED <<files, missing, backend, launches>>
    BY DEF Reply
  <1>2. /\ loc[p] \in Run /\ GoodRun(loc[p]) /\ backend[p] \in Backends
        /\ Stage(p) \in AgentStages
    BY <1>1, ConstantsAssumption DEF IInv, ProcOK, WorkDone, Idle
  <1>3. PICK session \in Backends \cup {None} :
            Save(p, MetadataAfter(loc[p], backend[p], session))
    BY <1>2 DEF Reply
  <1> DEFINE next == MetadataAfter(loc[p], backend[p], session)
  <1>4. next \in Run /\ next.checkpoints = loc[p].checkpoints
    BY <1>2 DEF Run, MetadataAfter
  <1>5. GoodRun(next)
    BY <1>2, <1>4 DEF GoodRun
  <1>6. /\ run' = next /\ loc'[p] = next
        /\ loc' \in [Procs -> Run \cup {None}]
        /\ \A q \in Procs \ {p} : loc'[q] = loc[q]
    BY <1>3, <1>5, SaveGood
  <1>7. DOMAIN job = Procs /\ JobOK(p)
    BY DEF IInv, MapsOK, ProcOK
  <1>8. PICK label \in {"cancel", "fail", "retry", "accept"}, repair \in 0..MaxRepairs :
          /\ pc' = [pc EXCEPT ![p] = label]
          /\ job' = [job EXCEPT ![p].session = None, ![p].repair = repair]
    <2>1. PICK kind \in {"valid", "invalid", "broken", "cancelled"} :
            /\ pc' = [pc EXCEPT ![p] = AfterReply(kind, job[p].repair)]
            /\ job' = [job EXCEPT ![p].session = None,
                        ![p].repair = IF AfterReply(kind, job[p].repair) = "retry"
                                      THEN @ + 1 ELSE 0]
      BY DEF Reply, Goto
    <2>2. /\ AfterReply(kind, job[p].repair) \in {"cancel", "fail", "retry", "accept"}
          /\ AfterReply(kind, job[p].repair) = "retry" => job[p].repair < MaxRepairs
      BY DEF AfterReply
    <2>3. (IF AfterReply(kind, job[p].repair) = "retry" THEN job[p].repair + 1 ELSE 0)
              \in 0..MaxRepairs
      BY <2>2, <1>7, ConstantsAssumption DEF JobOK
    <2>4. job' = [job EXCEPT ![p].session = None,
                   ![p].repair = IF AfterReply(kind, job[p].repair) = "retry"
                                 THEN job[p].repair + 1 ELSE 0]
      BY <2>1, <1>7 DEF JobOK
    <2> QED
      BY <2>1, <2>2, <2>3, <2>4
  <1>9. /\ DOMAIN job' = Procs /\ \A q \in Procs \ {p} : job'[q] = job[q]
        /\ job'[p] = [job[p] EXCEPT !.session = None, !.repair = repair]
    BY <1>7, <1>8
  <1>10. /\ DOMAIN job'[p] = DOMAIN job[p] /\ job'[p].todo = job[p].todo
         /\ job'[p].ids = job[p].ids /\ job'[p].passed = job[p].passed
         /\ job'[p].repair = repair /\ job'[p].session = None
    BY <1>7, <1>9 DEF JobOK
  <1>11. FilesOK' /\ FilesGrow /\ MapsOK' /\ OthersKeep(p) /\ pc'[p] = label
    <2>1. label \in Labels
      BY <1>8 DEF Labels
    <2>2. UNCHANGED <<files, missing, backend, launches>>
      BY <1>1
    <2>3. pc' = [pc EXCEPT ![p] = label]
      BY <1>8
    <2>4. DOMAIN job' = Procs /\ \A q \in Procs \ {p} : job'[q] = job[q]
      BY <1>9
    <2> HIDE DEF next
    <2> QED
      BY <1>6, <2>1, <2>2, <2>3, <2>4, LocalFrame
  <1>12. JobOK(p)'
    BY <1>1, <1>7, <1>8, <1>10, <1>11 DEF JobOK
  <1>13. WorkDone(p)'
    BY <1>2, <1>4, <1>6, <1>8, <1>11 DEF WorkDone, Stage
  <1>14. ProcOK(p)'
    BY <1>1, <1>2, <1>4, <1>5, <1>6, <1>12, <1>13
    DEF ProcOK, GoodRun, CheckpointBacked, files
  <1> QED
    BY <1>6, <1>11, <1>14 DEF GoodStep

\* The checkpoint of a stage is written when the stage's files are.
LEMMA WithCheckpointGood ==
    ASSUME IInv, NEW p \in Procs, WriteCheckpoint(p)
    PROVE  GoodRun(WithCheckpoint(loc[p], job[p]))
  <1>1. pc[p] \in {"checkpoint", "collecting", "analyzing"}
    BY DEF WriteCheckpoint
  <1>2. loc[p] \in Run /\ GoodRun(loc[p])
    BY <1>1, ConstantsAssumption DEF IInv, ProcOK, Idle
  <1>3. JobOK(p) /\ WorkDone(p)
    BY DEF IInv, ProcOK
  <1> DEFINE cks == loc[p].checkpoints
             stage == NextStage(cks)
             ck == [stage  |-> stage,
                    claims |-> IF stage = "analyze" THEN job[p].ids ELSE <<>>,
                    passed |-> stage = "verify" /\ job[p].passed]
             next == WithCheckpoint(loc[p], job[p])
  <1>4. cks \in Seq(Checkpoint)
    BY <1>2 DEF Run
  <1>5. stage \in Stages
    BY <1>1, <1>3 DEF WorkDone, Stage, Stages, AgentStages
  <1>6. ck \in Checkpoint
    BY <1>3, <1>5 DEF Checkpoint, JobOK
  <1>7. next = [loc[p] EXCEPT !.checkpoints = Append(cks, ck)]
    BY <1>2 DEF WithCheckpoint, Run
  <1>8. Append(cks, ck) \in Seq(Checkpoint)
    BY <1>4, <1>6
  <1>9. next \in Run /\ next.checkpoints = Append(cks, ck)
    <2> HIDE DEF ck, cks, next
    <2> QED
      BY <1>2, <1>7, <1>8 DEF Run
  <1>10. ASSUME NEW i \in DOMAIN Append(cks, ck)
         PROVE  CheckpointBacked(Append(cks, ck), i)
    <2>1. CASE i \in DOMAIN cks
      <3>1. Append(cks, ck)[i] = cks[i]
        BY <1>4, <2>1
      <3>2. CheckpointBacked(cks, i)
        BY <1>2, <2>1 DEF GoodRun
      <3> QED
        BY <3>1, <3>2 DEF CheckpointBacked
    <2>2. CASE i \notin DOMAIN cks
      <3>1. i = Len(cks) + 1
        BY <1>4, <1>6, <2>2
      <3>2. Append(cks, ck)[i] = ck
        BY <1>4, <1>6, <3>1
      <3>3. /\ stage = "plan" => planned
            /\ stage = "analyze" =>
                  \A k \in DOMAIN job[p].ids : job[p].ids[k] \in DOMAIN claims
            /\ stage = "verify" => verification # None
            /\ stage = "synthesize" => report /\ OutputsSaved
        BY <1>1, <1>3 DEF WorkDone, Stage
      <3> QED
        BY <3>2, <3>3 DEF CheckpointBacked, OutputsSaved
    <2> QED
      BY <2>1, <2>2
  <1> QED
    BY <1>9, <1>10 DEF GoodRun

\* A checkpoint is written when the files of its stage are (_checkpoint).
LEMMA WriteCheckpointGood ==
    ASSUME IInv, NEW p \in Procs, WriteCheckpoint(p)
    PROVE  GoodStep(p)
  <1> DEFINE next == WithCheckpoint(loc[p], job[p])
  <1>1. /\ pc[p] \in {"checkpoint", "collecting", "analyzing"}
        /\ Save(p, next)
        /\ job' = [job EXCEPT ![p] = NoJob]
        /\ UNCHANGED <<files, missing, backend, launches>>
    BY DEF WriteCheckpoint
  <1>2. PICK label \in {"fail", "loop"} : pc' = [pc EXCEPT ![p] = label]
    BY DEF WriteCheckpoint, Goto
  <1>3. GoodRun(next)
    BY WithCheckpointGood
  <1>4. /\ run' = next /\ loc'[p] = next
        /\ loc' \in [Procs -> Run \cup {None}]
        /\ \A q \in Procs \ {p} : loc'[q] = loc[q]
    BY <1>1, <1>3, SaveGood
  <1>5. FilesOK' /\ FilesGrow /\ MapsOK' /\ OthersKeep(p) /\ pc'[p] = label
    <2>1. label \in Labels
      BY <1>2 DEF Labels
    <2>2. DOMAIN job' = Procs /\ \A q \in Procs \ {p} : job'[q] = job[q]
      BY <1>1 DEF IInv, MapsOK
    <2>3. UNCHANGED <<files, missing, backend, launches>>
      BY <1>1
    <2> HIDE DEF next
    <2> QED
      BY <1>2, <1>4, <2>1, <2>2, <2>3, LocalFrame
  <1>6. job'[p] = NoJob
    BY <1>1 DEF IInv, MapsOK
  <1>7. JobOK(p)'
    BY <1>2, <1>5, <1>6, ConstantsAssumption DEF JobOK, NoJob
  <1>8. backend[p] \in Backends
    BY <1>1 DEF IInv, ProcOK, Idle
  <1>9. ProcOK(p)'
    BY <1>1, <1>2, <1>3, <1>4, <1>5, <1>7, <1>8, QuietSettles DEF GoodRun
  <1> QED
    BY <1>4, <1>5, <1>9 DEF GoodStep

-----------------------------------------------------------------------------
(* Steps that write a file.                                                *)

\* What these steps leave alone of the processes.
LEMMA FileFrame ==
    ASSUME IInv, NEW p \in Procs, UNCHANGED <<run, loc, backend, launches>>,
           NEW label \in Labels, pc' = [pc EXCEPT ![p] = label],
           DOMAIN job' = Procs, \A q \in Procs \ {p} : job'[q] = job[q]
    PROVE  MapsOK' /\ OthersKeep(p) /\ pc'[p] = label
  BY DEF IInv, MapsOK, OthersKeep

\* The files a step of p adds leave the run in its hands backed.
LEMMA FileProc ==
    ASSUME IInv, NEW p \in Procs, pc[p] \notin Idle, FilesGrow,
           loc' = loc, backend' = backend, JobOK(p)', WorkDone(p)'
    PROVE  ProcOK(p)'
  <1>1. loc[p] \in Run /\ GoodRun(loc[p]) /\ backend[p] \in Backends
    BY ConstantsAssumption DEF IInv, ProcOK
  <1>2. GoodRun(loc[p])'
    <2>1. \A r : GoodRun(r) => GoodRun(r)'
      BY BackedStays
    <2> QED
      BY <1>1, <2>1 DEF GoodRun
  <1> QED
    BY <1>1, <1>2 DEF ProcOK

\* One more evidence or calculation file.
LEMMA AddArtifactGood ==
    ASSUME IInv, NEW p \in Procs, AddArtifact(p)
    PROVE  GoodStep(p)
  <1>1. /\ pc[p] = "collecting" /\ job[p].todo # <<>>
        /\ pc' = pc /\ UNCHANGED <<run, loc, backend, launches>>
        /\ UNCHANGED <<planned, claims, scenarios, verification, outputs, report,
                       limitation, missing>>
        /\ artifacts' = Append(artifacts, Head(job[p].todo))
        /\ job' = [job EXCEPT ![p].todo = Tail(job[p].todo)]
    BY DEF AddArtifact
  <1>2. DOMAIN job = Procs /\ JobOK(p) /\ WorkDone(p) /\ pc \in [Procs -> Labels]
    BY DEF IInv, MapsOK, ProcOK
  <1>3. /\ job[p].todo \in Seq(Artifact)
        /\ Head(job[p].todo) \in Artifact /\ Tail(job[p].todo) \in Seq(Artifact)
    BY <1>1, <1>2 DEF JobOK
  <1>4. /\ DOMAIN job' = Procs /\ \A q \in Procs \ {p} : job'[q] = job[q]
        /\ DOMAIN job'[p] = DOMAIN job[p] /\ job'[p].todo = Tail(job[p].todo)
        /\ job'[p].ids = job[p].ids /\ job'[p].passed = job[p].passed
        /\ job'[p].repair = job[p].repair /\ job'[p].session = job[p].session
    BY <1>1, <1>2 DEF JobOK
  <1>5. FilesOK' /\ FilesGrow
    BY <1>1, <1>3 DEF IInv, FilesOK, FilesGrow
  <1>6. MapsOK' /\ OthersKeep(p)
    BY <1>1, <1>4 DEF IInv, MapsOK, OthersKeep
  <1>7. JobOK(p)'
    BY <1>1, <1>2, <1>3, <1>4 DEF JobOK
  <1>8. WorkDone(p)'
    BY <1>1, <1>2 DEF WorkDone, Stage
  <1>9. ProcOK(p)'
    BY <1>1, <1>5, <1>7, <1>8, FileProc DEF Idle
  <1> QED
    BY <1>1, <1>5, <1>6, <1>9 DEF GoodStep

\* One more claim file, whose identity the analysis keeps for its checkpoint.
LEMMA AddClaimGood ==
    ASSUME IInv, NEW p \in Procs, AddClaim(p)
    PROVE  GoodStep(p)
  <1> DEFINE draft == Head(job[p].todo)
             claim == [materiality |-> draft.materiality, cites |-> draft.cites,
                       status |-> "proposed"]
             ids == Append(job[p].ids, Len(claims'))
  <1>1. /\ pc[p] = "analyzing" /\ job[p].todo # <<>>
        /\ pc' = pc /\ UNCHANGED <<run, loc, backend, launches>>
        /\ UNCHANGED <<planned, artifacts, scenarios, verification, outputs, report,
                       limitation, missing>>
        /\ claims' = Append(claims, claim)
        /\ job' = [job EXCEPT ![p].todo = Tail(@), ![p].ids = Append(@, Len(claims'))]
    BY DEF AddClaim
  <1>2. DOMAIN job = Procs /\ JobOK(p) /\ WorkDone(p) /\ claims \in Seq(ClaimRecord)
    BY DEF IInv, MapsOK, ProcOK, FilesOK
  <1>3. /\ job[p].todo \in Seq(Draft) /\ draft \in Draft
        /\ Tail(job[p].todo) \in Seq(Draft) /\ job[p].ids \in Seq(Nat)
    BY <1>1, <1>2 DEF JobOK
  <1>4. /\ DOMAIN job' = Procs /\ \A q \in Procs \ {p} : job'[q] = job[q]
        /\ DOMAIN job'[p] = DOMAIN job[p] /\ job'[p].todo = Tail(job[p].todo)
        /\ job'[p].ids = ids /\ job'[p].passed = job[p].passed
        /\ job'[p].repair = job[p].repair /\ job'[p].session = job[p].session
    BY <1>1, <1>2 DEF JobOK
  <1>5. claim \in ClaimRecord
    BY <1>3 DEF ClaimRecord, Draft
  <1>6. /\ claims' \in Seq(ClaimRecord) /\ Len(claims') \in Nat
        /\ DOMAIN claims \subseteq DOMAIN claims' /\ Len(claims') \in DOMAIN claims'
    <2> HIDE DEF claim
    <2> QED
      BY <1>1, <1>2, <1>5
  <1>7. FilesOK' /\ FilesGrow
    BY <1>1, <1>6 DEF IInv, FilesOK, FilesGrow
  <1>8. MapsOK' /\ OthersKeep(p)
    BY <1>1, <1>4 DEF IInv, MapsOK, OthersKeep
  <1>9. JobOK(p)'
    BY <1>1, <1>2, <1>3, <1>4, <1>6 DEF JobOK
  <1>10. \A k \in DOMAIN ids : ids[k] \in DOMAIN claims'
    BY <1>1, <1>2, <1>3, <1>6, SMTT(30) DEF WorkDone
  <1>11. WorkDone(p)'
    BY <1>1, <1>2, <1>4, <1>10 DEF WorkDone, Stage
  <1>12. ProcOK(p)'
    BY <1>1, <1>7, <1>9, <1>11, FileProc DEF Idle
  <1> QED
    BY <1>1, <1>7, <1>8, <1>12 DEF GoodStep

\* One more scenario file.
LEMMA AddScenarioGood ==
    ASSUME IInv, NEW p \in Procs, AddScenario(p)
    PROVE  GoodStep(p)
  <1>1. /\ pc[p] = "analyzing" /\ job[p].todo # <<>>
        /\ pc' = pc /\ UNCHANGED <<run, loc, backend, launches>>
        /\ UNCHANGED <<planned, artifacts, claims, verification, outputs, report,
                       limitation, missing>>
        /\ scenarios' = scenarios + 1
        /\ job' = [job EXCEPT ![p].todo = Tail(job[p].todo)]
    BY DEF AddScenario
  <1>2. DOMAIN job = Procs /\ JobOK(p) /\ WorkDone(p)
    BY DEF IInv, MapsOK, ProcOK
  <1>3. job[p].todo \in Seq(Draft) /\ Tail(job[p].todo) \in Seq(Draft)
    BY <1>1, <1>2 DEF JobOK
  <1>4. /\ DOMAIN job' = Procs /\ \A q \in Procs \ {p} : job'[q] = job[q]
        /\ DOMAIN job'[p] = DOMAIN job[p] /\ job'[p].todo = Tail(job[p].todo)
        /\ job'[p].ids = job[p].ids /\ job'[p].passed = job[p].passed
        /\ job'[p].repair = job[p].repair /\ job'[p].session = job[p].session
    BY <1>1, <1>2 DEF JobOK
  <1>5. FilesOK' /\ FilesGrow
    BY <1>1 DEF IInv, FilesOK, FilesGrow
  <1>6. MapsOK' /\ OthersKeep(p)
    BY <1>1, <1>4 DEF IInv, MapsOK, OthersKeep
  <1>7. JobOK(p)'
    BY <1>1, <1>2, <1>3, <1>4 DEF JobOK
  <1>8. WorkDone(p)'
    BY <1>1, <1>2, <1>4 DEF WorkDone, Stage
  <1>9. ProcOK(p)'
    BY <1>1, <1>5, <1>7, <1>8, FileProc DEF Idle
  <1> QED
    BY <1>1, <1>5, <1>6, <1>9 DEF GoodStep

\* One claim is marked with the verdict.
LEMMA MarkClaimGood ==
    ASSUME IInv, NEW p \in Procs, MarkClaim(p)
    PROVE  GoodStep(p)
  <1> DEFINE status == IF job[p].passed THEN "verified" ELSE "rejected"
             c == Head(job[p].todo)
  <1>1. /\ pc[p] = "judging" /\ job[p].todo # <<>>
        /\ pc' = pc /\ UNCHANGED <<run, loc, backend, launches>>
        /\ UNCHANGED <<planned, artifacts, scenarios, verification, outputs, report,
                       limitation, missing>>
        /\ claims' = [claims EXCEPT ![c].status = status]
        /\ job' = [job EXCEPT ![p].todo = Tail(job[p].todo)]
    BY DEF MarkClaim
  <1>2. DOMAIN job = Procs /\ JobOK(p) /\ WorkDone(p) /\ claims \in Seq(ClaimRecord)
    BY DEF IInv, MapsOK, ProcOK, FilesOK
  <1>3. job[p].todo \in Seq(Nat) /\ Tail(job[p].todo) \in Seq(Nat)
    BY <1>1, <1>2 DEF JobOK
  <1>4. /\ DOMAIN job' = Procs /\ \A q \in Procs \ {p} : job'[q] = job[q]
        /\ DOMAIN job'[p] = DOMAIN job[p] /\ job'[p].todo = Tail(job[p].todo)
        /\ job'[p].ids = job[p].ids /\ job'[p].passed = job[p].passed
        /\ job'[p].repair = job[p].repair /\ job'[p].session = job[p].session
    BY <1>1, <1>2 DEF JobOK
  <1>5. claims' \in Seq(ClaimRecord) /\ DOMAIN claims' = DOMAIN claims
    <2>1. CASE c \in DOMAIN claims
      <3>1. [claims[c] EXCEPT !.status = status] \in ClaimRecord
        <4>1. status \in {"verified", "rejected"} /\ claims[c] \in ClaimRecord
          BY <1>2, <2>1
        <4> HIDE DEF c, status
        <4> QED
          BY <4>1 DEF ClaimRecord
      <3>2. claims' = [claims EXCEPT ![c] = [claims[c] EXCEPT !.status = status]]
        BY <1>1
      <3> HIDE DEF c, status
      <3> QED
        BY <1>2, <2>1, <3>1, <3>2
    <2>2. CASE c \notin DOMAIN claims
      <3>1. claims' = claims
        BY <1>1, <1>2, <2>2
      <3> QED
        BY <1>2, <3>1
    <2> QED
      BY <2>1, <2>2
  <1>6. FilesOK' /\ FilesGrow
    BY <1>1, <1>5 DEF IInv, FilesOK, FilesGrow
  <1>7. MapsOK' /\ OthersKeep(p)
    BY <1>1, <1>4 DEF IInv, MapsOK, OthersKeep
  <1>8. JobOK(p)'
    BY <1>1, <1>2, <1>3, <1>4 DEF JobOK
  <1>9. WorkDone(p)'
    BY <1>1, <1>2 DEF WorkDone, Stage
  <1>10. ProcOK(p)'
    BY <1>1, <1>6, <1>8, <1>9, FileProc DEF Idle
  <1> QED
    BY <1>1, <1>6, <1>7, <1>10 DEF GoodStep

\* What is not the head of a sequence is in its tail.
LEMMA TailKeeps ==
    ASSUME NEW S, NEW s \in Seq(S), s # <<>>, NEW j \in DOMAIN s, j # 1
    PROVE  j - 1 \in DOMAIN Tail(s) /\ Tail(s)[j - 1] = s[j]
  <1>1. /\ Len(s) \in Nat /\ DOMAIN s = 1..Len(s)
        /\ Len(Tail(s)) = Len(s) - 1 /\ Tail(s) \in Seq(S)
        /\ \A i \in 1..(Len(s) - 1) : Tail(s)[i] = s[i + 1]
    OBVIOUS
  <1>2. DOMAIN Tail(s) = 1..(Len(s) - 1)
    BY <1>1
  <1>3. j - 1 \in 1..(Len(s) - 1) /\ (j - 1) + 1 = j
    BY <1>1
  <1> QED
    BY <1>1, <1>2, <1>3

\* One more artifact of the finalization: it leaves the list of what is to be
\* saved only when it is.
LEMMA SaveOutputGood ==
    ASSUME IInv, NEW p \in Procs, SaveOutput(p)
    PROVE  GoodStep(p)
  <1> DEFINE kind == Head(job[p].todo)
  <1>1. /\ pc[p] = "saving" /\ job[p].todo # <<>>
        /\ pc' = pc /\ UNCHANGED <<run, loc, backend, launches>>
        /\ UNCHANGED <<planned, artifacts, claims, scenarios, verification, report,
                       limitation, missing>>
        /\ outputs' = [outputs EXCEPT ![kind] = outputs[kind] + 1]
        /\ job' = [job EXCEPT ![p].todo = Tail(job[p].todo)]
    BY DEF SaveOutput
  <1>2. DOMAIN job = Procs /\ JobOK(p) /\ WorkDone(p) /\ outputs \in [OutputKinds -> Nat]
    BY DEF IInv, MapsOK, ProcOK, FilesOK
  <1>3. /\ job[p].todo \in Seq(OutputKinds) /\ kind \in OutputKinds
        /\ Tail(job[p].todo) \in Seq(OutputKinds)
    BY <1>1, <1>2 DEF JobOK
  <1>4. /\ DOMAIN job' = Procs /\ \A q \in Procs \ {p} : job'[q] = job[q]
        /\ DOMAIN job'[p] = DOMAIN job[p] /\ job'[p].todo = Tail(job[p].todo)
        /\ job'[p].ids = job[p].ids /\ job'[p].passed = job[p].passed
        /\ job'[p].repair = job[p].repair /\ job'[p].session = job[p].session
    BY <1>1, <1>2 DEF JobOK
  <1>5. /\ outputs' \in [OutputKinds -> Nat] /\ outputs'[kind] > 0
        /\ \A k \in OutputKinds : outputs[k] > 0 => outputs'[k] > 0
    <2> HIDE DEF kind
    <2> QED
      BY <1>1, <1>2, <1>3
  <1>6. FilesOK' /\ FilesGrow
    BY <1>1, <1>5 DEF IInv, FilesOK, FilesGrow
  <1>7. MapsOK' /\ OthersKeep(p)
    BY <1>1, <1>4 DEF IInv, MapsOK, OthersKeep
  <1>8. JobOK(p)'
    BY <1>1, <1>2, <1>3, <1>4 DEF JobOK
  <1>9. ASSUME NEW k \in DOMAIN Outputs, ~(outputs'[Outputs[k]] > 0)
        PROVE  \E j \in DOMAIN job'[p].todo : job'[p].todo[j] = Outputs[k]
    <2>1. Outputs[k] \in OutputKinds
      BY ConstantsAssumption
    <2>2. PICK j \in DOMAIN job[p].todo : job[p].todo[j] = Outputs[k]
      BY <1>1, <1>2, <1>5, <1>9, <2>1 DEF WorkDone
    <2>3. j # 1
      BY <1>3, <1>5, <1>9, <2>2
    <2>4. j - 1 \in DOMAIN Tail(job[p].todo) /\ Tail(job[p].todo)[j - 1] = job[p].todo[j]
      BY <1>1, <1>3, <2>2, <2>3, TailKeeps
    <2> QED
      BY <1>4, <2>2, <2>4
  <1>10. WorkDone(p)'
    BY <1>1, <1>2, <1>9 DEF WorkDone, Stage
  <1>11. ProcOK(p)'
    BY <1>1, <1>6, <1>8, <1>10, FileProc DEF Idle
  <1> QED
    BY <1>1, <1>6, <1>7, <1>11 DEF GoodStep

\* The one file whose writing lets a stage be recorded, or ends the call.
LEMMA SaveFileGood ==
    ASSUME IInv, NEW p \in Procs,
           SavePlan(p) \/ SaveVerification(p) \/ SaveReport(p) \/ SaveLimitation(p)
    PROVE  GoodStep(p)
  <1>1. DOMAIN job = Procs /\ JobOK(p) /\ WorkDone(p)
    BY DEF IInv, MapsOK, ProcOK
  <1>2. /\ UNCHANGED <<run, artifacts, claims, scenarios, outputs, missing, loc, backend,
                       job, launches>>
        /\ pc[p] \in {"accept", "judging", "saving", "limit"}
    BY DEF SavePlan, SaveVerification, SaveReport, SaveLimitation
  <1>3. job[p].todo = <<>>
    BY <1>1 DEF SavePlan, SaveVerification, SaveReport, SaveLimitation, JobOK
  <1>4. PICK label \in {"checkpoint", "returned"} :
          /\ pc' = [pc EXCEPT ![p] = label]
          /\ label = "returned" => pc[p] = "limit"
    BY DEF SavePlan, SaveVerification, SaveReport, SaveLimitation, Goto
  <1>5. FilesOK' /\ FilesGrow
    <2>1. [passed |-> job[p].passed, claims |-> job[p].ids] \in Verdict
      BY <1>1 DEF JobOK, Verdict
    <2>2. None \notin Verdict
      BY ConstantsAssumption
    <2> QED
      BY <2>1, <2>2 DEF SavePlan, SaveVerification, SaveReport, SaveLimitation, IInv,
         FilesOK, FilesGrow
  <1>6. MapsOK' /\ OthersKeep(p) /\ pc'[p] = label
    <2>1. label \in Labels
      BY <1>4 DEF Labels
    <2>2. UNCHANGED <<run, loc, backend, launches>> /\ pc' = [pc EXCEPT ![p] = label]
      BY <1>2, <1>4
    <2>3. DOMAIN job' = Procs /\ \A q \in Procs \ {p} : job'[q] = job[q]
      BY <1>1, <1>2
    <2> QED
      BY <2>1, <2>2, <2>3, FileFrame
  <1>7. JobOK(p)'
    BY <1>1, <1>2, <1>3, <1>4, <1>6 DEF JobOK
  <1>8. WorkDone(p)'
    <2>1. CASE SaveLimitation(p)
      BY <2>1, <1>6 DEF SaveLimitation, Goto, WorkDone, IInv, MapsOK
    <2>2. CASE SavePlan(p)
      BY <2>2, <1>4, <1>6 DEF SavePlan, WorkDone, Stage
    <2>3. CASE SaveVerification(p)
      <3>1. verification' # None
        BY <2>3, <1>1, ConstantsAssumption DEF SaveVerification, JobOK, Verdict
      <3> QED
        BY <2>3, <3>1, <1>1, <1>4, <1>6 DEF SaveVerification, WorkDone, Stage
    <2>4. CASE SaveReport(p)
      <3>1. OutputsSaved /\ Stage(p) = "synthesize"
        BY <2>4, <1>1, <1>3 DEF SaveReport, WorkDone, OutputsSaved
      <3> QED
        BY <2>4, <3>1, <1>4, <1>6 DEF SaveReport, WorkDone, Stage, OutputsSaved
    <2> QED
      BY <2>1, <2>2, <2>3, <2>4
  <1>9. ProcOK(p)'
    BY <1>2, <1>5, <1>7, <1>8, FileProc DEF Idle
  <1> QED
    BY <1>2, <1>5, <1>6, <1>9 DEF GoodStep

-----------------------------------------------------------------------------
(* The invariant and the theorems.                                         *)

\* Nothing is written at first.
LEMMA InitIInv == Init => IInv
  <1> SUFFICES ASSUME Init PROVE IInv
    OBVIOUS
  <1>1. FilesOK /\ run = None
    <2>1. missing \in BOOLEAN
      BY DEF Init
    <2>2. artifacts \in Seq(Artifact) /\ claims \in Seq(ClaimRecord)
      BY DEF Init
    <2>3. outputs \in [OutputKinds -> Nat] /\ scenarios \in Nat
      BY DEF Init
    <2> QED
      BY <2>1, <2>2, <2>3 DEF Init, FilesOK
  <1>2. MapsOK
    BY DEF Init, MapsOK, Labels
  <1>3. ASSUME NEW p \in Procs PROVE ProcOK(p)
    <2>1. pc[p] = "down" /\ loc[p] = None /\ job[p] = NoJob
      BY DEF Init
    <2>2. JobOK(p)
      BY <2>1, ConstantsAssumption DEF JobOK, NoJob
    <2> QED
      BY <2>1, <2>2 DEF ProcOK, WorkDone, Idle
  <1> QED
    BY <1>1, <1>2, <1>3 DEF IInv

\* Every action of a process is a good step.
LEMMA ActionGood ==
    ASSUME IInv, NEW p \in Procs, Start(p) \/ Load(p) \/ Step(p) \/ Crash(p)
    PROVE  GoodStep(p)
  <1>1. CASE Start(p) \/ Load(p)
    BY <1>1, LaunchGood
  <1>2. CASE Crash(p)
    BY <1>2, StopGood
  <1>3. CASE Step(p)
    BY <1>3, MoveGood, StateStepGood, StopGood, TodoGood, JudgeGood, RejectGood, AttemptGood,
       ReplyGood, WriteCheckpointGood, AddArtifactGood, AddClaimGood, AddScenarioGood,
       MarkClaimGood, SaveOutputGood, SaveFileGood
    DEF Step
  <1> QED
    BY <1>1, <1>2, <1>3

\* Every step keeps the invariant.
LEMMA NextIInv == IInv /\ [Next]_vars => IInv'
  <1> SUFFICES ASSUME IInv, [Next]_vars PROVE IInv'
    OBVIOUS
  <1>1. CASE Next
    BY <1>1, ActionGood, GoodStepKeeps DEF Next
  <1>2. CASE UNCHANGED vars
    <2>1. FilesOK' /\ MapsOK' /\ FilesGrow
      BY <1>2 DEF vars, files, IInv, FilesOK, MapsOK, FilesGrow
    <2>2. run' = None \/ GoodRun(run)'
      BY <1>2 DEF vars, files, IInv, GoodRun, CheckpointBacked
    <2>3. ASSUME NEW p \in Procs PROVE ProcOK(p)'
      BY <1>2 DEF vars, files, IInv, ProcOK, GoodRun, CheckpointBacked, JobOK, WorkDone,
         Stage, OutputsSaved
    <2> QED
      BY <2>1, <2>2, <2>3 DEF IInv
  <1> QED
    BY <1>1, <1>2

\* IInv holds in every reachable state.
THEOREM OrchestratorInvariant == Spec => []IInv
  BY InitIInv, NextIInv, PTL DEF Spec

\* Type correctness, for any number of processes and any constants.
THEOREM OrchestratorTypeOK == Spec => []TypeOK
  <1>1. IInv => TypeOK
    BY DEF IInv, FilesOK, MapsOK, ProcOK, GoodRun, TypeOK
  <1> QED
    BY <1>1, OrchestratorInvariant, PTL

\* However many processes start, resume and crash on a run, every checkpoint, on
\* disk or in a process's hands, is backed by the files of its stage
\* (research_orchestrator.py:202-300, where files are saved before _checkpoint).
THEOREM OrchestratorCheckpointsSaved == Spec => []CheckpointsSaved
  <1>1. IInv => CheckpointsSaved
    BY DEF IInv, ProcOK, GoodRun, CheckpointsSaved
  <1> QED
    BY <1>1, OrchestratorInvariant, PTL

-----------------------------------------------------------------------------
(***************************************************************************)
(* No claim is ever marked verified without deterministic support.         *)
(*                                                                         *)
(* A verdict is computed in one step and written claim by claim, with      *)
(* other processes collecting, analyzing and judging in between.  It stays *)
(* right because evidence and claims are immutable but for the status      *)
(* (Settled), so a claim that passed keeps passing; SupportInv says so of  *)
(* the claims a passing verdict has still to mark.                         *)
(***************************************************************************)

\* Every claim a passing verdict has still to mark exists and passes.
Supported(p) ==
    pc[p] = "judging" /\ job[p].passed =>
        \A k \in DOMAIN job[p].todo :
            /\ job[p].todo[k] \in DOMAIN claims
            /\ ClaimPasses(claims[job[p].todo[k]])

SupportInv ==
    /\ VerifiedSupported
    /\ \A p \in Procs : Supported(p)

\* Artifacts, and all of a claim but its status, are never changed.
Settled ==
    /\ DOMAIN artifacts \subseteq DOMAIN artifacts'
    /\ \A i \in DOMAIN artifacts : artifacts'[i] = artifacts[i]
    /\ DOMAIN claims \subseteq DOMAIN claims'
    /\ \A i \in DOMAIN claims :
          /\ claims'[i].cites = claims[i].cites
          /\ claims'[i].materiality = claims[i].materiality

\* A claim that passes keeps passing while artifacts are only added.
LEMMA PassesStays ==
    ASSUME Settled, NEW i \in DOMAIN claims, ClaimPasses(claims[i])
    PROVE  ClaimPasses(claims[i])'
  <1> DEFINE evidence == {j \in claims[i].cites \cap DOMAIN artifacts :
                              artifacts[j].kind = "evidence"}
             after == {j \in claims'[i].cites \cap DOMAIN artifacts' :
                              artifacts'[j].kind = "evidence"}
  <1>1. /\ claims'[i].cites = claims[i].cites
        /\ claims'[i].materiality = claims[i].materiality
        /\ claims[i].cites \subseteq DOMAIN artifacts
    BY DEF Settled, ClaimPasses
  <1>2. /\ claims'[i].cites \subseteq DOMAIN artifacts'
        /\ \A j \in claims[i].cites : artifacts'[j] = artifacts[j]
    BY <1>1 DEF Settled
  <1>3. after = evidence
    BY <1>1, <1>2
  <1>4. /\ \A j \in evidence : ~artifacts[j].late
        /\ claims[i].materiality = "high" /\ evidence # {}
               => \E j \in evidence : ~artifacts[j].discovery
        /\ claims[i].materiality # "low" => claims[i].cites # {}
    BY DEF ClaimPasses
  <1>5. \A j \in evidence : artifacts'[j] = artifacts[j]
    BY <1>2
  <1> HIDE DEF evidence, after
  <1>6. /\ \A j \in after : ~artifacts'[j].late
        /\ claims'[i].materiality = "high" /\ after # {}
               => \E j \in after : ~artifacts'[j].discovery
        /\ claims'[i].materiality # "low" => claims'[i].cites # {}
    BY <1>1, <1>3, <1>4, <1>5
  <1> QED
    BY <1>2, <1>6 DEF ClaimPasses, after

\* The promise about a process that does not step, or keeps its verdict, stays.
LEMMA SupportedStays ==
    ASSUME Settled, NEW q \in Procs, Supported(q),
           pc'[q] = pc[q], job'[q] = job[q]
    PROVE  Supported(q)'
  BY PassesStays DEF Supported, Settled

-----------------------------------------------------------------------------
(* The steps.                                                              *)

\* Only three actions write evidence, calculations or claims.
LEMMA OtherActions ==
    ASSUME NEW p \in Procs, Start(p) \/ Load(p) \/ Step(p) \/ Crash(p),
           ~AddArtifact(p), ~AddClaim(p), ~MarkClaim(p)
    PROVE  UNCHANGED <<artifacts, claims>>
  <1>1. CASE Start(p) \/ Load(p) \/ Crash(p)
    BY <1>1 DEF Start, Load, Crash, files
  <1>2. CASE AskUser(p) \/ Unsupported(p) \/ Proceed(p) \/ ResumeReturns(p) \/ Reopen(p)
             \/ Rejoin(p) \/ NeedsResearch(p) \/ EnterStage(p) \/ Complete(p)
             \/ Collect(p) \/ CollectFails(p) \/ Attempt(p) \/ Reply(p) \/ Cancel(p)
    BY <1>2 DEF AskUser, Unsupported, Proceed, ResumeReturns, Reopen, Rejoin, NeedsResearch,
       EnterStage, Complete, Collect, CollectFails, Attempt, Reply, Cancel, files
  <1>3. CASE RejectOutput(p) \/ SavePlan(p) \/ PlanConflict(p) \/ Analyze(p)
             \/ AddScenario(p) \/ Judge(p) \/ SaveVerification(p) \/ Finalize(p)
             \/ SaveOutput(p) \/ SaveReport(p) \/ ReportConflict(p) \/ WriteCheckpoint(p)
             \/ Fail(p) \/ SaveLimitation(p)
    BY <1>3 DEF RejectOutput, SavePlan, PlanConflict, Analyze, AddScenario, Judge,
       SaveVerification, Finalize, SaveOutput, SaveReport, ReportConflict, WriteCheckpoint,
       Fail, SaveLimitation, files
  <1> QED
    BY <1>1, <1>2, <1>3 DEF Step

\* Only a verdict brings a process to the marking of claims, and only the marking
\* keeps it there.
LEMMA JudgingComesFrom ==
    ASSUME IInv, NEW p \in Procs, Start(p) \/ Load(p) \/ Step(p) \/ Crash(p),
           ~Judge(p), ~MarkClaim(p)
    PROVE  pc'[p] # "judging"
  <1>0. pc \in [Procs -> Labels]
    BY DEF IInv, MapsOK
  <1>1. CASE Start(p) \/ Load(p) \/ Crash(p)
    BY <1>0, <1>1 DEF Start, Load, Crash, Goto
  <1>2. CASE AskUser(p) \/ Unsupported(p) \/ Proceed(p) \/ ResumeReturns(p) \/ Reopen(p)
             \/ Rejoin(p) \/ NeedsResearch(p) \/ EnterStage(p) \/ Complete(p)
             \/ Collect(p) \/ CollectFails(p) \/ Attempt(p) \/ Cancel(p) \/ AddArtifact(p)
    BY <1>0, <1>2 DEF AskUser, Unsupported, Proceed, ResumeReturns, Reopen, Rejoin,
       NeedsResearch, EnterStage, Complete, Collect, CollectFails, Attempt, Cancel,
       AddArtifact, Goto
  <1>3. CASE RejectOutput(p) \/ SavePlan(p) \/ PlanConflict(p) \/ Analyze(p)
             \/ AddScenario(p) \/ SaveVerification(p) \/ Finalize(p) \/ SaveOutput(p)
             \/ SaveReport(p) \/ ReportConflict(p) \/ WriteCheckpoint(p) \/ Fail(p)
             \/ SaveLimitation(p) \/ AddClaim(p)
    BY <1>0, <1>3 DEF RejectOutput, SavePlan, PlanConflict, Analyze, AddScenario,
       SaveVerification, Finalize, SaveOutput, SaveReport, ReportConflict, WriteCheckpoint,
       Fail, SaveLimitation, AddClaim, Goto
  <1>4. CASE Reply(p)
    <2>1. PICK kind \in {"valid", "invalid", "broken", "cancelled"} :
            pc' = [pc EXCEPT ![p] = AfterReply(kind, job[p].repair)]
      BY <1>4 DEF Reply, Goto
    <2>2. AfterReply(kind, job[p].repair) # "judging"
      BY DEF AfterReply
    <2> QED
      BY <1>0, <2>1, <2>2
  <1> QED
    BY <1>1, <1>2, <1>3, <1>4 DEF Step

\* No step of a process changes an artifact, or more of a claim than its status.
LEMMA ActionSettled ==
    ASSUME IInv, NEW p \in Procs, Start(p) \/ Load(p) \/ Step(p) \/ Crash(p)
    PROVE  Settled
  <1>1. artifacts \in Seq(Artifact) /\ claims \in Seq(ClaimRecord)
    BY DEF IInv, FilesOK
  <1>2. CASE AddArtifact(p)
    <2>1. artifacts' = Append(artifacts, Head(job[p].todo)) /\ claims' = claims
      BY <1>2 DEF AddArtifact
    <2> QED
      BY <1>1, <2>1 DEF Settled
  <1>3. CASE AddClaim(p)
    <2>1. artifacts' = artifacts /\ \E c : claims' = Append(claims, c)
      BY <1>3 DEF AddClaim
    <2> QED
      BY <1>1, <2>1 DEF Settled
  <1>4. CASE MarkClaim(p)
    <2>1. PICK c, status : claims' = [claims EXCEPT ![c].status = status]
      BY <1>4 DEF MarkClaim
    <2>2. artifacts' = artifacts /\ DOMAIN claims' = DOMAIN claims
      BY <1>4, <2>1 DEF MarkClaim
    <2>3. ASSUME NEW i \in DOMAIN claims
          PROVE  /\ claims'[i].cites = claims[i].cites
                 /\ claims'[i].materiality = claims[i].materiality
      BY <1>1, <2>1 DEF ClaimRecord
    <2> QED
      BY <2>2, <2>3 DEF Settled
  <1>5. CASE ~AddArtifact(p) /\ ~AddClaim(p) /\ ~MarkClaim(p)
    BY <1>5, OtherActions DEF Settled
  <1> QED
    BY <1>2, <1>3, <1>4, <1>5

\* A verdict that passes supports every claim it is about.
LEMMA JudgeSupported ==
    ASSUME IInv, NEW p \in Procs, Judge(p)
    PROVE  Supported(p)'
  <1> DEFINE cks == loc[p].checkpoints
             ids == LatestClaims(cks)
  <1>1. /\ pc[p] = "accept" /\ Stage(p) = "verify"
        /\ UNCHANGED <<artifacts, claims>>
        /\ DOMAIN job = Procs
    BY DEF Judge, files, IInv, MapsOK
  <1>2. loc[p] \in Run /\ GoodRun(loc[p]) /\ JobOK(p)
    BY <1>1, ConstantsAssumption DEF IInv, ProcOK, Idle
  <1>3. PICK passed \in BOOLEAN :
          /\ job' = [job EXCEPT ![p].todo = ids, ![p].ids = ids, ![p].passed = passed]
          /\ passed => DeterministicPass(ids)
    BY DEF Judge, DeterministicPass
  <1>4. job'[p].todo = ids /\ job'[p].passed = passed
    BY <1>1, <1>2, <1>3 DEF JobOK
  <1>5. cks \in Seq(Checkpoint) /\ cks # <<>> /\ Latest(cks).stage = "analyze"
    BY <1>1, <1>2, StageTyped DEF Stage, Run
  <1>6. \A k \in DOMAIN ids : ids[k] \in DOMAIN claims
    <2>1. Len(cks) \in StagesOf(cks, "analyze")
      BY <1>5 DEF Latest, StagesOf
    <2> DEFINE IsLast(i) == \A j \in StagesOf(cks, "analyze") : j <= i
               last == CHOOSE i \in StagesOf(cks, "analyze") : IsLast(i)
    <2>2. \A j \in StagesOf(cks, "analyze") : j \in 1..Len(cks)
      BY <1>5 DEF StagesOf
    <2>3. \E i \in StagesOf(cks, "analyze") : IsLast(i)
      BY <1>5, <2>1, <2>2
    <2>4. last \in StagesOf(cks, "analyze")
      BY <2>3
    <2>5. ids = cks[last].claims
      BY DEF LatestClaims
    <2> HIDE DEF last, ids, cks
    <2> QED
      BY <1>2, <2>4, <2>5 DEF StagesOf, GoodRun, CheckpointBacked, cks
  <1>7. ASSUME passed, NEW k \in DOMAIN ids PROVE ClaimPasses(claims[ids[k]])
    BY <1>3, <1>7 DEF DeterministicPass
  <1>8. \A c : ClaimPasses(c) => ClaimPasses(c)'
    BY <1>1 DEF ClaimPasses
  <1> HIDE DEF ids
  <1> QED
    BY <1>1, <1>4, <1>6, <1>7, <1>8 DEF Supported

\* Marking one claim leaves the rest of the verdict supported.
LEMMA MarkSupported ==
    ASSUME IInv, NEW p \in Procs, MarkClaim(p), Supported(p)
    PROVE  Supported(p)'
  <1> DEFINE todo == job[p].todo
  <1>1. /\ pc[p] = "judging" /\ todo # <<>> /\ pc' = pc
        /\ job' = [job EXCEPT ![p].todo = Tail(todo)]
        /\ DOMAIN job = Procs
    BY DEF MarkClaim, IInv, MapsOK
  <1>2. JobOK(p) /\ todo \in Seq(Nat)
    BY <1>1 DEF IInv, ProcOK, JobOK
  <1>3. job'[p].todo = Tail(todo) /\ job'[p].passed = job[p].passed
    BY <1>1, <1>2 DEF JobOK
  <1>4. Settled
    BY ActionSettled DEF Step
  <1>5. ASSUME job[p].passed, NEW k \in DOMAIN Tail(todo), NEW c, c = Tail(todo)[k]
        PROVE  c \in DOMAIN claims' /\ ClaimPasses(claims[c])'
    <2>1. k + 1 \in DOMAIN todo /\ Tail(todo)[k] = todo[k + 1]
      <3> HIDE DEF todo
      <3> QED
        BY <1>1, <1>2, <1>5
    <2>2. c \in DOMAIN claims /\ ClaimPasses(claims[c])
      BY <1>1, <1>5, <2>1, SMTT(30) DEF Supported
    <2> QED
      BY <1>4, <2>2, PassesStays DEF Settled
  <1>6. ASSUME job'[p].passed, NEW k \in DOMAIN job'[p].todo
        PROVE  /\ job'[p].todo[k] \in DOMAIN claims'
               /\ ClaimPasses(claims[job[p].todo[k]])'
    <2>1. PICK c : c = Tail(todo)[k]
      OBVIOUS
    <2>2. c \in DOMAIN claims' /\ ClaimPasses(claims[c])'
      BY <1>3, <1>5, <1>6, <2>1
    <2> QED
      BY <1>3, <2>1, <2>2 DEF ClaimPasses
  <1> QED
    BY <1>6 DEF Supported

\* A claim becomes verified only by the marking of a passing verdict.
LEMMA ActionVerified ==
    ASSUME IInv, SupportInv, NEW p \in Procs,
           Start(p) \/ Load(p) \/ Step(p) \/ Crash(p)
    PROVE  VerifiedSupported'
  <1>1. Settled
    BY ActionSettled
  <1>2. claims \in Seq(ClaimRecord) /\ JobOK(p) /\ Supported(p) /\ VerifiedSupported
    BY DEF IInv, FilesOK, ProcOK, SupportInv
  <1> SUFFICES ASSUME NEW i \in DOMAIN claims', claims'[i].status = "verified"
               PROVE  ClaimPasses(claims[i])'
    BY DEF VerifiedSupported
  <1>3. i \in DOMAIN claims
    <2>1. CASE AddClaim(p)
      <3>1. PICK c : claims' = Append(claims, c) /\ c.status = "proposed"
        BY <2>1 DEF AddClaim
      <3> QED
        BY <1>2, <3>1
    <2>2. CASE MarkClaim(p)
      BY <1>2, <2>2 DEF MarkClaim
    <2>3. CASE ~AddClaim(p) /\ ~MarkClaim(p)
      <3>1. claims' = claims
        BY <2>3, OtherActions DEF AddArtifact
      <3> QED
        BY <3>1
    <2> QED
      BY <2>1, <2>2, <2>3
  <1>4. ClaimPasses(claims[i])
    <2>1. CASE claims[i].status = "verified"
      BY <1>2, <1>3, <2>1 DEF VerifiedSupported
    <2>2. CASE claims[i].status # "verified"
      <3>1. MarkClaim(p)
        <4>1. ~AddClaim(p)
          BY <1>2, <1>3, <2>2 DEF AddClaim
        <4> QED
          BY <2>2, <4>1, OtherActions DEF AddArtifact
      <3>2. /\ pc[p] = "judging" /\ job[p].todo # <<>> /\ job[p].todo \in Seq(Nat)
            /\ claims' = [claims EXCEPT ![Head(job[p].todo)].status =
                             IF job[p].passed THEN "verified" ELSE "rejected"]
        BY <1>2, <3>1 DEF MarkClaim, JobOK
      <3>3. i = Head(job[p].todo) /\ job[p].passed
        BY <1>2, <1>3, <2>2, <3>2 DEF ClaimRecord
      <3>4. 1 \in DOMAIN job[p].todo /\ Head(job[p].todo) = job[p].todo[1]
        BY <3>2
      <3> QED
        BY <1>2, <3>2, <3>3, <3>4 DEF Supported
    <2> QED
      BY <2>1, <2>2
  <1> QED
    BY <1>1, <1>3, <1>4, PassesStays

\* Every step leaves verified claims supported.
LEMMA NextSupportInv == IInv /\ SupportInv /\ [Next]_vars => SupportInv'
  <1> SUFFICES ASSUME IInv, SupportInv, [Next]_vars PROVE SupportInv'
    OBVIOUS
  <1>1. CASE Next
    <2>1. PICK p \in Procs : Start(p) \/ Load(p) \/ Step(p) \/ Crash(p)
      BY <1>1 DEF Next
    <2>2. VerifiedSupported'
      BY <2>1, ActionVerified
    <2>3. Supported(p)'
      <3>1. CASE Judge(p)
        BY <3>1, JudgeSupported
      <3>2. CASE MarkClaim(p)
        BY <3>2, MarkSupported DEF SupportInv
      <3>3. CASE ~Judge(p) /\ ~MarkClaim(p)
        BY <2>1, <3>3, JudgingComesFrom DEF Supported
      <3> QED
        BY <3>1, <3>2, <3>3
    <2>4. ASSUME NEW q \in Procs \ {p} PROVE Supported(q)'
      <3>1. pc'[q] = pc[q] /\ job'[q] = job[q]
        BY <2>1, ActionGood DEF GoodStep, OthersKeep
      <3>2. Settled
        BY <2>1, ActionSettled
      <3> QED
        BY <3>1, <3>2, SupportedStays DEF SupportInv
    <2> QED
      BY <2>2, <2>3, <2>4 DEF SupportInv
  <1>2. CASE UNCHANGED vars
    BY <1>2 DEF vars, files, SupportInv, VerifiedSupported, Supported, ClaimPasses
  <1> QED
    BY <1>1, <1>2

\* No claim is ever marked verified without deterministic support by the files on
\* disk, whatever the agent says and however many processes run
\* (verification_service.py:43-70, "checks that an agent cannot waive").
THEOREM OrchestratorVerifiedSupported == Spec => []VerifiedSupported
  <1>1. Init => SupportInv
    BY DEF Init, SupportInv, VerifiedSupported, Supported
  <1>2. SupportInv => VerifiedSupported
    BY DEF SupportInv
  <1> QED
    BY <1>1, <1>2, NextSupportInv, OrchestratorInvariant, PTL DEF Spec

-----------------------------------------------------------------------------
(***************************************************************************)
(* Every copy of a run is a legal one.                                     *)
(*                                                                         *)
(* run.md is overwritten whole, so two processes may take back each        *)
(* other's progress; but each writes only what it made of a legal run.     *)
(* RunLegal says what a legal run is: its checkpoints form a chain, and    *)
(* its state fits the chain.  ProcLegal adds what each label promises of   *)
(* the run in the process's hands.  No process relies on another's copy,   *)
(* so ProcLegal is kept by every step of any process.                      *)
(***************************************************************************)

\* The stage that may be recorded after a checkpoint.
Follows(ck, stage) ==
    \/ ck.stage = "plan"    /\ stage = "collect"
    \/ ck.stage = "collect" /\ stage = "analyze"
    \/ ck.stage = "analyze" /\ stage = "verify"
    \/ ck.stage = "verify"  /\ stage = (IF ck.passed THEN "synthesize" ELSE "collect")

Chain(cks) ==
    /\ cks # <<>> => cks[1].stage = "plan"
    /\ \A i \in DOMAIN cks : i > 1 => Follows(cks[i - 1], cks[i].stage)

\* The state names the stage under way or the one just recorded.
Tracks(r) ==
    LET cks == r.checkpoints
    IN  \/ NextStage(cks) # "done" /\ r.state = StateForStage(NextStage(cks))
        \/ cks # <<>> /\ r.state = StateForStage(Latest(cks).stage)
        \/ r.state = "needs_research" /\ NextStage(cks) = "collect"

RunLegal(r) ==
    /\ Chain(r.checkpoints)
    /\ r.state = "created" => r.checkpoints = <<>> /\ r.attempts = FreshRun.attempts
    /\ r.state \in ActiveStates \ {"created"} => Tracks(r)
    /\ r.state = "completed" => NextStage(r.checkpoints) = "done"
    /\ NextStage(r.checkpoints) = "done" => r.state \in {"synthesizing", "completed"}

\* The labels at which a process is inside a stage.
Working == {"collecting", "agent", "retry", "accept", "analyzing", "judging", "saving",
            "checkpoint"}

\* What a process that returned with an interrupted run has explained.
Explained(p) ==
    loc[p].state \in InterruptedStates =>
        \/ limitation
        \/ loc[p].checkpoints = <<>> /\ loc[p].attempts = FreshRun.attempts

ProcLegal(p) ==
    /\ loc[p] # None => RunLegal(loc[p])
    /\ pc[p] = "created" => loc[p].state = "created"
    /\ pc[p] = "loop" => loc[p].state \in ActiveStates
    /\ pc[p] \in Working => InStage(p)
    /\ pc[p] \in {"fail", "cancel"} => loc[p].state \in ActiveStates /\ Stage(p) # "done"
    /\ pc[p] = "returned" => Explained(p)

StageInv ==
    /\ run # None => RunLegal(run)
    /\ \A p \in Procs : ProcLegal(p)

-----------------------------------------------------------------------------
(* What keeps a run legal.                                                 *)

\* The stage to be recorded next, case by case (_next_stage).
LEMMA StageFacts ==
    ASSUME NEW cks \in Seq(Checkpoint)
    PROVE  /\ NextStage(cks) \in Stages \cup {"done"}
           /\ cks = <<>> => NextStage(cks) = "plan"
           /\ cks # <<>> => Latest(cks) \in Checkpoint
           /\ cks # <<>> /\ NextStage(cks) # "done" => Follows(Latest(cks), NextStage(cks))
           /\ NextStage(cks) = "done" <=> cks # <<>> /\ Latest(cks).stage = "synthesize"
  <1>1. CASE cks = <<>>
    BY <1>1 DEF NextStage, Stages, AgentStages
  <1>2. CASE cks # <<>>
    <2>1. Latest(cks) \in Checkpoint
      BY <1>2 DEF Latest
    <2>2. Latest(cks).stage \in {"plan", "collect", "analyze", "verify", "synthesize"}
      BY <2>1 DEF Checkpoint, Stages, AgentStages
    <2> QED
      BY <1>2, <2>1, <2>2 DEF NextStage, Follows, Stages, AgentStages
  <1> QED
    BY <1>1, <1>2

\* The state of a stage is an active one, of no other stage.
LEMMA StateOfStage ==
    ASSUME NEW stage \in Stages
    PROVE  StateForStage(stage) \in ActiveStates \ {"created", "needs_research"}
  BY DEF StateForStage, Stages, AgentStages, ActiveStates

\* A legal run stays legal when it enters the stage that comes next, goes back to
\* research, is interrupted before its last stage or completes after it
\* (ResearchRun.transition and resume).
LEMMA LegalState ==
    ASSUME NEW r \in Run, RunLegal(r), NEW target,
           \/ NextStage(r.checkpoints) # "done" /\ target = StateForStage(NextStage(r.checkpoints))
           \/ NextStage(r.checkpoints) = "collect" /\ target = "needs_research"
           \/ NextStage(r.checkpoints) # "done" /\ target \in InterruptedStates
           \/ NextStage(r.checkpoints) = "done" /\ target = "completed"
    PROVE  RunLegal([r EXCEPT !.state = target])
  <1> DEFINE q == [r EXCEPT !.state = target]
             stage == NextStage(r.checkpoints)
  <1>1. q.state = target /\ q.checkpoints = r.checkpoints /\ q.attempts = r.attempts
    BY DEF Run
  <1>2. r.checkpoints \in Seq(Checkpoint)
    BY DEF Run
  <1>3. stage # "done" => StateForStage(stage) \in ActiveStates \ {"created", "needs_research"}
    BY <1>2, StageFacts, StateOfStage
  <1>4. Chain(q.checkpoints)
    BY <1>1 DEF RunLegal
  <1>5. target # "created"
    BY <1>3 DEF InterruptedStates
  <1>6. target \in ActiveStates => Tracks(q)
    BY <1>1 DEF Tracks, ActiveStates, InterruptedStates
  <1>7. (target = "completed" => stage = "done") /\ (stage = "done" => target = "completed")
    BY <1>3 DEF ActiveStates, InterruptedStates
  <1> HIDE DEF q, stage
  <1>8. RunLegal(q)
    BY <1>1, <1>4, <1>5, <1>6, <1>7 DEF RunLegal, stage
  <1> QED
    BY <1>8 DEF q

\* A run that has left its creation stays legal whatever its attempts, provider
\* and session become (_record_attempt, _record_agent_metadata).
LEMMA LegalData ==
    ASSUME NEW r \in Run, RunLegal(r), r.state # "created",
           NEW q \in Run, q.state = r.state, q.checkpoints = r.checkpoints
    PROVE  RunLegal(q)
  BY DEF RunLegal, Tracks

\* Recording the stage that comes next extends the chain.
LEMMA ChainExtends ==
    ASSUME NEW cks \in Seq(Checkpoint), Chain(cks), NEW ck \in Checkpoint,
           ck.stage = NextStage(cks), NextStage(cks) # "done"
    PROVE  Chain(Append(cks, ck))
  <1> DEFINE after == Append(cks, ck)
  <1>1. /\ Len(after) = Len(cks) + 1 /\ Len(cks) \in Nat
        /\ DOMAIN after = 1..(Len(cks) + 1) /\ DOMAIN cks = 1..Len(cks)
        /\ \A i \in 1..Len(cks) : after[i] = cks[i]
        /\ after[Len(cks) + 1] = ck
    OBVIOUS
  <1>2. cks = <<>> => ck.stage = "plan"
    BY StageFacts
  <1>3. cks # <<>> => Follows(cks[Len(cks)], ck.stage)
    BY StageFacts DEF Latest
  <1>4. cks = <<>> <=> Len(cks) = 0
    OBVIOUS
  <1> HIDE DEF after
  <1>5. after[1].stage = "plan"
    BY <1>1, <1>2, <1>4 DEF Chain
  <1>6. ASSUME NEW i \in DOMAIN after, i > 1 PROVE Follows(after[i - 1], after[i].stage)
    <2>1. CASE i = Len(cks) + 1
      BY <1>1, <1>3, <1>4, <1>6, <2>1
    <2>2. CASE i # Len(cks) + 1
      BY <1>1, <1>6, <2>2 DEF Chain
    <2> QED
      BY <2>1, <2>2
  <1>7. Chain(after)
    BY <1>5, <1>6 DEF Chain
  <1> QED
    BY <1>7 DEF after

\* Recording the stage the run is in keeps it legal (_checkpoint).
LEMMA LegalCheckpoint ==
    ASSUME NEW r \in Run, RunLegal(r), NEW ck \in Checkpoint,
           ck.stage = NextStage(r.checkpoints), NextStage(r.checkpoints) # "done",
           r.state = StateForStage(NextStage(r.checkpoints)),
           NEW q \in Run, q.state = r.state, q.checkpoints = Append(r.checkpoints, ck)
    PROVE  RunLegal(q)
  <1> DEFINE cks == r.checkpoints
  <1>1. cks \in Seq(Checkpoint)
    BY DEF Run
  <1>2. Chain(q.checkpoints)
    BY <1>1, ChainExtends DEF RunLegal
  <1>3. NextStage(cks) \in Stages
    BY <1>1, StageFacts
  <1>4. q.checkpoints # <<>> /\ Latest(q.checkpoints) = ck /\ q.checkpoints \in Seq(Checkpoint)
    BY <1>1 DEF Latest
  <1>5. Tracks(q)
    BY <1>4 DEF Tracks
  <1>6. q.state \in ActiveStates \ {"created"}
    BY <1>3, StateOfStage
  <1>7. NextStage(q.checkpoints) = "done" => q.state = "synthesizing"
    BY <1>4, StageFacts DEF StateForStage
  <1>8. q.state # "completed"
    BY <1>6 DEF ActiveStates
  <1> QED
    BY <1>2, <1>5, <1>6, <1>7, <1>8 DEF RunLegal

-----------------------------------------------------------------------------
(* The steps of one process.                                               *)

\* A live process has a typed run in its hands.
LEMMA LiveRun ==
    ASSUME IInv, NEW p \in Procs, pc[p] \notin Idle
    PROVE  /\ loc[p] \in Run /\ loc[p] # None
           /\ loc[p].checkpoints \in Seq(Checkpoint)
           /\ Stage(p) \in Stages \cup {"done"}
  BY ConstantsAssumption, StageFacts DEF IInv, ProcOK, Run, Stage

\* Steps that keep the run in p's hands and move p to a label that promises no
\* more than the one it leaves.
LEMMA MoveLegal ==
    ASSUME IInv, NEW p \in Procs, ProcLegal(p),
           Proceed(p) \/ ResumeReturns(p) \/ Rejoin(p) \/ CollectFails(p) \/ PlanConflict(p)
    PROVE  ProcLegal(p)'
  <1>1. pc \in [Procs -> Labels] /\ loc' = loc
    BY DEF IInv, MapsOK, Proceed, ResumeReturns, Rejoin, CollectFails, PlanConflict
  <1>2. pc[p] \notin Idle
    BY DEF Idle, Proceed, ResumeReturns, Rejoin, CollectFails, PlanConflict
  <1>3. /\ loc[p] \in Run /\ loc[p] # None /\ RunLegal(loc[p])
        /\ Stage(p) \in Stages \cup {"done"}
    BY <1>2, LiveRun DEF ProcLegal
  <1>4. CASE Proceed(p) \/ Rejoin(p)
    <2>1. pc'[p] = "loop" /\ loc[p].state \in ActiveStates
      BY <1>1, <1>4 DEF Proceed, Rejoin, Goto, ProcLegal, ActiveStates
    <2> QED
      BY <1>1, <1>3, <2>1 DEF ProcLegal, Working
  <1>5. CASE ResumeReturns(p)
    <2>1. pc'[p] = "returned" /\ (loc[p].state = "completed" \/ Stage(p) = "done")
      BY <1>1, <1>5 DEF ResumeReturns, Goto
    <2>2. loc[p].state \notin InterruptedStates
      BY <1>3, <2>1 DEF RunLegal, Stage, InterruptedStates
    <2> QED
      BY <1>1, <1>3, <2>1, <2>2 DEF ProcLegal, Working, Explained
  <1>6. CASE CollectFails(p) \/ PlanConflict(p)
    <2>1. pc'[p] = "fail" /\ InStage(p)
      BY <1>1, <1>6 DEF CollectFails, PlanConflict, Goto, ProcLegal, Working
    <2>2. loc[p].state \in ActiveStates
      BY <1>3, <2>1, StateOfStage DEF InStage
    <2> QED
      BY <1>1, <1>3, <2>1, <2>2 DEF ProcLegal, Working, InStage, Stage
  <1> QED
    BY <1>4, <1>5, <1>6

\* The state a step writes is one the run may legally have: what RunLegal needs of
\* the target of every transition the orchestrator asks for.
LEMMA TargetLegal ==
    ASSUME IInv, NEW p \in Procs, ProcLegal(p), pc[p] \notin Idle, NEW target,
           loc' = [loc EXCEPT ![p] = [loc[p] EXCEPT !.state = target]],
           \/ Stage(p) # "done" /\ target = StateForStage(Stage(p))
           \/ Stage(p) = "collect" /\ target = "needs_research"
           \/ Stage(p) # "done" /\ target \in InterruptedStates
           \/ Stage(p) = "done" /\ target = "completed"
    PROVE  /\ RunLegal(loc'[p]) /\ loc'[p].state = target
           /\ loc'[p].checkpoints = loc[p].checkpoints
           /\ loc'[p].attempts = loc[p].attempts
  <1>1. loc[p] \in Run /\ loc[p] # None
    BY LiveRun
  <1>2. loc'[p] = [loc[p] EXCEPT !.state = target]
    BY DEF IInv, MapsOK
  <1>3. RunLegal(loc'[p])
    BY <1>1, <1>2, LegalState DEF ProcLegal, Stage
  <1> QED
    BY <1>1, <1>2, <1>3 DEF Run

\* Entering a stage, by transition or by reopening an interrupted run.
LEMMA EnterLegal ==
    ASSUME IInv, NEW p \in Procs, ProcLegal(p), NeedsResearch(p) \/ EnterStage(p) \/ Reopen(p)
    PROVE  ProcLegal(p)'
  <1>1. pc \in [Procs -> Labels] /\ pc[p] \notin Idle
    BY DEF IInv, MapsOK, NeedsResearch, EnterStage, Reopen, Idle
  <1>2. pc'[p] = "loop"
    BY <1>1 DEF NeedsResearch, EnterStage, Reopen, Goto
  <1>3. PICK target :
          /\ loc' = [loc EXCEPT ![p] = [loc[p] EXCEPT !.state = target]]
          /\ \/ Stage(p) # "done" /\ target = StateForStage(Stage(p))
             \/ Stage(p) = "collect" /\ target = "needs_research"
    BY DEF NeedsResearch, EnterStage, Reopen, Transition, Save
  <1>4. RunLegal(loc'[p]) /\ loc'[p].state = target
    BY <1>1, <1>3, TargetLegal
  <1>5. target \in ActiveStates
    BY <1>1, <1>3, LiveRun, StateOfStage DEF ActiveStates
  <1> QED
    BY <1>2, <1>4, <1>5 DEF ProcLegal, Working

\* An interrupted run, and a completed one, has left its stages as RunLegal asks.
LEMMA EndLegal ==
    ASSUME IInv, NEW p \in Procs, ProcLegal(p),
           AskUser(p) \/ Unsupported(p) \/ Complete(p) \/ Cancel(p) \/ Fail(p)
    PROVE  ProcLegal(p)'
  <1>1. pc \in [Procs -> Labels] /\ pc[p] \notin Idle
    BY DEF IInv, MapsOK, AskUser, Unsupported, Complete, Cancel, Fail, Idle
  <1>2. loc[p] # None /\ loc[p].checkpoints \in Seq(Checkpoint) /\ RunLegal(loc[p])
    BY <1>1, LiveRun DEF ProcLegal
  <1>3. PICK target \in InterruptedStates \cup {"completed"} :
          /\ loc' = [loc EXCEPT ![p] = [loc[p] EXCEPT !.state = target]]
          /\ IF target = "completed" THEN Complete(p) ELSE ~Complete(p)
    BY DEF AskUser, Unsupported, Complete, Cancel, Fail, Transition, Save, InterruptedStates
  <1>4. CASE Complete(p)
    <2>1. target = "completed" /\ Stage(p) = "done" /\ pc'[p] = "returned"
      BY <1>1, <1>3, <1>4 DEF Complete, Goto
    <2>2. RunLegal(loc'[p]) /\ loc'[p].state = "completed"
      BY <1>1, <1>3, <2>1, TargetLegal
    <2> QED
      BY <2>1, <2>2 DEF ProcLegal, Working, Explained, InterruptedStates
  <1>5. CASE Unsupported(p)
    <2>1. pc'[p] = "returned" /\ loc[p].state = "created"
      BY <1>1, <1>5 DEF Unsupported, Goto, ProcLegal
    <2>2. loc[p].checkpoints = <<>> /\ loc[p].attempts = FreshRun.attempts
      BY <1>2, <2>1 DEF RunLegal
    <2>3. Stage(p) = "plan"
      BY <2>2, <1>2, StageFacts DEF Stage
    <2>4. /\ RunLegal(loc'[p])
          /\ loc'[p].checkpoints = <<>> /\ loc'[p].attempts = FreshRun.attempts
      <3>1. target \in InterruptedStates
        BY <1>1, <1>3, <2>1 DEF Complete, ProcLegal
      <3> QED
        BY <1>1, <1>3, <2>2, <2>3, <3>1, TargetLegal
    <2> QED
      BY <2>1, <2>4 DEF ProcLegal, Working, Explained
  <1>6. CASE AskUser(p) \/ Cancel(p) \/ Fail(p)
    <2>1. pc'[p] = "limit" /\ ~Complete(p)
      BY <1>1, <1>6 DEF AskUser, Cancel, Fail, Complete, Goto
    <2>2. Stage(p) # "done"
      BY <1>2, <1>6, StageFacts DEF AskUser, Cancel, Fail, ProcLegal, RunLegal, Stage
    <2>3. RunLegal(loc'[p])
      BY <1>1, <1>3, <2>1, <2>2, TargetLegal
    <2> QED
      BY <2>1, <2>3 DEF ProcLegal, Working
  <1> QED
    BY <1>4, <1>5, <1>6

\* A call begins with a fresh run or the one on disk, and ends with none.
LEMMA CallLegal ==
    ASSUME IInv, NEW p \in Procs, ProcLegal(p), run # None => RunLegal(run),
           Start(p) \/ Load(p) \/ Crash(p) \/ ReportConflict(p)
    PROVE  ProcLegal(p)'
  <1>1. pc \in [Procs -> Labels] /\ loc \in [Procs -> Run \cup {None}]
    BY DEF IInv, MapsOK
  <1>2. CASE Start(p)
    <2>1. pc'[p] = "created" /\ loc'[p] = FreshRun
      BY <1>1, <1>2 DEF Start, Save, Goto
    <2>2. RunLegal(FreshRun)
      BY DEF RunLegal, FreshRun, Chain, NextStage
    <2> QED
      BY <2>1, <2>2 DEF ProcLegal, Working, FreshRun
  <1>3. CASE Load(p)
    <2>1. pc'[p] = "resuming" /\ loc'[p] = run /\ RunLegal(run)
      BY <1>1, <1>3 DEF Load, Goto
    <2> QED
      BY <2>1 DEF ProcLegal, Working
  <1>4. CASE Crash(p) \/ ReportConflict(p)
    <2>1. pc'[p] = "down" /\ loc'[p] = None
      BY <1>1, <1>4 DEF Crash, ReportConflict, Goto
    <2> QED
      BY <2>1 DEF ProcLegal, Working
  <1> QED
    BY <1>2, <1>3, <1>4

\* Inside a stage the run in p's hands does not change.
LEMMA WorkLegal ==
    ASSUME IInv, NEW p \in Procs, ProcLegal(p),
           \/ Collect(p) \/ AddArtifact(p) \/ SavePlan(p) \/ Analyze(p) \/ AddClaim(p)
           \/ AddScenario(p) \/ Judge(p) \/ MarkClaim(p) \/ SaveVerification(p)
           \/ Finalize(p) \/ SaveOutput(p) \/ SaveReport(p) \/ RejectOutput(p)
    PROVE  ProcLegal(p)'
  <1>1. pc \in [Procs -> Labels] /\ loc' = loc
    BY DEF IInv, MapsOK, Collect, AddArtifact, SavePlan, Analyze, AddClaim, AddScenario,
       Judge, MarkClaim, SaveVerification, Finalize, SaveOutput, SaveReport, RejectOutput
  <1>2. /\ pc[p] \notin Idle /\ InStage(p)
        /\ pc'[p] \in Working \cup {"fail"}
    BY <1>1 DEF Collect, AddArtifact, SavePlan, Analyze, AddClaim, AddScenario, Judge,
       MarkClaim, SaveVerification, Finalize, SaveOutput, SaveReport, RejectOutput, Goto,
       Idle, Working, ProcLegal
  <1>3. loc[p].state \in ActiveStates /\ Stage(p) # "done"
    BY <1>2, LiveRun, StateOfStage DEF InStage
  <1> QED
    BY <1>1, <1>2, <1>3, SMTT(30) DEF ProcLegal, Working, InStage, Stage

\* Counting an attempt, or noting provider and session, keeps state and chain.
LEMMA AgentLegal ==
    ASSUME IInv, NEW p \in Procs, ProcLegal(p), Attempt(p) \/ Reply(p)
    PROVE  ProcLegal(p)'
  <1>1. pc \in [Procs -> Labels] /\ loc \in [Procs -> Run \cup {None}]
    BY DEF IInv, MapsOK
  <1>2. pc[p] \notin Idle /\ InStage(p)
    BY DEF Attempt, Reply, Idle, Working, ProcLegal
  <1>3. /\ loc[p] \in Run /\ loc[p] # None /\ RunLegal(loc[p])
        /\ loc[p].state \in ActiveStates \ {"created"}
    BY <1>2, LiveRun, StateOfStage DEF InStage, ProcLegal
  <1>4. PICK q : /\ loc' = [loc EXCEPT ![p] = q]
                 /\ q.state = loc[p].state /\ q.checkpoints = loc[p].checkpoints
    <2>0. {"state", "checkpoints", "attempts", "provider", "session"} \subseteq DOMAIN loc[p]
      BY <1>3 DEF Run
    <2>1. CASE Attempt(p)
      <3> DEFINE q == [loc[p] EXCEPT !.attempts[Stage(p)] = @ + 1]
      <3>1. loc' = [loc EXCEPT ![p] = q]
        BY <2>1 DEF Attempt, Save
      <3>2. q.state = loc[p].state /\ q.checkpoints = loc[p].checkpoints
        BY <2>0
      <3> HIDE DEF q
      <3> QED
        BY <3>1, <3>2
    <2>2. CASE Reply(p)
      <3>1. PICK session : loc' = [loc EXCEPT ![p] = MetadataAfter(loc[p], backend[p], session)]
        BY <2>2 DEF Reply, Save
      <3> DEFINE q == MetadataAfter(loc[p], backend[p], session)
      <3>2. q.state = loc[p].state /\ q.checkpoints = loc[p].checkpoints
        BY <2>0 DEF MetadataAfter
      <3> HIDE DEF q
      <3> QED
        BY <3>1, <3>2 DEF q
    <2> QED
      BY <2>1, <2>2
  <1>5. pc'[p] \in {"agent", "cancel", "fail", "retry", "accept"}
    <2>1. CASE Attempt(p)
      BY <1>1, <2>1 DEF Attempt, Goto
    <2>2. CASE Reply(p)
      <3>1. PICK kind \in {"valid", "invalid", "broken", "cancelled"} :
              pc' = [pc EXCEPT ![p] = AfterReply(kind, job[p].repair)]
        BY <2>2 DEF Reply, Goto
      <3> QED
        BY <1>1, <3>1 DEF AfterReply
    <2> QED
      BY <2>1, <2>2
  <1>6. loc'[p] = q /\ q \in Run
    <2>1. GoodStep(p)
      BY ActionGood DEF Step
    <2> QED
      BY <1>1, <1>4, <1>5, <2>1 DEF GoodStep, ProcOK, Idle
  <1>7. RunLegal(q)
    BY <1>3, <1>4, <1>6, LegalData
  <1>8. /\ Stage(p)' = Stage(p) /\ InStage(p)'
        /\ loc'[p].state \in ActiveStates /\ Stage(p) # "done"
    BY <1>2, <1>3, <1>4, <1>6 DEF InStage, Stage
  <1> QED
    BY <1>5, <1>6, <1>7, <1>8 DEF ProcLegal, Working

\* A checkpoint records the stage the run is in; iterations that are used up lead
\* to a failure with research, not synthesis, still ahead.
LEMMA CheckpointLegal ==
    ASSUME IInv, NEW p \in Procs, ProcLegal(p), WriteCheckpoint(p)
    PROVE  ProcLegal(p)'
  <1> DEFINE ck == [stage  |-> Stage(p),
                    claims |-> IF Stage(p) = "analyze" THEN job[p].ids ELSE <<>>,
                    passed |-> Stage(p) = "verify" /\ job[p].passed]
             next == WithCheckpoint(loc[p], job[p])
  <1>1. /\ pc \in [Procs -> Labels] /\ loc \in [Procs -> Run \cup {None}]
        /\ JobOK(p)
    BY DEF IInv, MapsOK, ProcOK
  <1>2. pc[p] \notin Idle /\ InStage(p)
    BY DEF WriteCheckpoint, Idle, Working, ProcLegal
  <1>3. /\ loc[p] \in Run /\ RunLegal(loc[p]) /\ loc[p].checkpoints \in Seq(Checkpoint)
        /\ Stage(p) \in Stages
    BY <1>2, LiveRun DEF InStage, ProcLegal
  <1>4. next.state = loc[p].state /\ next.checkpoints = Append(loc[p].checkpoints, ck)
    BY <1>3 DEF WithCheckpoint, Stage, Run
  <1>5. ck \in Checkpoint /\ ck.stage = Stage(p)
    BY <1>1, <1>3 DEF Checkpoint, JobOK
  <1>6. next \in Run /\ loc'[p] = next
    BY <1>1, WithCheckpointGood DEF GoodRun, WriteCheckpoint, Save
  <1>7. RunLegal(next)
    <2> HIDE DEF next, ck
    <2> QED
      BY <1>2, <1>3, <1>4, <1>5, <1>6, LegalCheckpoint DEF InStage, Stage
  <1>8. next.state \in ActiveStates
    BY <1>2, <1>3, <1>4, StateOfStage DEF InStage
  <1>9. /\ pc'[p] \in {"loop", "fail"}
        /\ pc'[p] = "fail" => Exhausted(next.checkpoints)
    BY <1>1 DEF WriteCheckpoint, Goto
  <1>10. Exhausted(next.checkpoints) => Stage(p)' # "done"
    <2>1. next.checkpoints \in Seq(Checkpoint)
      BY <1>6 DEF Run
    <2> HIDE DEF next
    <2> QED
      BY <1>6, <2>1, StageFacts DEF Exhausted, Stage
  <1> HIDE DEF next
  <1> QED
    BY <1>6, <1>7, <1>8, <1>9, <1>10 DEF ProcLegal, Working

\* limitation.md explains the run that is returned.
LEMMA LimitationLegal ==
    ASSUME IInv, NEW p \in Procs, ProcLegal(p), SaveLimitation(p)
    PROVE  ProcLegal(p)'
  <1>1. pc'[p] = "returned" /\ loc' = loc /\ limitation'
    BY DEF SaveLimitation, Goto, IInv, MapsOK
  <1> QED
    BY <1>1 DEF ProcLegal, Working, Explained

\* Every step of a process leaves its copy of the run legal.
LEMMA ActionLegal ==
    ASSUME IInv, StageInv, NEW p \in Procs, Start(p) \/ Load(p) \/ Step(p) \/ Crash(p)
    PROVE  ProcLegal(p)'
  <1>1. ProcLegal(p) /\ (run # None => RunLegal(run))
    BY DEF StageInv
  <1>2. CASE Start(p) \/ Load(p) \/ Crash(p)
    BY <1>1, <1>2, CallLegal
  <1>3. CASE Step(p)
    BY <1>1, <1>3, MoveLegal, EnterLegal, EndLegal, CallLegal, WorkLegal, AgentLegal,
       CheckpointLegal, LimitationLegal
    DEF Step
  <1> QED
    BY <1>2, <1>3

\* Only the writing of limitation.md touches it, and nothing removes it.
LEMMA LimitationStays ==
    ASSUME NEW p \in Procs, Start(p) \/ Load(p) \/ Step(p) \/ Crash(p)
    PROVE  limitation => limitation'
  <1>1. CASE Start(p) \/ Load(p) \/ Crash(p)
    BY <1>1 DEF Start, Load, Crash, files
  <1>2. CASE AskUser(p) \/ Unsupported(p) \/ Proceed(p) \/ ResumeReturns(p) \/ Reopen(p)
             \/ Rejoin(p) \/ NeedsResearch(p) \/ EnterStage(p) \/ Complete(p)
             \/ Collect(p) \/ CollectFails(p) \/ Attempt(p) \/ Reply(p) \/ Cancel(p)
             \/ AddArtifact(p) \/ AddClaim(p) \/ MarkClaim(p)
    BY <1>2 DEF AskUser, Unsupported, Proceed, ResumeReturns, Reopen, Rejoin, NeedsResearch,
       EnterStage, Complete, Collect, CollectFails, Attempt, Reply, Cancel, AddArtifact,
       AddClaim, MarkClaim, files
  <1>3. CASE RejectOutput(p) \/ SavePlan(p) \/ PlanConflict(p) \/ Analyze(p)
             \/ AddScenario(p) \/ Judge(p) \/ SaveVerification(p) \/ Finalize(p)
             \/ SaveOutput(p) \/ SaveReport(p) \/ ReportConflict(p) \/ WriteCheckpoint(p)
             \/ Fail(p) \/ SaveLimitation(p)
    BY <1>3 DEF RejectOutput, SavePlan, PlanConflict, Analyze, AddScenario, Judge,
       SaveVerification, Finalize, SaveOutput, SaveReport, ReportConflict, WriteCheckpoint,
       Fail, SaveLimitation, files
  <1> QED
    BY <1>1, <1>2, <1>3 DEF Step

\* Every step leaves all copies of the run legal.
LEMMA NextStageInv == IInv /\ StageInv /\ [Next]_vars => StageInv'
  <1> SUFFICES ASSUME IInv, StageInv, [Next]_vars PROVE StageInv'
    OBVIOUS
  <1>1. CASE Next
    <2>1. PICK p \in Procs : Start(p) \/ Load(p) \/ Step(p) \/ Crash(p)
      BY <1>1 DEF Next
    <2>2. ProcLegal(p)' /\ GoodStep(p)
      BY <2>1, ActionLegal, ActionGood
    <2>3. run' # None => RunLegal(run')
      BY <2>2 DEF GoodStep, ProcLegal, StageInv
    <2>4. ASSUME NEW q \in Procs \ {p} PROVE ProcLegal(q)'
      <3>1. pc'[q] = pc[q] /\ loc'[q] = loc[q] /\ (limitation => limitation')
        BY <2>1, <2>2, LimitationStays DEF GoodStep, OthersKeep
      <3>2. ProcLegal(q)
        BY DEF StageInv
      <3> QED
        BY <3>1, <3>2 DEF ProcLegal, InStage, Stage, Explained
    <2> QED
      BY <2>2, <2>3, <2>4 DEF StageInv
  <1>2. CASE UNCHANGED vars
    BY <1>2 DEF vars, files, StageInv, ProcLegal, InStage, Stage, Explained
  <1> QED
    BY <1>1, <1>2

-----------------------------------------------------------------------------
(* The theorems.                                                           *)

\* Every copy of the run, on disk and in every process's hands, is a legal one.
THEOREM OrchestratorStageInv == Spec => [](IInv /\ StageInv)
  <1>1. Init => StageInv
    <2> SUFFICES ASSUME Init PROVE StageInv
      OBVIOUS
    <2>1. \A p \in Procs : pc[p] = "down" /\ loc[p] = None
      BY DEF Init
    <2> QED
      BY <2>1 DEF Init, StageInv, ProcLegal, Working
  <1> QED
    BY <1>1, NextStageInv, InitIInv, NextIInv, PTL DEF Spec

\* However many processes drive a run and crash, the state in run.md names the
\* stage its checkpoints say is under way, or the one just recorded (_continue and
\* _checkpoint, research_orchestrator.py).
THEOREM OrchestratorStateTracksStage == Spec => []StateTracksStage
  <1>1. StageInv => StateTracksStage
    BY DEF StageInv, RunLegal, Tracks, StateTracksStage
  <1> QED
    BY <1>1, OrchestratorStageInv, PTL

\* No process ever asks the aggregate for a transition it refuses: a loop head can
\* enter its stage or complete the run, and a failure can be recorded
\* (ResearchRun.transition raises InvalidStateTransitionError otherwise).
THEOREM OrchestratorLoopProceeds == Spec => []LoopProceeds
  <1>1. IInv /\ StageInv => LoopProceeds
    <2> SUFFICES ASSUME IInv, StageInv, NEW p \in Procs
                 PROVE  /\ pc[p] = "loop" =>
                            \/ InStage(p)
                            \/ /\ Stage(p) # "done"
                               /\ CanTransition(loc[p].state, StateForStage(Stage(p)))
                            \/ /\ Stage(p) = "collect"
                               /\ CanTransition(loc[p].state, "needs_research")
                            \/ /\ Stage(p) = "done"
                               /\ CanTransition(loc[p].state, "completed")
                        /\ pc[p] \in {"fail", "cancel"} => loc[p].state \in ActiveStates
      BY DEF LoopProceeds
    <2>1. ProcLegal(p)
      BY DEF StageInv
    <2>2. ASSUME pc[p] = "loop", ~InStage(p)
          PROVE  \/ /\ Stage(p) # "done"
                    /\ CanTransition(loc[p].state, StateForStage(Stage(p)))
                 \/ /\ Stage(p) = "collect"
                    /\ CanTransition(loc[p].state, "needs_research")
                 \/ /\ Stage(p) = "done"
                    /\ CanTransition(loc[p].state, "completed")
      <3> DEFINE cks == loc[p].checkpoints
      <3>1. /\ loc[p] \in Run /\ loc[p] # None /\ cks \in Seq(Checkpoint)
            /\ RunLegal(loc[p]) /\ loc[p].state \in ActiveStates
        BY <2>1, <2>2, LiveRun DEF Idle, ProcLegal
      <3>2. CASE loc[p].state = "created"
        <4>1. Stage(p) = "plan"
          BY <3>1, <3>2, StageFacts DEF RunLegal, Stage
        <4> QED
          BY <3>2, <4>1 DEF CanTransition, NextStates, StateForStage
      <3>3. CASE loc[p].state = "needs_research" /\ Stage(p) = "collect"
        BY <3>3 DEF CanTransition, NextStates, StateForStage
      <3>4. CASE cks # <<>> /\ loc[p].state = StateForStage(Latest(cks).stage)
        <4>1. Latest(cks) \in Checkpoint
          BY <3>1, <3>4, StageFacts
        <4>2. /\ Latest(cks).stage \in {"plan", "collect", "analyze", "verify", "synthesize"}
              /\ Latest(cks).passed \in BOOLEAN
          BY <4>1 DEF Checkpoint, Stages, AgentStages
        <4>3. Stage(p) = NextStage(cks)
          BY DEF Stage
        <4> HIDE DEF cks
        <4> QED
          BY <3>4, <4>2, <4>3 DEF NextStage, CanTransition, NextStates, StateForStage
      <3>5. CASE Tracks(loc[p])
        BY <2>2, <3>3, <3>4, <3>5 DEF Tracks, InStage, Stage
      <3> QED
        BY <3>1, <3>2, <3>5 DEF RunLegal
    <2> QED
      BY <2>1, <2>2 DEF ProcLegal
  <1> QED
    BY <1>1, OrchestratorStageInv, PTL

\* A chain that ends in a synthesis went through a plan, a collection, an analysis
\* and a verification that passed.
LEMMA ChainEnds ==
    ASSUME NEW cks \in Seq(Checkpoint), Chain(cks), NextStage(cks) = "done"
    PROVE  /\ Len(cks) >= 5 /\ cks[1].stage = "plan"
           /\ cks[Len(cks)].stage = "synthesize"
           /\ cks[Len(cks) - 1].stage = "verify" /\ cks[Len(cks) - 1].passed
           /\ cks[Len(cks) - 2].stage = "analyze"
           /\ cks[Len(cks) - 3].stage = "collect"
  <1> DEFINE n == Len(cks)
  <1>1. n \in Nat \ {0} /\ DOMAIN cks = 1..n
    BY StageFacts
  <1>2. cks[n].stage = "synthesize" /\ cks[1].stage = "plan"
    BY StageFacts DEF Latest, Chain
  <1>3. \A i \in 2..n : Follows(cks[i - 1], cks[i].stage)
    BY <1>1 DEF Chain
  <1> HIDE DEF n
  <1>4. n - 1 \in 1..n /\ cks[n - 1].stage = "verify" /\ cks[n - 1].passed
    <2>1. n # 1
      BY <1>2
    <2>2. n \in 2..n
      BY <1>1, <2>1
    <2>3. Follows(cks[n - 1], "synthesize")
      BY <1>2, <1>3, <2>2
    <2> QED
      BY <1>1, <2>1, <2>3 DEF Follows
  <1>5. n - 2 \in 1..n /\ cks[n - 2].stage = "analyze"
    <2>1. n - 1 # 1
      BY <1>2, <1>4
    <2>2. n - 1 \in 2..n /\ (n - 1) - 1 = n - 2
      BY <1>1, <1>4, <2>1
    <2>3. Follows(cks[n - 2], "verify")
      BY <1>3, <1>4, <2>2
    <2> QED
      BY <1>1, <2>2, <2>3 DEF Follows
  <1>6. n - 3 \in 1..n /\ cks[n - 3].stage = "collect"
    <2>1. n - 2 # 1
      BY <1>2, <1>5
    <2>2. n - 2 \in 2..n /\ (n - 2) - 1 = n - 3
      BY <1>1, <1>5, <2>1
    <2>3. Follows(cks[n - 3], "analyze")
      BY <1>3, <1>5, <2>2
    <2> QED
      BY <1>1, <2>2, <2>3 DEF Follows
  <1>7. n - 3 # 1
    BY <1>2, <1>6
  <1>8. n >= 5
    BY <1>1, <1>6, <1>7
  <1> QED
    BY <1>2, <1>4, <1>5, <1>6, <1>8 DEF n

\* A completed run has its plan, its report and every artifact of its finalization
\* on disk, and a passing verification before its synthesis, however many processes
\* drove it (docs/05-runtime-flows.md:65).
THEOREM OrchestratorCompletedSaved == Spec => []CompletedSaved
  <1>1. IInv /\ StageInv => CompletedSaved
    <2> SUFFICES ASSUME IInv, StageInv, run # None, run.state = "completed"
                 PROVE  CompletedSaved
      BY DEF CompletedSaved
    <2> DEFINE cks == run.checkpoints
    <2>1. GoodRun(run) /\ RunLegal(run)
      BY DEF IInv, StageInv
    <2>2. cks \in Seq(Checkpoint) /\ Chain(cks) /\ NextStage(cks) = "done"
      BY <2>1 DEF GoodRun, Run, RunLegal
    <2>3. /\ Len(cks) >= 5 /\ cks[1].stage = "plan"
          /\ cks[Len(cks)].stage = "synthesize"
          /\ cks[Len(cks) - 1].stage = "verify" /\ cks[Len(cks) - 1].passed
      BY <2>2, ChainEnds
    <2>4. 1 \in DOMAIN cks /\ Len(cks) \in DOMAIN cks
      BY <2>2, <2>3
    <2>5. CheckpointBacked(cks, 1) /\ CheckpointBacked(cks, Len(cks))
      BY <2>1, <2>4 DEF GoodRun
    <2> QED
      BY <2>3, <2>5 DEF CompletedSaved, CheckpointBacked
  <1> QED
    BY <1>1, OrchestratorStageInv, PTL

\* A call that returns a failed, cancelled or waiting run has explained it in
\* limitation.md, unless the run was refused before its first stage
\* (_fail_run and _save_limitation).
THEOREM OrchestratorEndingsExplained == Spec => []EndingsExplained
  <1>1. StageInv => EndingsExplained
    BY DEF StageInv, ProcLegal, Explained, EndingsExplained
  <1> QED
    BY <1>1, OrchestratorStageInv, PTL
=============================================================================

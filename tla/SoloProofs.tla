------------------------------ MODULE SoloProofs ------------------------------
(***************************************************************************)
(* TLAPS proofs of what holds while a run is driven by one process at a    *)
(* time: any number of processes may start, resume and crash, but none is  *)
(* launched while another is live (SoloSpec).  Then the live process's     *)
(* copy is the run on disk (InSync), so what it knows of its own stage it  *)
(* knows of run.md, and the whole history of the run is a single thread    *)
(* cut by crashes.  Each invariant below is InSync plus what the thread    *)
(* has done at each label.                                                 *)
(***************************************************************************)
EXTENDS OrchestratorProofs, OrchestratorRefinement, FiniteSetTheorems

\* At most one process is live.
OneAtATime ==
    \A p, q \in Procs : pc[p] \notin Idle /\ pc[q] \notin Idle => p = q

SoloSpec == Spec /\ []OneAtATime

\* A live process holds the run that is on disk.
InSync == \A p \in Procs : pc[p] \notin Idle => run = loc[p]

Base == IInv /\ StageInv /\ InSync

-----------------------------------------------------------------------------
(* Bounded research.                                                       *)

FailedVerdicts(cks) == {i \in StagesOf(cks, "verify") : ~cks[i].passed}

\* The labels from which no verification can follow before the call ends.
Ending == {"fail", "limit"}

ResearchInv ==
    run # None =>
        /\ launches >= 1
        /\ Cardinality(FailedVerdicts(run.checkpoints)) <= MaxIterations + launches - 1
        /\ \A p \in Procs : pc[p] \notin Idle \cup Ending =>
              Cardinality(FailedVerdicts(run.checkpoints)) <= MaxIterations + launches - 2

-----------------------------------------------------------------------------
(* Bounded repair.                                                         *)

\* The attempts that finished entries into stage s account for, when entries
\* of them are allowed besides the recorded ones.
Allowance(r, s, entries) == (MaxRepairs + 1) * (entries + Cardinality(StagesOf(r.checkpoints, s)))

\* The attempts of the entry p is in the middle of.
Tried(p, s) ==
    IF s # Stage(p) THEN 0
    ELSE CASE pc[p] = "agent" -> job[p].repair + 1
           [] pc[p] = "retry" -> job[p].repair
           [] pc[p] \in Working \ {"agent", "retry"} -> MaxRepairs + 1
           [] OTHER -> 0

AttemptsInv ==
    /\ \A p \in Procs : pc[p] \notin {"agent", "retry"} => job[p].repair = 0
    /\ run # None =>
        /\ launches >= 1
        /\ \A s \in AgentStages : run.attempts[s] <= Allowance(run, s, launches)
        /\ \A p \in Procs : pc[p] \notin Idle \cup {"fail", "cancel", "limit"} =>
              \A s \in AgentStages :
                 run.attempts[s] <= Allowance(run, s, launches - 1) + Tried(p, s)

-----------------------------------------------------------------------------
(* What the verified claims are.                                           *)

Elems(seq) == {seq[k] : k \in DOMAIN seq}
Verified == {i \in DOMAIN claims : claims[i].status = "verified"}
Analyzed(cks) == Elems(LatestClaims(cks))

\* While p marks the claims of its verdict; once it has recorded the verdict.
Marking(p) ==
    LET ids == Elems(job[p].ids)
        todo == Elems(job[p].todo)
    IN  /\ job[p].ids = LatestClaims(loc[p].checkpoints)
        /\ todo \subseteq ids
        /\ job[p].passed => ids # {} /\ ids \subseteq Verified \cup todo
        /\ ~job[p].passed => Verified \subseteq todo

Marked(p) ==
    /\ job[p].ids = LatestClaims(loc[p].checkpoints)
    /\ verification = [passed |-> job[p].passed, claims |-> job[p].ids]
    /\ job[p].passed => Verified = Elems(job[p].ids) /\ Verified # {}
    /\ ~job[p].passed => Verified = {}

\* What is verified at each stage of the run.
VerifiedAt(cks) ==
    /\ NextStage(cks) \in {"plan", "collect", "analyze"} => Verified = {}
    /\ NextStage(cks) = "verify" => Verified \subseteq Analyzed(cks)
    /\ NextStage(cks) \in {"synthesize", "done"} =>
          /\ Verified = Analyzed(cks) /\ Verified # {}
          /\ verification # None /\ verification.passed

VerifiedInv ==
    /\ run = None => claims = <<>>
    /\ run # None => VerifiedAt(run.checkpoints)
    /\ \A p \in Procs :
          /\ pc[p] = "judging" => Marking(p)
          /\ pc[p] = "checkpoint" /\ Stage(p) = "verify" => Marked(p)

-----------------------------------------------------------------------------
(* One thread.                                                             *)

\* A step of p finds every other process idle, and leaves it so.
LEMMA StepsAlone ==
    ASSUME IInv, OneAtATime, OneAtATime', NEW p \in Procs,
           Start(p) \/ Load(p) \/ Step(p) \/ Crash(p)
    PROVE  \A q \in Procs \ {p} : pc[q] \in Idle /\ pc'[q] \in Idle
  <1>1. pc \in [Procs -> Labels] /\ \A q \in Procs \ {p} : pc'[q] = pc[q]
    BY ActionGood DEF IInv, MapsOK, GoodStep, OthersKeep
  <1>2. pc[p] \notin Idle \/ pc'[p] \notin Idle
    <2>1. CASE Start(p) \/ Load(p)
      BY <1>1, <2>1 DEF Start, Load, Goto, Idle
    <2>2. CASE Crash(p)
      BY <2>2 DEF Crash
    <2>3. CASE Step(p)
      BY <2>3 DEF Step, AskUser, Unsupported, Proceed, ResumeReturns, Reopen, Rejoin,
         NeedsResearch, EnterStage, Complete, Collect, CollectFails, AddArtifact, Attempt,
         Reply, Cancel, RejectOutput, SavePlan, PlanConflict, Analyze, AddClaim, AddScenario,
         Judge, MarkClaim, SaveVerification, Finalize, SaveOutput, SaveReport,
         ReportConflict, WriteCheckpoint, Fail, SaveLimitation, Idle
    <2> QED
      BY <2>1, <2>2, <2>3
  <1> QED
    BY <1>1, <1>2 DEF OneAtATime

\* The steps that change nothing of the run but its state.
StateStep(p) ==
    \/ AskUser(p) \/ Unsupported(p) \/ Reopen(p) \/ NeedsResearch(p)
    \/ EnterStage(p) \/ Complete(p) \/ Cancel(p) \/ Fail(p)

\* The steps that leave the run alone.
IdleStep(p) ==
    \/ Proceed(p) \/ ResumeReturns(p) \/ Rejoin(p) \/ Collect(p) \/ CollectFails(p)
    \/ AddArtifact(p) \/ RejectOutput(p) \/ SavePlan(p) \/ PlanConflict(p) \/ Analyze(p)
    \/ AddClaim(p) \/ AddScenario(p) \/ Judge(p) \/ MarkClaim(p) \/ SaveVerification(p)
    \/ Finalize(p) \/ SaveOutput(p) \/ SaveReport(p) \/ SaveLimitation(p)

\* What each kind of step does to the run, on disk and in p's hands.
LEMMA StepKinds ==
    ASSUME Base, NEW p \in Procs, Step(p)
    PROVE  /\ pc[p] \notin Idle /\ run = loc[p] /\ run # None /\ run \in Run
           /\ launches' = launches
           /\ run' \in Run
           /\ StateStep(p) =>
                 run' = loc'[p] /\ \E t \in States : run' = [run EXCEPT !.state = t]
           /\ IdleStep(p) => run' = run /\ loc' = loc
           /\ ReportConflict(p) => run' = run /\ pc'[p] = "down"
           /\ Attempt(p) => /\ run' = loc'[p] /\ pc'[p] = "agent"
                            /\ run' = [run EXCEPT !.attempts[Stage(p)] = @ + 1]
           /\ Reply(p) => /\ run' = loc'[p]
                          /\ pc'[p] \in {"cancel", "fail", "retry", "accept"}
                          /\ run'.checkpoints = run.checkpoints
                          /\ run'.attempts = run.attempts /\ run'.state = run.state
           /\ WriteCheckpoint(p) => run' = loc'[p] /\ run' = WithCheckpoint(run, job[p])
           /\ \/ StateStep(p) \/ IdleStep(p) \/ ReportConflict(p)
              \/ Attempt(p) \/ Reply(p) \/ WriteCheckpoint(p)
  <1>1. /\ pc \in [Procs -> Labels] /\ loc \in [Procs -> Run \cup {None}] /\ IInv
        /\ InSync
    BY DEF Base, IInv, MapsOK
  <1>2. pc[p] \notin Idle
    BY DEF Step, AskUser, Unsupported, Proceed, ResumeReturns, Reopen, Rejoin,
         NeedsResearch, EnterStage, Complete, Collect, CollectFails, AddArtifact, Attempt,
         Reply, Cancel, RejectOutput, SavePlan, PlanConflict, Analyze, AddClaim, AddScenario,
         Judge, MarkClaim, SaveVerification, Finalize, SaveOutput, SaveReport,
         ReportConflict, WriteCheckpoint, Fail, SaveLimitation, Idle
  <1>3. run = loc[p] /\ run # None /\ run \in Run
    BY <1>1, <1>2, LiveRun DEF InSync
  <1>4. ASSUME StateStep(p)
        PROVE  /\ launches' = launches /\ run' = loc'[p] /\ run' \in Run
               /\ \E t \in States : run' = [run EXCEPT !.state = t]
    <2>1. launches' = launches
      BY <1>4 DEF StateStep, AskUser, Unsupported, Reopen, NeedsResearch, EnterStage,
         Complete, Cancel, Fail
    <2>2. PICK t \in States : Save(p, [loc[p] EXCEPT !.state = t])
      <3>1. CASE Reopen(p)
        <4>1. Stage(p) \in Stages
          BY <1>1, <1>2, <3>1, LiveRun DEF Reopen
        <4>2. StateForStage(Stage(p)) \in States
          BY <4>1, StateOfStage DEF States
        <4> QED
          BY <3>1, <4>2 DEF Reopen
      <3>2. CASE ~Reopen(p)
        <4>1. PICK t : Transition(p, t)
          BY <1>4, <3>2 DEF StateStep, AskUser, Unsupported, NeedsResearch, EnterStage,
             Complete, Cancel, Fail
        <4> QED
          BY <4>1, TransitionTyped DEF Transition
      <3> QED
        BY <3>1, <3>2
    <2>3. run' = [run EXCEPT !.state = t] /\ loc'[p] = run'
      BY <1>1, <1>3, <2>2 DEF Save
    <2>4. run' \in Run
      BY <1>3, <2>3, SMTT(30) DEF Run
    <2> QED
      BY <2>1, <2>3, <2>4
  <1>5. ASSUME IdleStep(p) PROVE launches' = launches /\ run' = run /\ loc' = loc
    BY <1>5 DEF IdleStep, Proceed, ResumeReturns, Rejoin, Collect, CollectFails,
       AddArtifact, RejectOutput, SavePlan, PlanConflict, Analyze, AddClaim, AddScenario,
       Judge, MarkClaim, SaveVerification, Finalize, SaveOutput, SaveReport, SaveLimitation
  <1>6. ASSUME ReportConflict(p) PROVE launches' = launches /\ run' = run /\ pc'[p] = "down"
    BY <1>1, <1>6 DEF ReportConflict, Goto
  <1>7. ASSUME Attempt(p)
        PROVE  /\ launches' = launches /\ run' = loc'[p] /\ run' \in Run /\ pc'[p] = "agent"
               /\ run' = [run EXCEPT !.attempts[Stage(p)] = @ + 1]
    <2>1. /\ launches' = launches /\ pc'[p] = "agent"
          /\ Save(p, [loc[p] EXCEPT !.attempts[Stage(p)] = @ + 1])
      BY <1>1, <1>7 DEF Attempt, Goto
    <2>2. run' = loc'[p] /\ run' = [run EXCEPT !.attempts[Stage(p)] = @ + 1]
      BY <1>1, <1>3, <2>1 DEF Save
    <2>3. run' \in Run
      BY <1>1, <1>7, <2>1, <2>2, AttemptGood DEF GoodStep, ProcOK, Idle
    <2> QED
      BY <2>1, <2>2, <2>3
  <1>8. ASSUME Reply(p)
        PROVE  /\ launches' = launches /\ run' = loc'[p] /\ run' \in Run
               /\ pc'[p] \in {"cancel", "fail", "retry", "accept"}
               /\ run'.checkpoints = run.checkpoints /\ run'.attempts = run.attempts
               /\ run'.state = run.state
    <2>1. PICK kind \in {"valid", "invalid", "broken", "cancelled"} :
            pc' = [pc EXCEPT ![p] = AfterReply(kind, job[p].repair)]
      BY <1>8 DEF Reply, Goto
    <2>2. pc'[p] \in {"cancel", "fail", "retry", "accept"}
      BY <1>1, <2>1 DEF AfterReply
    <2>3. PICK session : Save(p, MetadataAfter(loc[p], backend[p], session))
      BY <1>8 DEF Reply
    <2>4. /\ run' = loc'[p]
          /\ run'.checkpoints = run.checkpoints /\ run'.attempts = run.attempts
          /\ run'.state = run.state
      BY <1>1, <1>3, <2>3 DEF Save, MetadataAfter, Run
    <2>5. run' \in Run
      BY <1>1, <1>8, <2>2, <2>4, ReplyGood DEF GoodStep, ProcOK, Idle
    <2> QED
      BY <1>8, <2>2, <2>4, <2>5 DEF Reply
  <1>9. ASSUME WriteCheckpoint(p)
        PROVE  /\ launches' = launches /\ run' = loc'[p] /\ run' \in Run
               /\ run' = WithCheckpoint(run, job[p])
    BY <1>1, <1>3, <1>9, WithCheckpointGood DEF WriteCheckpoint, Save, GoodRun
  <1>10. \/ StateStep(p) \/ IdleStep(p) \/ ReportConflict(p)
         \/ Attempt(p) \/ Reply(p) \/ WriteCheckpoint(p)
    BY DEF Step, StateStep, IdleStep
  <1> QED
    BY <1>2, <1>3, <1>4, <1>5, <1>6, <1>7, <1>8, <1>9, <1>10

\* What starting, resuming and stopping do to it.
LEMMA CallKinds ==
    ASSUME Base, NEW p \in Procs
    PROVE  /\ Start(p) => /\ run = None /\ run' = FreshRun /\ loc'[p] = FreshRun
                          /\ launches' = launches + 1 /\ pc'[p] = "created"
           /\ Load(p) => /\ run # None /\ run' = run /\ loc'[p] = run
                         /\ launches' = launches + 1 /\ pc'[p] = "resuming"
           /\ Crash(p) => run' = run /\ launches' = launches /\ pc'[p] = "down"
  <1>1. pc \in [Procs -> Labels] /\ loc \in [Procs -> Run \cup {None}]
    BY DEF Base, IInv, MapsOK
  <1> QED
    BY <1>1 DEF Start, Load, Crash, Launch, Save, Goto

\* While processes take turns, the live one goes on to hold the run on disk.
LEMMA NextInSync ==
    ASSUME Base, OneAtATime, OneAtATime', [Next]_vars
    PROVE  Base'
  <1>1. IInv' /\ StageInv'
    BY NextIInv, NextStageInv DEF Base
  <1>2. CASE Next
    <2>1. PICK p \in Procs : Start(p) \/ Load(p) \/ Step(p) \/ Crash(p)
      BY <1>2 DEF Next
    <2>2. \A q \in Procs \ {p} : pc'[q] \in Idle
      BY <2>1, StepsAlone DEF Base
    <2>3. pc'[p] \notin Idle => run' = loc'[p]
      <3>1. CASE Start(p) \/ Load(p) \/ Crash(p)
        BY <3>1, CallKinds DEF Idle
      <3>2. CASE Step(p)
        BY <3>2, StepKinds DEF Idle
      <3> QED
        BY <2>1, <3>1, <3>2
    <2> QED
      BY <1>1, <2>2, <2>3 DEF Base, InSync
  <1>3. CASE UNCHANGED vars
    BY <1>1, <1>3 DEF vars, Base, InSync
  <1> QED
    BY <1>2, <1>3

\* While one process at a time drives the run, a live one holds the run on disk.
THEOREM SoloInSync == SoloSpec => []Base
  <1>1. Init => Base
    <2>1. Init => InSync
      BY DEF Init, InSync, Idle
    <2>2. Init => StageInv
      <3> SUFFICES ASSUME Init PROVE StageInv
        OBVIOUS
      <3>1. \A p \in Procs : pc[p] = "down" /\ loc[p] = None
        BY DEF Init
      <3> QED
        BY <3>1 DEF Init, StageInv, ProcLegal, Working
    <2> QED
      BY <2>1, <2>2, InitIInv DEF Base
  <1>2. Base /\ OneAtATime /\ OneAtATime' /\ [Next]_vars => Base'
    BY NextInSync
  <1> QED
    BY <1>1, <1>2, PTL DEF SoloSpec, Spec

\* Where there is one process, nothing more is assumed: that is the instance of
\* OrchestratorCore.cfg and OrchestratorCalls.cfg.
THEOREM SoloOfOne ==
    ASSUME \A p, q \in Procs : p = q
    PROVE  Spec => SoloSpec
  <1>1. OneAtATime
    BY DEF OneAtATime
  <1> QED
    BY <1>1, PTL DEF SoloSpec

-----------------------------------------------------------------------------
(* The checkpoints.                                                        *)

\* Only the writing of a checkpoint changes the checkpoints of a run.
LEMMA ChainKept ==
    ASSUME Base, NEW p \in Procs, Start(p) \/ Load(p) \/ Step(p) \/ Crash(p),
           ~WriteCheckpoint(p), run # None
    PROVE  run' \in Run /\ run' # None /\ run'.checkpoints = run.checkpoints
  <1>1. run \in Run
    BY DEF Base, IInv, GoodRun
  <1>2. CASE Start(p) \/ Load(p) \/ Crash(p)
    BY <1>1, <1>2, CallKinds
  <1>3. CASE Step(p)
    <2>1. run' \in Run /\ run' # None
      BY <1>3, StepKinds, ConstantsAssumption
    <2>2. CASE StateStep(p)
      <3>1. PICK t \in States : run' = [run EXCEPT !.state = t]
        BY <1>3, <2>2, StepKinds
      <3> QED
        BY <1>1, <2>1, <3>1 DEF Run
    <2>3. CASE Attempt(p)
      <3>1. run' = [run EXCEPT !.attempts[Stage(p)] = @ + 1]
        BY <1>3, <2>3, StepKinds
      <3> QED
        BY <1>1, <2>1, <3>1 DEF Run
    <2>4. CASE IdleStep(p) \/ ReportConflict(p) \/ Reply(p)
      BY <1>3, <2>1, <2>4, StepKinds
    <2> QED
      BY <1>3, <2>2, <2>3, <2>4, StepKinds
  <1> QED
    BY <1>2, <1>3

\* The writing of a checkpoint appends one, of the stage whose state the run is in.
LEMMA ChainGrows ==
    ASSUME Base, NEW p \in Procs, WriteCheckpoint(p)
    PROVE  \E ck \in Checkpoint :
              /\ run' \in Run /\ run # None /\ run \in Run
              /\ NextStage(run.checkpoints) # "done"
              /\ run.state = StateForStage(NextStage(run.checkpoints))
              /\ ck = [stage  |-> Stage(p),
                       claims |-> IF Stage(p) = "analyze" THEN job[p].ids ELSE <<>>,
                       passed |-> Stage(p) = "verify" /\ job[p].passed]
              /\ Stage(p) = NextStage(run.checkpoints)
              /\ run'.checkpoints = Append(run.checkpoints, ck)
              /\ run'.state = run.state /\ run'.attempts = run.attempts
  <1> DEFINE ck == [stage  |-> Stage(p),
                    claims |-> IF Stage(p) = "analyze" THEN job[p].ids ELSE <<>>,
                    passed |-> Stage(p) = "verify" /\ job[p].passed]
  <1>1. /\ pc[p] \notin Idle /\ run = loc[p] /\ run # None /\ run \in Run
        /\ run' \in Run /\ run' = WithCheckpoint(run, job[p])
    BY StepKinds DEF Step
  <1>2. InStage(p)
    BY DEF Base, StageInv, ProcLegal, WriteCheckpoint, Working
  <1>3. JobOK(p) /\ Stage(p) \in Stages
    BY <1>1, <1>2, LiveRun DEF Base, IInv, ProcOK, InStage
  <1>4. ck \in Checkpoint
    BY <1>3 DEF Checkpoint, JobOK
  <1>5. /\ run'.checkpoints = Append(run.checkpoints, ck)
        /\ run'.state = run.state /\ run'.attempts = run.attempts
    BY <1>1 DEF WithCheckpoint, Stage, Run
  <1> QED
    BY <1>1, <1>2, <1>4, <1>5 DEF InStage, Stage

\* Checkpoints are appended one at a time, each by a run in the state of the stage
\* it records (_checkpoint), while one process at a time drives the run.
THEOREM SoloCheckpointsAppended == SoloSpec => CheckpointsAppended
  <1> DEFINE Grows ==
          run # None /\ run'.checkpoints # run.checkpoints =>
            /\ Len(run'.checkpoints) = Len(run.checkpoints) + 1
            /\ \A i \in DOMAIN run.checkpoints : run'.checkpoints[i] = run.checkpoints[i]
            /\ run.state = StateForStage(NextStage(run.checkpoints))
  <1>1. Base /\ [Next]_vars => [Grows]_vars
    <2> SUFFICES ASSUME Base, Next PROVE Grows
      OBVIOUS
    <2>1. PICK p \in Procs : Start(p) \/ Load(p) \/ Step(p) \/ Crash(p)
      BY DEF Next
    <2>2. CASE WriteCheckpoint(p)
      <3>1. PICK ck \in Checkpoint :
              /\ run \in Run
              /\ run.state = StateForStage(NextStage(run.checkpoints))
              /\ run'.checkpoints = Append(run.checkpoints, ck)
        BY <2>2, ChainGrows
      <3>2. run.checkpoints \in Seq(Checkpoint)
        BY <3>1 DEF Run
      <3> QED
        BY <3>1, <3>2
    <2>3. CASE ~WriteCheckpoint(p)
      BY <2>1, <2>3, ChainKept
    <2> QED
      BY <2>2, <2>3
  <1> QED
    BY <1>1, SoloInSync, PTL DEF SoloSpec, Spec, CheckpointsAppended

-----------------------------------------------------------------------------
(* Counting checkpoints.                                                   *)

\* How often a stage was recorded is a number, and counts the failed verdicts.
LEMMA StagesCounted ==
    ASSUME NEW cks \in Seq(Checkpoint), NEW stage
    PROVE  /\ IsFiniteSet(StagesOf(cks, stage))
           /\ Cardinality(StagesOf(cks, stage)) \in Nat
           /\ IsFiniteSet(FailedVerdicts(cks)) /\ Cardinality(FailedVerdicts(cks)) \in Nat
           /\ Cardinality(FailedVerdicts(cks)) <= Cardinality(StagesOf(cks, "verify"))
  <1>1. IsFiniteSet(1..Len(cks))
    BY FS_Interval
  <1>2. \A s : StagesOf(cks, s) \in SUBSET (1..Len(cks))
    BY DEF StagesOf
  <1>3. \A s : IsFiniteSet(StagesOf(cks, s))
    BY <1>1, <1>2, FS_Subset
  <1>4. FailedVerdicts(cks) \in SUBSET StagesOf(cks, "verify")
    BY DEF FailedVerdicts
  <1>5. /\ IsFiniteSet(FailedVerdicts(cks))
        /\ Cardinality(FailedVerdicts(cks)) <= Cardinality(StagesOf(cks, "verify"))
    BY <1>3, <1>4, FS_Subset
  <1> QED
    BY <1>3, <1>5, FS_CardinalityType

\* One more checkpoint counts for its stage alone, and for the failed verdicts
\* when it is one.
LEMMA StagesAppended ==
    ASSUME NEW cks \in Seq(Checkpoint), NEW ck \in Checkpoint
    PROVE  /\ \A stage : Cardinality(StagesOf(Append(cks, ck), stage)) =
                  Cardinality(StagesOf(cks, stage)) + (IF ck.stage = stage THEN 1 ELSE 0)
           /\ Cardinality(FailedVerdicts(Append(cks, ck))) =
                  Cardinality(FailedVerdicts(cks))
                      + (IF ck.stage = "verify" /\ ~ck.passed THEN 1 ELSE 0)
  <1> DEFINE n == Len(cks) + 1
             after == Append(cks, ck)
  <1>1. /\ DOMAIN after = DOMAIN cks \cup {n} /\ n \notin DOMAIN cks
        /\ after[n] = ck /\ \A i \in DOMAIN cks : after[i] = cks[i]
    OBVIOUS
  <1> HIDE DEF n, after
  <1>2. ASSUME NEW stage
        PROVE  Cardinality(StagesOf(after, stage)) =
                  Cardinality(StagesOf(cks, stage)) + (IF ck.stage = stage THEN 1 ELSE 0)
    <2>1. n \notin StagesOf(cks, stage) /\ IsFiniteSet(StagesOf(cks, stage))
      BY <1>1, StagesCounted DEF StagesOf
    <2>2. CASE ck.stage = stage
      <3>1. StagesOf(after, stage) = StagesOf(cks, stage) \cup {n}
        BY <1>1, <2>2 DEF StagesOf
      <3> QED
        BY <2>1, <2>2, <3>1, FS_AddElement, ZenonT(60)
    <2>3. CASE ck.stage # stage
      <3>1. StagesOf(after, stage) = StagesOf(cks, stage)
        BY <1>1, <2>3 DEF StagesOf
      <3> QED
        BY <2>3, <3>1, StagesCounted
    <2> QED
      BY <2>2, <2>3
  <1>3. Cardinality(FailedVerdicts(after)) =
                  Cardinality(FailedVerdicts(cks))
                      + (IF ck.stage = "verify" /\ ~ck.passed THEN 1 ELSE 0)
    <2>1. n \notin FailedVerdicts(cks) /\ IsFiniteSet(FailedVerdicts(cks))
      BY <1>1, StagesCounted DEF FailedVerdicts, StagesOf
    <2>2. CASE ck.stage = "verify" /\ ~ck.passed
      <3>1. FailedVerdicts(after) = FailedVerdicts(cks) \cup {n}
        BY <1>1, <2>2 DEF FailedVerdicts, StagesOf
      <3> QED
        BY <2>1, <2>2, <3>1, FS_AddElement
    <2>3. CASE ~(ck.stage = "verify" /\ ~ck.passed)
      <3>1. FailedVerdicts(after) = FailedVerdicts(cks)
        BY <1>1, <2>3 DEF FailedVerdicts, StagesOf
      <3> QED
        BY <2>3, <3>1, StagesCounted
    <2> QED
      BY <2>2, <2>3
  <1> QED
    BY <1>2, <1>3 DEF after

\* A new run has no checkpoint.
LEMMA StagesFresh ==
    /\ \A stage : Cardinality(StagesOf(FreshRun.checkpoints, stage)) = 0
    /\ Cardinality(FailedVerdicts(FreshRun.checkpoints)) = 0
  BY FS_EmptySet DEF FreshRun, StagesOf, FailedVerdicts

-----------------------------------------------------------------------------
(* Bounded research.                                                       *)

\* A call that is ending does nothing but end.
LEMMA EndingEnds ==
    ASSUME IInv, NEW p \in Procs, Step(p), pc'[p] \notin Idle \cup Ending
    PROVE  pc[p] \notin Idle \cup Ending
  <1>1. pc \in [Procs -> Labels]
    BY DEF IInv, MapsOK
  <1>2. ASSUME pc[p] = "fail" PROVE pc'[p] = "limit"
    BY <1>1, <1>2 DEF Step, AskUser, Unsupported, Proceed, ResumeReturns, Reopen, Rejoin,
         NeedsResearch, EnterStage, Complete, Collect, CollectFails, AddArtifact, Attempt,
         Reply, Cancel, RejectOutput, SavePlan, PlanConflict, Analyze, AddClaim, AddScenario,
         Judge, MarkClaim, SaveVerification, Finalize, SaveOutput, SaveReport,
         ReportConflict, WriteCheckpoint, Fail, SaveLimitation, Goto
  <1>3. ASSUME pc[p] = "limit" PROVE pc'[p] = "returned"
    BY <1>1, <1>3 DEF Step, AskUser, Unsupported, Proceed, ResumeReturns, Reopen, Rejoin,
         NeedsResearch, EnterStage, Complete, Collect, CollectFails, AddArtifact, Attempt,
         Reply, Cancel, RejectOutput, SavePlan, PlanConflict, Analyze, AddClaim, AddScenario,
         Judge, MarkClaim, SaveVerification, Finalize, SaveOutput, SaveReport,
         ReportConflict, WriteCheckpoint, Fail, SaveLimitation, Goto
  <1>4. pc[p] \notin Idle
    BY DEF Step, AskUser, Unsupported, Proceed, ResumeReturns, Reopen, Rejoin,
         NeedsResearch, EnterStage, Complete, Collect, CollectFails, AddArtifact, Attempt,
         Reply, Cancel, RejectOutput, SavePlan, PlanConflict, Analyze, AddClaim, AddScenario,
         Judge, MarkClaim, SaveVerification, Finalize, SaveOutput, SaveReport,
         ReportConflict, WriteCheckpoint, Fail, SaveLimitation, Idle
  <1> QED
    BY <1>2, <1>3, <1>4 DEF Ending, Idle

\* A launch that had not used up the iterations records at most one more failed
\* verification than they allow; the next launch begins with that many.
LEMMA NextResearchInv ==
    ASSUME Base, ResearchInv, OneAtATime, OneAtATime', [Next]_vars
    PROVE  ResearchInv'
  <1>1. CASE Next
    <2>1. PICK p \in Procs : Start(p) \/ Load(p) \/ Step(p) \/ Crash(p)
      BY <1>1 DEF Next
    <2>2. \A q \in Procs \ {p} : pc'[q] \in Idle
      BY <2>1, StepsAlone DEF Base
    <2>3. launches \in Nat /\ MaxIterations \in Nat \ {0}
      BY ConstantsAssumption DEF Base, IInv, MapsOK
    <2> DEFINE failed == Cardinality(FailedVerdicts(run.checkpoints))
               failedAfter == Cardinality(FailedVerdicts(run'.checkpoints))
    <2>4. run # None => failed \in Nat
      BY StagesCounted DEF Base, IInv, GoodRun, Run
    <2>5. CASE Start(p)
      <3>1. run' = FreshRun /\ launches' = launches + 1
        BY <2>5, CallKinds
      <3> QED
        BY <2>3, <3>1, StagesFresh DEF ResearchInv
    <2>6. CASE Load(p)
      <3>1. run' = run /\ run # None /\ launches' = launches + 1
        BY <2>6, CallKinds
      <3> QED
        BY <2>3, <2>4, <3>1 DEF ResearchInv
    <2>7. CASE Crash(p)
      <3>1. run' = run /\ launches' = launches /\ pc'[p] = "down"
        BY <2>7, CallKinds
      <3> QED
        BY <2>2, <3>1 DEF ResearchInv, Idle
    <2>8. CASE Step(p) /\ ~WriteCheckpoint(p)
      <3>1. /\ run # None /\ run'.checkpoints = run.checkpoints /\ launches' = launches
        BY <2>8, StepKinds, ChainKept
      <3>2. pc'[p] \notin Idle \cup Ending => pc[p] \notin Idle \cup Ending
        BY <2>8, EndingEnds DEF Base
      <3> QED
        BY <2>2, <3>1, <3>2 DEF ResearchInv
    <2>9. CASE WriteCheckpoint(p)
      <3>1. PICK ck \in Checkpoint :
              /\ run \in Run /\ run' \in Run /\ run # None
              /\ run'.checkpoints = Append(run.checkpoints, ck)
        BY <2>9, ChainGrows
      <3>2. launches' = launches /\ pc[p] \notin Idle \cup Ending
        BY <2>9 DEF WriteCheckpoint, Idle, Ending
      <3>3. /\ failed <= MaxIterations + launches - 2 /\ launches >= 1
        BY <3>1, <3>2 DEF ResearchInv
      <3>4. /\ failedAfter = failed + (IF ck.stage = "verify" /\ ~ck.passed THEN 1 ELSE 0)
            /\ run'.checkpoints \in Seq(Checkpoint) /\ run'.checkpoints # <<>>
            /\ Latest(run'.checkpoints) = ck
        <4>1. run.checkpoints \in Seq(Checkpoint)
          BY <3>1 DEF Run
        <4> QED
          BY <3>1, <4>1, StagesAppended DEF Latest
      <3>5. failedAfter <= MaxIterations + launches - 1
        BY <2>3, <2>4, <3>1, <3>3, <3>4
      <3>6. ASSUME pc'[p] \notin Ending
            PROVE  failedAfter <= MaxIterations + launches - 2
        <4>1. ~Exhausted(run'.checkpoints)
          <5>1. pc \in [Procs -> Labels] /\ run' = WithCheckpoint(loc[p], job[p])
            BY <2>9 DEF Base, IInv, MapsOK, WriteCheckpoint, Save
          <5> QED
            BY <3>6, <5>1, <2>9 DEF WriteCheckpoint, Goto, Ending
        <4>2. CASE ck.stage = "verify" /\ ~ck.passed
          <5> DEFINE rounds == Cardinality(StagesOf(run'.checkpoints, "verify"))
          <5>1. rounds \in Nat /\ failedAfter \in Nat /\ failedAfter <= rounds
            BY <3>4, StagesCounted
          <5>2. rounds < MaxIterations
            BY <2>3, <3>4, <4>1, <4>2, <5>1 DEF Exhausted
          <5> HIDE DEF rounds, failedAfter
          <5> QED
            BY <2>3, <3>3, <5>1, <5>2
        <4>3. CASE ~(ck.stage = "verify" /\ ~ck.passed)
          BY <2>4, <3>1, <3>3, <3>4, <4>3
        <4> QED
          BY <4>2, <4>3
      <3> QED
        BY <2>2, <3>2, <3>3, <3>5, <3>6 DEF ResearchInv
    <2> QED
      BY <2>1, <2>5, <2>6, <2>7, <2>8, <2>9
  <1>2. CASE UNCHANGED vars
    BY <1>2 DEF vars, ResearchInv
  <1> QED
    BY <1>1, <1>2

\* Each launch adds at most one failed verification to those the iterations allow
\* (_max_research_iterations, research_orchestrator.py), while one process at a time
\* drives the run.
THEOREM SoloResearchBounded == SoloSpec => []ResearchBounded
  <1>1. Init => ResearchInv
    BY DEF Init, ResearchInv
  <1>2. ResearchInv => ResearchBounded
    BY DEF ResearchInv, ResearchBounded, FailedVerdicts
  <1>3. Base /\ ResearchInv /\ OneAtATime /\ OneAtATime' /\ [Next]_vars => ResearchInv'
    BY NextResearchInv
  <1> QED
    BY <1>1, <1>2, <1>3, SoloInSync, PTL DEF SoloSpec, Spec

-----------------------------------------------------------------------------
(* Bounded repair.                                                         *)

\* One entry more under way allows MaxRepairs + 1 attempts more.
LEMMA AllowanceGrows ==
    ASSUME NEW r \in Run, NEW s, NEW entries \in Nat
    PROVE  /\ Allowance(r, s, entries) \in Nat
           /\ Allowance(r, s, entries + 1) = Allowance(r, s, entries) + (MaxRepairs + 1)
  <1> DEFINE n == Cardinality(StagesOf(r.checkpoints, s))
             m == MaxRepairs + 1
  <1>1. n \in Nat /\ m \in Nat
    BY StagesCounted, ConstantsAssumption DEF Run
  <1> HIDE DEF n, m
  <1>2. m * (entries + n) \in Nat /\ m * (entries + 1 + n) = m * (entries + n) + m
    BY <1>1
  <1> QED
    BY <1>2 DEF Allowance, n, m

\* So does one entry more that is recorded.
LEMMA AllowanceRecorded ==
    ASSUME NEW r \in Run, NEW q \in Run, NEW ck \in Checkpoint,
           q.checkpoints = Append(r.checkpoints, ck), NEW s, NEW entries \in Nat
    PROVE  Allowance(q, s, entries) =
              Allowance(r, s, entries) + (IF ck.stage = s THEN MaxRepairs + 1 ELSE 0)
  <1> DEFINE n == Cardinality(StagesOf(r.checkpoints, s))
             m == MaxRepairs + 1
  <1>1. n \in Nat /\ m \in Nat
    BY StagesCounted, ConstantsAssumption DEF Run
  <1>2. Cardinality(StagesOf(q.checkpoints, s)) = n + (IF ck.stage = s THEN 1 ELSE 0)
    BY StagesAppended DEF Run
  <1> HIDE DEF n, m
  <1>3. Allowance(r, s, entries) = m * (entries + n)
    BY DEF Allowance, n, m
  <1>4. CASE ck.stage = s
    <2>1. Allowance(q, s, entries) = m * (entries + (n + 1))
      BY <1>2, <1>4 DEF Allowance, m
    <2>2. m * (entries + (n + 1)) = m * (entries + n) + m
      BY <1>1
    <2> QED
      BY <1>3, <1>4, <2>1, <2>2 DEF m
  <1>5. CASE ck.stage # s
    <2>1. Allowance(q, s, entries) = m * (entries + n) /\ m * (entries + n) \in Nat
      BY <1>1, <1>2, <1>5 DEF Allowance, m
    <2> QED
      BY <1>3, <1>5, <2>1
  <1> QED
    BY <1>4, <1>5

\* An entry never counts more attempts than it may make.
LEMMA TriedBounded ==
    ASSUME IInv, NEW p \in Procs, NEW s
    PROVE  Tried(p, s) \in 0..(MaxRepairs + 1)
  BY ConstantsAssumption DEF IInv, ProcOK, JobOK, Tried

\* A step that makes no attempt, ends none and records nothing counts no fewer
\* attempts after than before.
LEMMA TriedKept ==
    ASSUME Base, NEW p \in Procs, StateStep(p) \/ IdleStep(p) \/ ReportConflict(p),
           Step(p), pc'[p] \notin Idle \cup {"fail", "cancel", "limit"},
           \A q \in Procs : pc[q] \notin {"agent", "retry"} => job[q].repair = 0
    PROVE  /\ pc[p] \notin Idle \cup {"fail", "cancel", "limit"}
           /\ \A s : Tried(p, s)' >= Tried(p, s)
  <1>1. /\ pc \in [Procs -> Labels] /\ loc \in [Procs -> Run \cup {None}]
        /\ MaxRepairs \in Nat
    BY ConstantsAssumption DEF Base, IInv, MapsOK
  <1>2. ~ReportConflict(p)
    BY StepKinds DEF Idle
  <1>3. CASE StateStep(p)
    <2>1. /\ pc[p] \in {"created", "resuming", "loop"}
          /\ pc'[p] \in {"loop"}
      BY <1>1, <1>3 DEF StateStep, AskUser, Unsupported, Reopen, NeedsResearch, EnterStage,
         Complete, Cancel, Fail, Goto, Idle
    <2>2. \A s : Tried(p, s) = 0 /\ Tried(p, s)' = 0
      BY <2>1 DEF Tried, Working
    <2> QED
      BY <2>1, <2>2 DEF Idle
  <1>4. CASE IdleStep(p)
    <2>1. loc' = loc
      BY <1>4, StepKinds
    <2>2. \/ pc[p] \in {"created", "resuming", "loop"}
          \/ /\ pc[p] \in Working \ {"agent", "retry"}
             /\ pc'[p] \in Working \ {"agent", "retry"}
      BY <1>1, <1>4, ZenonT(60) DEF IdleStep, Proceed, ResumeReturns, Rejoin, Collect, CollectFails,
       AddArtifact, RejectOutput, SavePlan, PlanConflict, Analyze, AddClaim, AddScenario,
       Judge, MarkClaim, SaveVerification, Finalize, SaveOutput, SaveReport, SaveLimitation,
       Goto, Idle, Working
    <2>3. /\ pc'[p] \notin {"agent", "retry"}
          /\ pc[p] \notin Idle \cup {"fail", "cancel", "limit", "agent", "retry"}
      BY <1>1, <1>4 DEF IdleStep, Proceed, ResumeReturns, Rejoin, Collect, CollectFails,
       AddArtifact, RejectOutput, SavePlan, PlanConflict, Analyze, AddClaim, AddScenario,
       Judge, MarkClaim, SaveVerification, Finalize, SaveOutput, SaveReport, SaveLimitation,
       Goto, Idle
    <2>4. Stage(p)' = Stage(p)
      BY <2>1 DEF Stage
    <2>5. ASSUME NEW s PROVE Tried(p, s)' >= Tried(p, s)
      BY <1>1, <2>2, <2>3, <2>4 DEF Tried, Working
    <2> QED
      BY <2>3, <2>5
  <1> QED
    BY <1>2, <1>3, <1>4

\* The number of repairs is only kept between an attempt and its reply.
LEMMA RepairReset ==
    ASSUME Base, NEW p \in Procs, Start(p) \/ Load(p) \/ Step(p) \/ Crash(p),
           pc[p] \notin {"agent", "retry"} => job[p].repair = 0,
           pc'[p] \notin {"agent", "retry"}
    PROVE  job'[p].repair = 0
  <1>1. /\ pc \in [Procs -> Labels] /\ DOMAIN job = Procs /\ JobOK(p)
    BY DEF Base, IInv, MapsOK, ProcOK
  <1>2. CASE Reply(p)
    <2>1. PICK kind \in {"valid", "invalid", "broken", "cancelled"} :
            /\ pc' = [pc EXCEPT ![p] = AfterReply(kind, job[p].repair)]
            /\ job' = [job EXCEPT ![p].session = None,
                        ![p].repair = IF AfterReply(kind, job[p].repair) = "retry"
                                      THEN @ + 1 ELSE 0]
      BY <1>2 DEF Reply, Goto
    <2>2. AfterReply(kind, job[p].repair) # "retry"
      BY <1>1, <2>1
    <2> QED
      BY <1>1, <2>1, <2>2 DEF JobOK
  <1>3. CASE Crash(p) \/ ReportConflict(p) \/ WriteCheckpoint(p) \/ RejectOutput(p)
    <2>1. job' = [job EXCEPT ![p] = NoJob]
      BY <1>3 DEF Crash, ReportConflict, WriteCheckpoint, RejectOutput
    <2> QED
      BY <1>1, <2>1 DEF NoJob
  <1>4. CASE Start(p) \/ Load(p)
    <2>1. job' = job /\ pc[p] \in Idle
      BY <1>4 DEF Start, Load, Launch
    <2> QED
      BY <2>1 DEF Idle
  <1>5. CASE StateStep(p)
    <2>1. job' = job /\ pc[p] \notin {"agent", "retry"}
      BY <1>5 DEF StateStep, AskUser, Unsupported, Reopen, NeedsResearch, EnterStage,
         Complete, Cancel, Fail
    <2> QED
      BY <2>1
  <1>6. CASE IdleStep(p) /\ ~RejectOutput(p)
    <2>1. pc[p] \notin {"agent", "retry"}
      BY <1>6 DEF IdleStep, Proceed, ResumeReturns, Rejoin, Collect, CollectFails,
       AddArtifact, SavePlan, PlanConflict, Analyze, AddClaim, AddScenario,
       Judge, MarkClaim, SaveVerification, Finalize, SaveOutput, SaveReport, SaveLimitation
    <2>2. CASE Collect(p) \/ AddArtifact(p) \/ Analyze(p) \/ AddScenario(p) \/ MarkClaim(p)
               \/ Finalize(p) \/ SaveOutput(p)
      <3>1. \E todo : job' = [job EXCEPT ![p].todo = todo]
        BY <2>2 DEF Collect, AddArtifact, Analyze, AddScenario, MarkClaim, Finalize,
           SaveOutput
      <3> QED
        BY <1>1, <2>1, <3>1 DEF JobOK
    <2>3. CASE AddClaim(p)
      <3>1. \E todo, ids : job' = [job EXCEPT ![p].todo = todo, ![p].ids = ids]
        BY <1>1, <2>3 DEF AddClaim
      <3> QED
        BY <1>1, <2>1, <3>1 DEF JobOK
    <2>4. CASE Judge(p)
      <3>1. \E todo, passed :
              job' = [job EXCEPT ![p].todo = todo, ![p].ids = todo, ![p].passed = passed]
        BY <2>4 DEF Judge
      <3> QED
        BY <1>1, <2>1, <3>1 DEF JobOK
    <2>5. CASE Proceed(p) \/ ResumeReturns(p) \/ Rejoin(p) \/ CollectFails(p) \/ SavePlan(p)
               \/ PlanConflict(p) \/ SaveVerification(p) \/ SaveReport(p) \/ SaveLimitation(p)
      BY <2>1, <2>5 DEF Proceed, ResumeReturns, Rejoin, CollectFails, SavePlan, PlanConflict,
         SaveVerification, SaveReport, SaveLimitation
    <2> QED
      BY <1>6, <2>2, <2>3, <2>4, <2>5, SMTT(30) DEF IdleStep
  <1>7. CASE Attempt(p)
    BY <1>1, <1>7 DEF Attempt, Goto
  <1> QED
    BY <1>2, <1>3, <1>4, <1>5, <1>6, <1>7 DEF Step, StateStep, IdleStep

\* An entry into an agent stage makes at most MaxRepairs + 1 attempts and ends in a
\* checkpoint or with its call; either makes room for the attempts of the next.
LEMMA NextAttemptsInv ==
    ASSUME Base, AttemptsInv, OneAtATime, OneAtATime', [Next]_vars
    PROVE  AttemptsInv'
  <1>1. CASE Next
    <2>1. PICK p \in Procs : Start(p) \/ Load(p) \/ Step(p) \/ Crash(p)
      BY <1>1 DEF Next
    <2>2. \A q \in Procs \ {p} : pc'[q] \in Idle /\ pc'[q] = pc[q] /\ job'[q] = job[q]
      BY <2>1, StepsAlone, ActionGood DEF Base, GoodStep, OthersKeep
    <2>3. \A q \in Procs : pc'[q] \notin {"agent", "retry"} => job'[q].repair = 0
      BY <2>1, <2>2, RepairReset DEF AttemptsInv
    <2>4. /\ launches \in Nat /\ MaxRepairs \in Nat /\ run' \in Run \cup {None}
          /\ run \in Run \cup {None} /\ IInv /\ IInv'
      BY <1>1, ConstantsAssumption, NextIInv DEF Base, IInv, MapsOK, GoodRun
    <2>5. \A s : Tried(p, s)' \in 0..(MaxRepairs + 1)
      BY <2>4, ConstantsAssumption DEF IInv, ProcOK, JobOK, Tried
    \* It is enough to count the attempts of the launch under way.
    <2>6. SUFFICES ASSUME run' # None, NEW s \in AgentStages
                   PROVE  /\ launches' >= 1
                          /\ run'.attempts[s] <= Allowance(run', s, launches')
                          /\ pc'[p] \notin Idle \cup {"fail", "cancel", "limit"} =>
                                run'.attempts[s] <= Allowance(run', s, launches' - 1) + Tried(p, s)'
      <3>1. "plan" \in AgentStages
        BY DEF AgentStages
      <3> QED
        BY <2>2, <2>3, <3>1 DEF AttemptsInv, Allowance
    <2>7. run' \in Run
      BY <2>4, <2>6
    <2>8. run'.attempts[s] \in Nat
      BY <2>6, <2>7 DEF Run
    <2>9. CASE Start(p)
      <3>1. run' = FreshRun /\ launches' = launches + 1
        BY <2>9, CallKinds DEF Base
      <3>2. run'.attempts[s] = 0
        BY <3>1 DEF FreshRun
      <3>3. Allowance(run', s, launches') \in Nat /\ Allowance(run', s, launches' - 1) \in Nat
        BY <2>4, <2>7, <3>1, AllowanceGrows
      <3> QED
        BY <2>4, <2>5, <3>1, <3>2, <3>3
    <2>10. CASE Load(p)
      <3>1. run' = run /\ run # None /\ launches' = launches + 1
        BY <2>10, CallKinds
      <3>2. run.attempts[s] <= Allowance(run, s, launches)
        BY <3>1 DEF AttemptsInv
      <3>3. /\ Allowance(run, s, launches) \in Nat
            /\ Allowance(run, s, launches + 1) = Allowance(run, s, launches) + (MaxRepairs + 1)
        BY <2>4, <2>7, <3>1, AllowanceGrows
      <3>4. launches' - 1 = launches
        BY <2>4, <3>1
      <3> QED
        BY <2>4, <2>5, <2>8, <3>1, <3>2, <3>3, <3>4
    <2>11. CASE Crash(p)
      <3>1. run' = run /\ launches' = launches /\ pc'[p] = "down"
        BY <2>11, CallKinds
      <3> QED
        BY <2>6, <3>1 DEF AttemptsInv, Idle
    <2>12. CASE Step(p)
      <3>1. run # None /\ run \in Run /\ run = loc[p] /\ launches' = launches /\ launches >= 1
        BY <2>12, StepKinds DEF AttemptsInv
      <3> DEFINE before == Allowance(run, s, launches - 1)
                 after == Allowance(run', s, launches - 1)
      <3>2. /\ before \in Nat /\ after \in Nat
            /\ Allowance(run, s, launches) = before + (MaxRepairs + 1)
            /\ Allowance(run', s, launches) = after + (MaxRepairs + 1)
        <4>1. launches - 1 \in Nat /\ (launches - 1) + 1 = launches
          BY <2>4, <3>1
        <4> QED
          BY <2>7, <3>1, <4>1, AllowanceGrows
      <3>3. run.attempts[s] \in Nat
        BY <3>1, <2>6 DEF Run
      <3>4. \A t : Tried(p, t) \in 0..(MaxRepairs + 1)
        BY <2>4, TriedBounded
      <3>5. Stage(p) = NextStage(run.checkpoints)
        BY <3>1 DEF Stage
      <3>6. ~WriteCheckpoint(p) => after = before
        BY <2>1, <3>1, ChainKept DEF Allowance
      <3>7. CASE StateStep(p) \/ IdleStep(p) \/ ReportConflict(p)
        <4>1. run'.attempts = run.attempts
          <5>1. run' = run \/ \E t \in States : run' = [run EXCEPT !.state = t]
            BY <2>12, <3>7, StepKinds
          <5> QED
            BY <3>1, <5>1 DEF Run
        <4>2. ~WriteCheckpoint(p)
          <5>1. run'.checkpoints = run.checkpoints
            <6>1. run' = run \/ \E t \in States : run' = [run EXCEPT !.state = t]
              BY <2>12, <3>7, StepKinds
            <6> QED
              BY <3>1, <6>1 DEF Run
          <5>2. ASSUME WriteCheckpoint(p) PROVE run'.checkpoints # run.checkpoints
            <6>1. PICK ck \in Checkpoint : run'.checkpoints = Append(run.checkpoints, ck)
              BY <5>2, ChainGrows
            <6>2. run.checkpoints \in Seq(Checkpoint)
              BY <3>1 DEF Run
            <6> QED
              BY <6>1, <6>2
          <5> QED
            BY <5>1, <5>2
        <4>3. run.attempts[s] <= Allowance(run, s, launches)
          BY <3>1 DEF AttemptsInv
        <4>4. ASSUME pc'[p] \notin Idle \cup {"fail", "cancel", "limit"}
              PROVE  run'.attempts[s] <= after + Tried(p, s)'
          <5>1. /\ pc[p] \notin Idle \cup {"fail", "cancel", "limit"}
                /\ Tried(p, s)' >= Tried(p, s)
            BY <2>12, <3>7, <4>4, TriedKept DEF AttemptsInv
          <5>2. run.attempts[s] <= before + Tried(p, s)
            BY <3>1, <5>1 DEF AttemptsInv
          <5> HIDE DEF before, after
          <5> QED
            BY <2>5, <3>2, <3>3, <3>4, <3>6, <4>1, <4>2, <5>1, <5>2
        <4> HIDE DEF before, after
        <4> QED
          BY <3>1, <3>2, <3>3, <3>6, <4>1, <4>2, <4>3, <4>4 DEF before, after
      <3>8. CASE Attempt(p)
        <4>1. /\ pc[p] \in {"loop", "retry"} /\ pc'[p] = "agent" /\ run' = loc'[p]
              /\ job'[p].repair = job[p].repair /\ ~WriteCheckpoint(p)
          <5>1. DOMAIN job = Procs /\ JobOK(p)
            BY <2>4 DEF IInv, MapsOK, ProcOK
          <5>2. \E session : job' = [job EXCEPT ![p].session = session]
            BY <3>8 DEF Attempt
          <5>3. job'[p].repair = job[p].repair
            BY <5>1, <5>2 DEF JobOK
          <5>4. pc[p] \in {"loop", "retry"} /\ ~WriteCheckpoint(p)
            BY <3>8 DEF Attempt, WriteCheckpoint
          <5> QED
            BY <2>12, <3>8, <5>3, <5>4, StepKinds
        <4>2. run'.attempts[s] = run.attempts[s] + (IF s = Stage(p) THEN 1 ELSE 0)
          <5>1. run' = [run EXCEPT !.attempts[Stage(p)] = @ + 1]
            BY <2>12, <3>8, StepKinds
          <5>2. Stage(p) \in AgentStages
            BY <2>4, <3>8 DEF Attempt, IInv, ProcOK, WorkDone
          <5> QED
            BY <2>6, <3>1, <5>1, <5>2 DEF Run
        <4>3. Stage(p)' = Stage(p)
          BY <2>1, <3>1, <3>5, <4>1, ChainKept DEF Stage
        <4>4. /\ run.attempts[s] <= before + Tried(p, s)
              /\ Tried(p, s)' = Tried(p, s) + (IF s = Stage(p) THEN 1 ELSE 0)
          <5>1. run.attempts[s] <= before + Tried(p, s)
            BY <3>1, <4>1 DEF AttemptsInv, Idle
          <5>2. pc[p] = "loop" => job[p].repair = 0
            BY DEF AttemptsInv
          <5>3. job[p].repair \in Nat
            BY <2>4 DEF IInv, ProcOK, JobOK
          <5> QED
            BY <4>1, <4>3, <5>1, <5>2, <5>3 DEF Tried, Working
        <4> HIDE DEF before, after
        <4>5. run'.attempts[s] <= after + Tried(p, s)'
          BY <3>2, <3>3, <3>4, <3>6, <4>1, <4>2, <4>4
        <4> QED
          BY <2>4, <2>5, <2>8, <3>1, <3>2, <4>5 DEF after
      <3>9. CASE Reply(p)
        <4>1. /\ pc[p] = "agent" /\ ~WriteCheckpoint(p)
              /\ run' = loc'[p] /\ run'.attempts = run.attempts
              /\ pc'[p] \in {"cancel", "fail", "retry", "accept"}
          BY <2>12, <3>9, StepKinds DEF Reply, WriteCheckpoint
        <4>2. Stage(p)' = Stage(p)
          BY <2>1, <3>1, <3>5, <4>1, ChainKept DEF Stage
        <4>3. run.attempts[s] <= before + Tried(p, s)
          BY <3>1, <4>1 DEF AttemptsInv, Idle
        <4>4. ASSUME pc'[p] \in {"retry", "accept"} PROVE Tried(p, s)' >= Tried(p, s)
          <5>1. JobOK(p) /\ DOMAIN job = Procs /\ pc \in [Procs -> Labels]
            BY <2>4 DEF IInv, MapsOK, ProcOK
          <5>2. pc'[p] = "retry" => job'[p].repair = job[p].repair + 1
            BY <3>9, <5>1 DEF Reply, Goto, JobOK
          <5>3. job[p].repair \in 0..MaxRepairs
            BY <5>1 DEF JobOK
          <5> QED
            BY <2>4, <4>1, <4>2, <4>4, <5>2, <5>3 DEF Tried, Working
        <4> HIDE DEF before, after
        <4>5. run'.attempts[s] <= after + (MaxRepairs + 1)
          BY <2>4, <3>2, <3>3, <3>4, <3>6, <4>1, <4>3
        <4>6. pc'[p] \in {"retry", "accept"} => run'.attempts[s] <= after + Tried(p, s)'
          BY <2>5, <3>2, <3>3, <3>4, <3>6, <4>1, <4>3, <4>4
        <4> QED
          BY <3>1, <3>2, <4>1, <4>5, <4>6 DEF after
      <3>10. CASE WriteCheckpoint(p)
        <4>1. PICK ck \in Checkpoint :
                /\ ck.stage = Stage(p)
                /\ run'.checkpoints = Append(run.checkpoints, ck)
                /\ run'.attempts = run.attempts
          BY <3>10, ChainGrows
        <4>2. after = before + (IF s = Stage(p) THEN MaxRepairs + 1 ELSE 0)
          <5>1. launches - 1 \in Nat
            BY <2>4, <3>1
          <5> QED
            BY <2>7, <3>1, <4>1, <5>1, AllowanceRecorded
        <4>3. run.attempts[s] <= before + Tried(p, s)
          <5>1. pc[p] \notin Idle \cup {"fail", "cancel", "limit"}
            BY <3>10 DEF WriteCheckpoint, Idle
          <5> QED
            BY <3>1, <5>1 DEF AttemptsInv
        <4>4. s # Stage(p) => Tried(p, s) = 0
          BY DEF Tried
        <4> HIDE DEF before, after
        <4>5. run'.attempts[s] <= after
          BY <2>4, <3>2, <3>3, <3>4, <4>1, <4>2, <4>3, <4>4
        <4> QED
          BY <2>4, <2>5, <2>8, <3>1, <3>2, <4>5 DEF after
      <3> QED
        BY <2>12, <3>7, <3>8, <3>9, <3>10, StepKinds
    <2> QED
      BY <2>1, <2>9, <2>10, <2>11, <2>12
  <1>2. CASE UNCHANGED vars
    BY <1>2 DEF vars, AttemptsInv, Tried, Stage, Allowance
  <1> QED
    BY <1>1, <1>2

\* Every agent stage is attempted at most MaxRepairs + 1 times for each launch and
\* for each time it was recorded (_execute_agent_stage), while one process at a
\* time drives the run.
THEOREM SoloAttemptsBounded == SoloSpec => []AttemptsBounded
  <1>1. Init => AttemptsInv
    BY DEF Init, AttemptsInv, NoJob
  <1>2. AttemptsInv => AttemptsBounded
    BY DEF AttemptsInv, AttemptsBounded, Allowance
  <1>3. Base /\ AttemptsInv /\ OneAtATime /\ OneAtATime' /\ [Next]_vars => AttemptsInv'
    BY NextAttemptsInv
  <1> QED
    BY <1>1, <1>2, <1>3, SoloInSync, PTL DEF SoloSpec, Spec

-----------------------------------------------------------------------------
(* The refinement of RunLifecycle.                                         *)

\* What a reader of run.md sees of its checkpoints.
Seen(cks) == [i \in DOMAIN cks |-> [stage |-> cks[i].stage, passed |-> cks[i].passed]]

\* A reader knows the stage that comes next, and sees one checkpoint more when
\* one is written.
LEMMA SeenStage ==
    ASSUME NEW cks \in Seq(Checkpoint)
    PROVE  /\ Reader!NextStage(Seen(cks)) = NextStage(cks)
           /\ \A ck \in Checkpoint : Seen(Append(cks, ck)) =
                 Append(Seen(cks), [stage |-> ck.stage, passed |-> ck.passed])
  <1>1. /\ DOMAIN Seen(cks) = 1..Len(cks) /\ Len(cks) \in Nat
        /\ \A i \in 1..Len(cks) :
              Seen(cks)[i] = [stage |-> cks[i].stage, passed |-> cks[i].passed]
    BY DEF Seen
  <1>2. Seen(cks) \in Seq([stage : Stages, passed : BOOLEAN])
    <2>1. \A i \in 1..Len(cks) : cks[i] \in Checkpoint
      OBVIOUS
    <2> QED
      BY <1>1, <2>1 DEF Seen, Checkpoint
  <1>3. Len(Seen(cks)) = Len(cks) /\ (Seen(cks) = <<>> <=> cks = <<>>)
    BY <1>1, <1>2
  <1>4. cks # <<>> =>
            /\ Reader!Latest(Seen(cks)).stage = Latest(cks).stage
            /\ Reader!Latest(Seen(cks)).passed = Latest(cks).passed
    BY <1>1, <1>3 DEF Reader!Latest, Latest
  <1>5. Reader!NextStage(Seen(cks)) = NextStage(cks)
    <2>1. CASE cks = <<>>
      BY <1>3, <2>1 DEF Reader!NextStage, NextStage
    <2>2. CASE cks # <<>>
      <3>1. Latest(cks).stage \in {"plan", "collect", "analyze", "verify", "synthesize"}
        BY <2>2, StageFacts DEF Checkpoint, Stages, AgentStages
      <3> QED
        BY <1>3, <1>4, <2>2, <3>1 DEF Reader!NextStage, NextStage
    <2> QED
      BY <2>1, <2>2
  <1>6. ASSUME NEW ck \in Checkpoint
        PROVE  Seen(Append(cks, ck)) =
                 Append(Seen(cks), [stage |-> ck.stage, passed |-> ck.passed])
    <2> DEFINE seen == [stage |-> ck.stage, passed |-> ck.passed]
               n == Len(cks) + 1
    <2>1. /\ DOMAIN Append(cks, ck) = 1..n
          /\ \A i \in 1..Len(cks) : Append(cks, ck)[i] = cks[i]
          /\ Append(cks, ck)[n] = ck
      OBVIOUS
    <2>2. Append(Seen(cks), seen) = [i \in 1..n |-> IF i = n THEN seen ELSE Seen(cks)[i]]
      BY <1>1, <1>2, <1>3
    <2>3. ASSUME NEW i \in 1..n
          PROVE  [stage |-> Append(cks, ck)[i].stage, passed |-> Append(cks, ck)[i].passed] =
                    (IF i = n THEN seen ELSE Seen(cks)[i])
      <3>1. CASE i = n
        BY <2>1, <3>1
      <3>2. CASE i # n
        <4>1. i \in 1..Len(cks)
          BY <1>1, <3>2
        <4> QED
          BY <1>1, <2>1, <3>2, <4>1
      <3> QED
        BY <3>1, <3>2
    <2> HIDE DEF n, seen
    <2> QED
      BY <2>1, <2>2, <2>3 DEF Seen, seen
  <1> QED
    BY <1>5, <1>6

\* What the abstract specification says of states and transitions is what the
\* aggregate says.
LEMMA SeenTransitions ==
    /\ \A state, target : CanTransition(state, target) => Reader!CanTransition(state, target)
    /\ \A stage \in Stages : Reader!StateForStage(stage) = StateForStage(stage)
    /\ Reader!InterruptedStates = InterruptedStates
  BY DEF CanTransition, NextStates, InterruptedStates, ActiveStates, Reader!CanTransition,
     Reader!NextStates, Reader!InterruptedStates, Reader!ActiveStates, StateForStage,
     Reader!StateForStage, Stages, AgentStages

\* What a step of the lifecycle is when a run is there before and after.
LEMMA SeenRun ==
    ASSUME run # None, run' # None, run \in Run, run' \in Run,
           \/ run'.state = run.state /\ run'.checkpoints = run.checkpoints
           \/ /\ run'.checkpoints = run.checkpoints
              /\ \/ /\ NextStage(run.checkpoints) # "done"
                    /\ \/ run'.state = StateForStage(NextStage(run.checkpoints))
                       \/ /\ run'.state = "needs_research"
                          /\ NextStage(run.checkpoints) = "collect"
                    /\ CanTransition(run.state, run'.state)
                 \/ /\ run'.state \in InterruptedStates
                    /\ CanTransition(run.state, run'.state)
                 \/ /\ run.state \in InterruptedStates
                    /\ NextStage(run.checkpoints) # "done"
                    /\ run'.state = StateForStage(NextStage(run.checkpoints))
                 \/ /\ run'.state = "completed"
                    /\ NextStage(run.checkpoints) = "done"
                    /\ CanTransition(run.state, run'.state)
           \/ /\ NextStage(run.checkpoints) # "done"
              /\ run.state = StateForStage(NextStage(run.checkpoints))
              /\ run'.state = run.state
              /\ \E ck \in Checkpoint :
                    /\ ck.stage = NextStage(run.checkpoints)
                    /\ ck.passed => ck.stage = "verify"
                    /\ run'.checkpoints = Append(run.checkpoints, ck)
    PROVE  [Reader!Next]_(Reader!lifecycle)
  <1> DEFINE cks == run.checkpoints
             stage == NextStage(cks)
             seen == Seen(cks)
             seenAfter == Seen(run'.checkpoints)
  <1>1. cks \in Seq(Checkpoint) /\ stage \in Stages \cup {"done"}
    BY StageFacts DEF Run
  <1>2. /\ Reader!NextStage(seen) = stage
        /\ \A ck \in Checkpoint : Seen(Append(cks, ck)) =
                 Append(seen, [stage |-> ck.stage, passed |-> ck.passed])
    BY <1>1, SeenStage
  <1>3. /\ (IF run = None THEN <<>>
             ELSE [i \in DOMAIN run.checkpoints |->
                      [stage  |-> run.checkpoints[i].stage,
                       passed |-> run.checkpoints[i].passed]]) = seen
        /\ (IF run' = None THEN <<>>
             ELSE [i \in DOMAIN run'.checkpoints |->
                      [stage  |-> run'.checkpoints[i].stage,
                       passed |-> run'.checkpoints[i].passed]]) = seenAfter
        /\ (IF run = None THEN "absent" ELSE run.state) = run.state
        /\ (IF run' = None THEN "absent" ELSE run'.state) = run'.state
    BY DEF Seen
  <1>4. stage # "done" => Reader!StateForStage(stage) = StateForStage(stage)
    BY <1>1, SeenTransitions
  <1> HIDE DEF cks, seen, seenAfter, stage
  <1>5. CASE run'.state = run.state /\ run'.checkpoints = run.checkpoints
    <2>1. seenAfter = seen
      BY <1>5 DEF seen, seenAfter, cks
    <2> QED
      BY <1>3, <1>5, <2>1 DEF Reader!lifecycle
  <1>6. CASE run'.checkpoints = cks
    <2>1. seenAfter = seen
      BY <1>6 DEF seen, seenAfter
    <2>2. ASSUME stage # "done",
                 run'.state = StateForStage(stage)
                    \/ (run'.state = "needs_research" /\ stage = "collect"),
                 CanTransition(run.state, run'.state)
          PROVE  Reader!Enter
      BY <1>2, <1>3, <1>4, <2>1, <2>2, SeenTransitions DEF Reader!Enter
    <2>3. ASSUME run'.state \in InterruptedStates, CanTransition(run.state, run'.state)
          PROVE  Reader!Interrupt
      BY <1>3, <2>1, <2>3, SeenTransitions DEF Reader!Interrupt
    <2>4. ASSUME run.state \in InterruptedStates, stage # "done",
                 run'.state = StateForStage(stage)
          PROVE  Reader!Reopen
      BY <1>2, <1>3, <1>4, <2>1, <2>4, SeenTransitions DEF Reader!Reopen
    <2>5. ASSUME run'.state = "completed", stage = "done", CanTransition(run.state, run'.state)
          PROVE  Reader!Complete
      BY <1>2, <1>3, <2>1, <2>5, SeenTransitions, SMTT(30) DEF Reader!Complete
    <2> QED
      BY <1>5, <1>6, <2>2, <2>3, <2>4, <2>5 DEF Reader!Next, stage, cks
  <1>7. ASSUME stage # "done", run.state = StateForStage(stage), run'.state = run.state,
               NEW ck \in Checkpoint, ck.stage = stage, ck.passed => ck.stage = "verify",
               run'.checkpoints = Append(cks, ck)
        PROVE  Reader!Record
    <2>1. seenAfter = Append(seen, [stage |-> stage, passed |-> ck.passed])
      BY <1>2, <1>7 DEF seenAfter
    <2>2. ck.passed \in BOOLEAN
      BY DEF Checkpoint
    <2> QED
      BY <1>2, <1>3, <1>4, <1>7, <2>1, <2>2 DEF Reader!Record
  <1> QED
    BY <1>5, <1>6, <1>7 DEF Reader!Next, stage, cks

\* Every step of a live process shows a reader a step of the lifecycle, or none.
LEMMA StepSeen ==
    ASSUME Base, NEW p \in Procs, Step(p)
    PROVE  [Reader!Next]_(Reader!lifecycle)
  <1>1. /\ run = loc[p] /\ run # None /\ run \in Run /\ run' \in Run /\ run' # None
        /\ pc[p] \notin Idle
    BY StepKinds, ConstantsAssumption
  <1>2. Stage(p) = NextStage(run.checkpoints) /\ ProcLegal(p)
    BY <1>1 DEF Stage, Base, StageInv
  <1>3. CASE IdleStep(p) \/ ReportConflict(p) \/ Reply(p)
    <2>1. run'.state = run.state /\ run'.checkpoints = run.checkpoints
      BY <1>3, StepKinds, ChainKept DEF Step
    <2> QED
      BY <1>1, <2>1, SeenRun
  <1>4. CASE Attempt(p)
    <2>1. run'.state = run.state /\ run'.checkpoints = run.checkpoints
      BY <1>1, <1>4, StepKinds DEF Run
    <2> QED
      BY <1>1, <2>1, SeenRun
  <1>5. CASE WriteCheckpoint(p)
    <2>1. PICK ck \in Checkpoint :
              /\ NextStage(run.checkpoints) # "done"
              /\ run.state = StateForStage(NextStage(run.checkpoints))
              /\ ck.stage = NextStage(run.checkpoints)
              /\ ck.passed => ck.stage = "verify"
              /\ run'.checkpoints = Append(run.checkpoints, ck)
              /\ run'.state = run.state
      <3>1. PICK ck \in Checkpoint :
              /\ NextStage(run.checkpoints) # "done"
              /\ run.state = StateForStage(NextStage(run.checkpoints))
              /\ ck = [stage  |-> Stage(p),
                       claims |-> IF Stage(p) = "analyze" THEN job[p].ids ELSE <<>>,
                       passed |-> Stage(p) = "verify" /\ job[p].passed]
              /\ run'.checkpoints = Append(run.checkpoints, ck)
              /\ run'.state = run.state
        BY <1>5, ChainGrows
      <3>2. ck.stage = Stage(p) /\ (ck.passed => ck.stage = "verify")
        BY <3>1
      <3> QED
        BY <1>2, <3>1, <3>2
    <2> QED
      BY <1>1, <2>1, SeenRun
  <1>6. CASE StateStep(p)
    <2>1. PICK t \in States : run' = [run EXCEPT !.state = t]
      BY <1>6, StepKinds
    <2>2. run'.state = t /\ run'.checkpoints = run.checkpoints
      BY <1>1, <2>1 DEF Run
    <2>3. CASE Reopen(p)
      <3>1. /\ run.state \in InterruptedStates /\ Stage(p) # "done"
            /\ run' = [run EXCEPT !.state = StateForStage(Stage(p))]
        BY <1>1, <2>3 DEF Reopen, Save
      <3>2. run'.state = StateForStage(Stage(p))
        BY <1>1, <3>1 DEF Run
      <3> QED
        BY <1>1, <1>2, <2>2, <3>1, <3>2, SeenRun
    <2>4. CASE ~Reopen(p)
      <3>1. PICK target :
              /\ CanTransition(run.state, target)
              /\ run' = [run EXCEPT !.state = target]
              /\ \/ target \in InterruptedStates
                 \/ NeedsResearch(p) /\ target = "needs_research"
                 \/ EnterStage(p) /\ target = StateForStage(Stage(p))
                 \/ Complete(p) /\ target = "completed"
        <4>1. PICK target :
                /\ Transition(p, target)
                /\ \/ target \in InterruptedStates
                   \/ NeedsResearch(p) /\ target = "needs_research"
                   \/ EnterStage(p) /\ target = StateForStage(Stage(p))
                   \/ Complete(p) /\ target = "completed"
          BY <1>6, <2>4 DEF StateStep, AskUser, Unsupported, NeedsResearch, EnterStage,
             Complete, Cancel, Fail, InterruptedStates
        <4>2. CanTransition(run.state, target) /\ run' = [run EXCEPT !.state = target]
          BY <1>1, <4>1 DEF Transition, Save
        <4> QED
          BY <4>1, <4>2
      <3>2. run'.state = target
        BY <1>1, <3>1 DEF Run
      <3>3. /\ NeedsResearch(p) => Stage(p) = "collect"
            /\ EnterStage(p) => Stage(p) # "done"
            /\ Complete(p) => Stage(p) = "done"
        BY DEF NeedsResearch, EnterStage, Complete
      <3> QED
        BY <1>1, <1>2, <2>2, <3>1, <3>2, <3>3, SeenRun
    <2> QED
      BY <2>3, <2>4
  <1> QED
    BY <1>3, <1>4, <1>5, <1>6, StepKinds

\* Every step is one that RunLifecycle lets a reader of run.md expect.
LEMMA NextSeen ==
    ASSUME Base, [Next]_vars
    PROVE  [Reader!Next]_(Reader!lifecycle)
  <1>1. CASE Next
    <2>1. PICK p \in Procs : Start(p) \/ Load(p) \/ Step(p) \/ Crash(p)
      BY <1>1 DEF Next
    <2>2. CASE Start(p)
      <3>1. run = None /\ run' = FreshRun
        BY <2>2, CallKinds
      <3>2. FreshRun # None
        <4>1. FreshRun \in Run
          BY DEF FreshRun, Run, States, ActiveStates
        <4> QED
          BY <4>1, ConstantsAssumption
      <3>3. FreshRun.state = "created" /\ FreshRun.checkpoints = <<>>
        BY DEF FreshRun
      <3>4. Seen(<<>>) = <<>>
        BY DEF Seen
      <3>5. /\ (IF run = None THEN "absent" ELSE run.state) = "absent"
            /\ (IF run' = None THEN "absent" ELSE run'.state) = "created"
            /\ (IF run = None THEN <<>>
                ELSE [i \in DOMAIN run.checkpoints |->
                         [stage  |-> run.checkpoints[i].stage,
                          passed |-> run.checkpoints[i].passed]]) = <<>>
            /\ (IF run' = None THEN <<>>
                ELSE [i \in DOMAIN run'.checkpoints |->
                         [stage  |-> run'.checkpoints[i].stage,
                          passed |-> run'.checkpoints[i].passed]]) = Seen(run'.checkpoints)
        BY <3>1, <3>2, <3>3 DEF Seen
      <3>6. Reader!Create
        BY <3>1, <3>3, <3>4, <3>5 DEF Reader!Create
      <3> QED
        BY <3>6 DEF Reader!Next
    <2>3. CASE Load(p) \/ Crash(p)
      <3>1. run' = run
        BY <2>3, CallKinds
      <3> QED
        BY <3>1 DEF Reader!lifecycle
    <2>4. CASE Step(p)
      BY <2>4, StepSeen
    <2> QED
      BY <2>1, <2>2, <2>3, <2>4
  <1>2. CASE UNCHANGED vars
    BY <1>2 DEF vars, Reader!lifecycle
  <1> QED
    BY <1>1, <1>2

\* While one process at a time drives the run, run.md only ever changes the way
\* RunLifecycle lets a reader expect, whatever crashes and retries the run goes
\* through (docs/06-markdown-storage.md, "workflow checkpoint").
THEOREM SoloImplementsLifecycle == SoloSpec => ImplementsLifecycle
  <1>1. Init => Reader!Init
    BY DEF Init, Reader!Init
  <1>2. Base /\ [Next]_vars => [Reader!Next]_(Reader!lifecycle)
    BY NextSeen
  <1> QED
    BY <1>1, <1>2, SoloInSync, PTL DEF SoloSpec, Spec, ImplementsLifecycle, Reader!Spec

-----------------------------------------------------------------------------
(* The verified claims.                                                    *)

\* The latest analysis is the one no later analysis follows.
LEMMA LatestIs ==
    ASSUME NEW cks \in Seq(Checkpoint), NEW n \in StagesOf(cks, "analyze"),
           \A j \in StagesOf(cks, "analyze") : j <= n
    PROVE  LatestClaims(cks) = cks[n].claims
  <1> DEFINE IsLast(i) == \A j \in StagesOf(cks, "analyze") : j <= i
             last == CHOOSE i \in StagesOf(cks, "analyze") : IsLast(i)
  <1>1. last \in StagesOf(cks, "analyze") /\ IsLast(last)
    OBVIOUS
  <1>2. \A i \in StagesOf(cks, "analyze") : i \in Nat
    BY DEF StagesOf
  <1>3. last = n
    BY <1>1, <1>2
  <1> QED
    BY <1>3 DEF LatestClaims

\* Where the latest analysis is: last before its verification, and followed by
\* the verification, and the synthesis, of a run that passed.
LEMMA LatestAt ==
    ASSUME NEW cks \in Seq(Checkpoint), Chain(cks)
    PROVE  /\ NextStage(cks) = "verify" =>
                 /\ Len(cks) >= 1 /\ cks[Len(cks)].stage = "analyze"
                 /\ LatestClaims(cks) = cks[Len(cks)].claims
           /\ NextStage(cks) = "synthesize" =>
                 /\ Len(cks) >= 2 /\ cks[Len(cks) - 1].stage = "analyze"
                 /\ LatestClaims(cks) = cks[Len(cks) - 1].claims
           /\ NextStage(cks) = "done" =>
                 /\ Len(cks) >= 3 /\ cks[Len(cks) - 2].stage = "analyze"
                 /\ LatestClaims(cks) = cks[Len(cks) - 2].claims
  <1> DEFINE n == Len(cks)
  <1>1. n \in Nat /\ DOMAIN cks = 1..n /\ (cks = <<>> <=> n = 0)
    OBVIOUS
  <1>2. \A j \in StagesOf(cks, "analyze") : j \in 1..n /\ cks[j].stage = "analyze"
    BY DEF StagesOf
  <1>3. \A i \in 1..n : cks[i].stage = "analyze" => i \in StagesOf(cks, "analyze")
    BY DEF StagesOf
  <1>4. ASSUME NextStage(cks) = "verify"
        PROVE  n >= 1 /\ cks[n].stage = "analyze" /\ LatestClaims(cks) = cks[n].claims
    <2>1. n >= 1 /\ cks[n].stage = "analyze"
      BY <1>1, <1>4, StageTyped, StageFacts DEF Latest
    <2>2. n \in StagesOf(cks, "analyze") /\ \A j \in StagesOf(cks, "analyze") : j <= n
      BY <1>1, <1>2, <1>3, <2>1
    <2> QED
      BY <2>1, <2>2, LatestIs
  <1>5. ASSUME NextStage(cks) = "synthesize"
        PROVE  /\ n >= 2 /\ cks[n - 1].stage = "analyze"
               /\ LatestClaims(cks) = cks[n - 1].claims
    <2>1. n >= 1 /\ cks[n].stage = "verify"
      <3>1. cks # <<>> /\ Follows(Latest(cks), "synthesize")
        BY <1>5, StageFacts
      <3> QED
        BY <1>1, <3>1 DEF Follows, Latest
    <2>2. n > 1
      <3>1. cks[1].stage = "plan"
        BY <1>1, <2>1 DEF Chain
      <3> QED
        BY <1>1, <2>1, <3>1
    <2>3. cks[n - 1].stage = "analyze"
      <3>1. Follows(cks[n - 1], "verify")
        BY <1>1, <2>1, <2>2 DEF Chain
      <3> QED
        BY <3>1 DEF Follows
    <2>4. n - 1 \in StagesOf(cks, "analyze") /\ \A j \in StagesOf(cks, "analyze") : j <= n - 1
      BY <1>1, <1>2, <1>3, <2>1, <2>2, <2>3
    <2> HIDE DEF n
    <2>5. LatestClaims(cks) = cks[n - 1].claims
      BY <2>4, LatestIs
    <2> QED
      BY <1>1, <2>2, <2>3, <2>5
  <1>6. ASSUME NextStage(cks) = "done"
        PROVE  /\ n >= 3 /\ cks[n - 2].stage = "analyze"
               /\ LatestClaims(cks) = cks[n - 2].claims
    <2>1. /\ n >= 5 /\ cks[n - 2].stage = "analyze"
          /\ cks[n - 1].stage = "verify" /\ cks[n].stage = "synthesize"
      BY <1>6, ChainEnds
    <2>2. n - 2 \in StagesOf(cks, "analyze") /\ \A j \in StagesOf(cks, "analyze") : j <= n - 2
      BY <1>1, <1>2, <1>3, <2>1
    <2> HIDE DEF n
    <2>3. LatestClaims(cks) = cks[n - 2].claims
      BY <2>2, LatestIs
    <2> QED
      BY <1>1, <2>1, <2>3
  <1> QED
    BY <1>4, <1>5, <1>6

\* Recording a verdict or a synthesis leaves the latest analysis what it was.
LEMMA LatestKept ==
    ASSUME NEW cks \in Seq(Checkpoint), Chain(cks), NEW ck \in Checkpoint,
           ck.stage = NextStage(cks), ck.stage \in {"verify", "synthesize"},
           ck.stage = "verify" => ck.passed
    PROVE  /\ LatestClaims(Append(cks, ck)) = LatestClaims(cks)
           /\ NextStage(Append(cks, ck)) =
                 IF ck.stage = "verify" THEN "synthesize" ELSE "done"
  <1> DEFINE after == Append(cks, ck)
             n == Len(cks)
  <1>1. /\ after \in Seq(Checkpoint) /\ Len(after) = n + 1 /\ n \in Nat
        /\ \A i \in 1..n : after[i] = cks[i]
        /\ after[n + 1] = ck /\ after # <<>>
    OBVIOUS
  <1> HIDE DEF after
  <1>2. Chain(after)
    BY ChainExtends DEF after
  <1>3. NextStage(after) = IF ck.stage = "verify" THEN "synthesize" ELSE "done"
    BY <1>1 DEF NextStage, Latest
  <1>4. LatestClaims(after) = LatestClaims(cks)
    <2>1. CASE ck.stage = "verify"
      <3>1. n >= 1 /\ LatestClaims(cks) = cks[n].claims
        BY <2>1, LatestAt
      <3>2. LatestClaims(after) = after[n + 1 - 1].claims
        BY <1>1, <1>2, <1>3, <2>1, LatestAt
      <3> QED
        BY <1>1, <3>1, <3>2
    <2>2. CASE ck.stage = "synthesize"
      <3>1. n >= 2 /\ LatestClaims(cks) = cks[n - 1].claims
        BY <2>2, LatestAt
      <3>2. LatestClaims(after) = after[n + 1 - 2].claims
        BY <1>1, <1>2, <1>3, <2>2, LatestAt
      <3>3. n + 1 - 2 = n - 1 /\ n - 1 \in 1..n
        BY <1>1, <3>1
      <3> QED
        BY <1>1, <3>1, <3>2, <3>3
    <2> QED
      BY <2>1, <2>2
  <1> QED
    BY <1>3, <1>4 DEF after

\* The claims of the latest analysis exist while their verdict is awaited.
LEMMA AnalyzedExist ==
    ASSUME Base, run # None, NextStage(run.checkpoints) = "verify"
    PROVE  /\ LatestClaims(run.checkpoints) \in Seq(Nat)
           /\ Analyzed(run.checkpoints) \subseteq DOMAIN claims
  <1> DEFINE cks == run.checkpoints
             ids == LatestClaims(cks)
  <1>1. run \in Run /\ GoodRun(run) /\ Chain(cks) /\ cks \in Seq(Checkpoint)
    BY DEF Base, IInv, GoodRun, Run, StageInv, RunLegal
  <1>2. Len(cks) >= 1 /\ cks[Len(cks)].stage = "analyze" /\ ids = cks[Len(cks)].claims
    BY <1>1, LatestAt
  <1>3. Len(cks) \in DOMAIN cks /\ cks[Len(cks)] \in Checkpoint
    BY <1>1, <1>2
  <1>4. CheckpointBacked(cks, Len(cks))
    BY <1>1, <1>3 DEF GoodRun
  <1> HIDE DEF ids, cks
  <1>5. \A k \in DOMAIN ids : ids[k] \in DOMAIN claims
    BY <1>2, <1>4 DEF CheckpointBacked
  <1>6. ids \in Seq(Nat)
    BY <1>2, <1>3 DEF Checkpoint
  <1> QED
    BY <1>5, <1>6 DEF Analyzed, Elems, ids, cks

\* verification.md is written by one action only.
LEMMA VerdictKept ==
    ASSUME NEW p \in Procs, Start(p) \/ Load(p) \/ Step(p) \/ Crash(p),
           ~SaveVerification(p)
    PROVE  verification' = verification
  <1>1. CASE Start(p) \/ Load(p) \/ Crash(p)
    BY <1>1 DEF Start, Load, Crash, files
  <1>2. CASE AskUser(p) \/ Unsupported(p) \/ Proceed(p) \/ ResumeReturns(p) \/ Reopen(p)
             \/ Rejoin(p) \/ NeedsResearch(p) \/ EnterStage(p) \/ Complete(p)
             \/ Collect(p) \/ CollectFails(p) \/ Attempt(p) \/ Reply(p) \/ Cancel(p)
    BY <1>2 DEF AskUser, Unsupported, Proceed, ResumeReturns, Reopen, Rejoin, NeedsResearch,
       EnterStage, Complete, Collect, CollectFails, Attempt, Reply, Cancel, files
  <1>3. CASE RejectOutput(p) \/ SavePlan(p) \/ PlanConflict(p) \/ Analyze(p) \/ AddClaim(p)
             \/ AddScenario(p) \/ AddArtifact(p) \/ Judge(p) \/ MarkClaim(p) \/ Finalize(p)
             \/ SaveOutput(p) \/ SaveReport(p) \/ ReportConflict(p) \/ WriteCheckpoint(p)
             \/ Fail(p) \/ SaveLimitation(p)
    BY <1>3 DEF RejectOutput, SavePlan, PlanConflict, Analyze, AddClaim, AddScenario,
       AddArtifact, Judge, MarkClaim, Finalize, SaveOutput, SaveReport, ReportConflict,
       WriteCheckpoint, Fail, SaveLimitation, files
  <1> QED
    BY <1>1, <1>2, <1>3 DEF Step

\* A call is ready to record a plan, a verdict or a synthesis once it has written it.
LEMMA RecordingComesFrom ==
    ASSUME IInv, NEW p \in Procs, Start(p) \/ Load(p) \/ Step(p) \/ Crash(p),
           ~SavePlan(p), ~SaveVerification(p), ~SaveReport(p)
    PROVE  pc'[p] # "checkpoint"
  <1>0. pc \in [Procs -> Labels]
    BY DEF IInv, MapsOK
  <1>1. CASE Start(p) \/ Load(p) \/ Crash(p)
    BY <1>0, <1>1 DEF Start, Load, Crash, Goto
  <1>2. CASE AskUser(p) \/ Unsupported(p) \/ Proceed(p) \/ ResumeReturns(p) \/ Reopen(p)
             \/ Rejoin(p) \/ NeedsResearch(p) \/ EnterStage(p) \/ Complete(p)
             \/ Collect(p) \/ CollectFails(p) \/ Attempt(p) \/ Cancel(p) \/ AddArtifact(p)
    BY <1>0, <1>2, SMTT(30) DEF AskUser, Unsupported, Proceed, ResumeReturns, Reopen, Rejoin,
       NeedsResearch, EnterStage, Complete, Collect, CollectFails, Attempt, Cancel,
       AddArtifact, Goto
  <1>3. CASE RejectOutput(p) \/ PlanConflict(p) \/ Analyze(p) \/ AddScenario(p)
             \/ Judge(p) \/ MarkClaim(p) \/ Finalize(p) \/ SaveOutput(p)
             \/ ReportConflict(p) \/ WriteCheckpoint(p) \/ Fail(p)
             \/ SaveLimitation(p) \/ AddClaim(p)
    BY <1>0, <1>3 DEF RejectOutput, PlanConflict, Analyze, AddScenario, Judge, MarkClaim,
       Finalize, SaveOutput, ReportConflict, WriteCheckpoint, Fail, SaveLimitation,
       AddClaim, Goto
  <1>4. CASE Reply(p)
    BY <1>4, StepKinds DEF Reply, AfterReply, Goto
  <1> QED
    BY <1>1, <1>2, <1>3, <1>4 DEF Step

\* What a step of p has to establish of the verified claims.
VerifiedStep(p) ==
    /\ run' # None /\ VerifiedAt(run.checkpoints)'
    /\ pc'[p] = "judging" => Marking(p)'
    /\ pc'[p] = "checkpoint" /\ Stage(p)' = "verify" => Marked(p)'

\* Most steps touch neither the claims nor the verdict nor the checkpoints.
LEMMA OtherVerified ==
    ASSUME Base, VerifiedInv, NEW p \in Procs, Load(p) \/ Step(p) \/ Crash(p),
           ~AddClaim(p), ~Judge(p), ~MarkClaim(p), ~SaveVerification(p), ~WriteCheckpoint(p)
    PROVE  VerifiedStep(p)
  <1>1. IInv /\ run # None
    BY CallKinds, StepKinds, LiveRun DEF Base, InSync, Crash
  <1>2. run' # None /\ run'.checkpoints = run.checkpoints
    BY <1>1, ChainKept
  <1>3. claims' = claims /\ verification' = verification
    <2>1. AddArtifact(p) => claims' = claims
      BY DEF AddArtifact
    <2> QED
      BY <2>1, OtherActions, VerdictKept
  <1>4. VerifiedAt(run.checkpoints)'
    BY <1>1, <1>2, <1>3 DEF VerifiedInv, VerifiedAt, Verified
  <1>5. pc'[p] # "judging"
    BY <1>1, JudgingComesFrom
  <1>6. ASSUME pc'[p] = "checkpoint" PROVE Stage(p)' # "verify"
    <2>1. SavePlan(p) \/ SaveReport(p)
      BY <1>1, <1>6, RecordingComesFrom
    <2>2. CASE SavePlan(p)
      BY <2>2 DEF SavePlan, Stage
    <2>3. CASE SaveReport(p)
      <3>1. Stage(p) = "synthesize" /\ loc' = loc
        BY <1>1, <2>3 DEF SaveReport, IInv, ProcOK, WorkDone
      <3> QED
        BY <3>1 DEF Stage
    <2> QED
      BY <2>1, <2>2, <2>3
  <1> QED
    BY <1>2, <1>4, <1>5, <1>6 DEF VerifiedStep

\* A claim is written while nothing is verified, and is not verified either.
LEMMA AddVerified ==
    ASSUME Base, VerifiedInv, NEW p \in Procs, AddClaim(p)
    PROVE  VerifiedStep(p)
  <1>1. /\ pc[p] = "analyzing" /\ pc' = pc /\ loc' = loc /\ run' = run
        /\ run = loc[p] /\ run # None /\ claims \in Seq(ClaimRecord)
    BY StepKinds DEF AddClaim, Base, IInv, FilesOK, Step
  <1>2. NextStage(run.checkpoints) = "analyze"
    BY <1>1 DEF Base, IInv, ProcOK, WorkDone, Stage
  <1>3. Verified = {}
    BY <1>1, <1>2 DEF VerifiedInv, VerifiedAt
  <1>4. PICK c : claims' = Append(claims, c) /\ c.status = "proposed"
    BY DEF AddClaim
  <1>5. Verified' = {}
    BY <1>1, <1>3, <1>4 DEF Verified
  <1> QED
    BY <1>1, <1>2, <1>5 DEF VerifiedStep, VerifiedAt

\* A verdict is passed on the claims of the latest analysis, all of them.
LEMMA JudgeVerified ==
    ASSUME Base, VerifiedInv, NEW p \in Procs, Judge(p)
    PROVE  VerifiedStep(p)
  <1> DEFINE ids == LatestClaims(run.checkpoints)
  <1>1. /\ pc[p] = "accept" /\ Stage(p) = "verify" /\ run' = run /\ loc' = loc
        /\ run = loc[p] /\ run # None /\ JobOK(p) /\ DOMAIN job = Procs
        /\ claims' = claims /\ verification' = verification /\ pc'[p] = "judging"
    BY StepKinds DEF Judge, Step, Base, IInv, MapsOK, ProcOK, files, Goto
  <1>2. NextStage(run.checkpoints) = "verify"
    BY <1>1 DEF Stage
  <1>3. PICK passed \in BOOLEAN :
          /\ job' = [job EXCEPT ![p].todo = ids, ![p].ids = ids, ![p].passed = passed]
          /\ passed => ids # <<>>
    BY <1>1 DEF Judge, DeterministicPass
  <1>4. job'[p].todo = ids /\ job'[p].ids = ids /\ job'[p].passed = passed
    BY <1>1, <1>3 DEF JobOK
  <1>5. Verified' = Verified /\ Verified \subseteq Elems(ids)
    BY <1>1, <1>2 DEF Verified, VerifiedInv, VerifiedAt, Analyzed
  <1>6. ids # <<>> => Elems(ids) # {}
    <2>1. ids \in Seq(Nat)
      BY <1>1, <1>2, AnalyzedExist
    <2> HIDE DEF ids
    <2>2. ids # <<>> => 1 \in DOMAIN ids
      BY <2>1
    <2> QED
      BY <2>2 DEF Elems
  <1>7. ids = LatestClaims(loc'[p].checkpoints)
    BY <1>1, SMTT(30)
  <1> HIDE DEF ids
  <1>8. Marking(p)'
    <2>1. Elems(job'[p].ids) = Elems(ids) /\ Elems(job'[p].todo) = Elems(ids)
      BY <1>4
    <2> QED
      BY <1>3, <1>4, <1>5, <1>6, <1>7, <2>1 DEF Marking, Elems
  <1>9. VerifiedAt(run.checkpoints)'
    BY <1>1, <1>2, <1>5 DEF VerifiedAt, Analyzed, ids
  <1> QED
    BY <1>1, <1>8, <1>9 DEF VerifiedStep

\* One claim of the verdict is marked; the rest is still to be.
LEMMA MarkVerified ==
    ASSUME Base, VerifiedInv, NEW p \in Procs, MarkClaim(p)
    PROVE  VerifiedStep(p)
  <1> DEFINE todo == job[p].todo
             ids == job[p].ids
             c == Head(todo)
  <1>1. /\ pc[p] = "judging" /\ todo # <<>> /\ pc' = pc /\ loc' = loc /\ run' = run
        /\ run = loc[p] /\ run # None /\ JobOK(p) /\ DOMAIN job = Procs
        /\ verification' = verification /\ claims \in Seq(ClaimRecord)
        /\ claims' = [claims EXCEPT ![c].status =
                          IF job[p].passed THEN "verified" ELSE "rejected"]
        /\ job' = [job EXCEPT ![p].todo = Tail(todo)]
    BY StepKinds DEF MarkClaim, Step, Base, IInv, MapsOK, ProcOK, FilesOK
  <1>2. NextStage(run.checkpoints) = "verify"
    BY <1>1 DEF Base, IInv, ProcOK, WorkDone, Stage
  <1>3. Marking(p) /\ Verified \subseteq Analyzed(run.checkpoints)
    BY <1>1, <1>2 DEF VerifiedInv, VerifiedAt
  <1>4. /\ todo \in Seq(Nat)
        /\ job'[p].todo = Tail(todo) /\ job'[p].ids = ids /\ job'[p].passed = job[p].passed
    BY <1>1 DEF JobOK
  <1>5. ids = LatestClaims(run.checkpoints) /\ Elems(ids) \subseteq DOMAIN claims
    BY <1>1, <1>2, <1>3, AnalyzedExist DEF Marking, Analyzed
  <1>6. Elems(todo) = {c} \cup Elems(Tail(todo))
    <2> HIDE DEF todo
    <2>1. /\ DOMAIN todo = 1..Len(todo) /\ Len(todo) \in Nat \ {0} /\ todo[1] = c
          /\ DOMAIN Tail(todo) = 1..(Len(todo) - 1)
          /\ \A k \in 1..(Len(todo) - 1) : Tail(todo)[k] = todo[k + 1]
      BY <1>1, <1>4 DEF todo
    <2>2. ASSUME NEW k \in 1..Len(todo), k # 1 PROVE todo[k] \in Elems(Tail(todo))
      <3>1. k - 1 \in DOMAIN Tail(todo) /\ Tail(todo)[k - 1] = todo[k]
        BY <2>1, <2>2
      <3> QED
        BY <3>1 DEF Elems
    <2>3. ASSUME NEW k \in DOMAIN Tail(todo) PROVE Tail(todo)[k] \in Elems(todo)
      <3>1. k + 1 \in DOMAIN todo /\ Tail(todo)[k] = todo[k + 1]
        BY <2>1, <2>3
      <3> QED
        BY <3>1 DEF Elems
    <2>4. c \in Elems(todo)
      BY <2>1 DEF Elems
    <2> QED
      BY <2>1, <2>2, <2>3, <2>4 DEF Elems
  <1>7. c \in Elems(ids) /\ c \in DOMAIN claims
    BY <1>3, <1>5, <1>6 DEF Marking
  <1>8. Verified' = IF job[p].passed THEN Verified \cup {c} ELSE Verified \ {c}
    <2>1. DOMAIN claims' = DOMAIN claims
      BY <1>1
    <2>2. /\ claims'[c].status = IF job[p].passed THEN "verified" ELSE "rejected"
          /\ \A i \in DOMAIN claims : i # c => claims'[i] = claims[i]
      BY <1>1, <1>7 DEF ClaimRecord
    <2> HIDE DEF c
    <2> QED
      BY <1>7, <2>1, <2>2 DEF Verified
  <1> HIDE DEF c, todo, ids
  <1>9. Marking(p)'
    <2>1. job'[p].ids = LatestClaims(loc'[p].checkpoints)
      BY <1>1, <1>4, <1>5
    <2>2. Elems(Tail(todo)) \subseteq Elems(ids)
      BY <1>3, <1>6 DEF Marking, todo, ids
    <2>3. /\ job[p].passed =>
                Elems(ids) # {} /\ Elems(ids) \subseteq Verified' \cup Elems(Tail(todo))
          /\ ~job[p].passed => Verified' \subseteq Elems(Tail(todo))
      BY <1>3, <1>6, <1>8 DEF Marking, todo, ids
    <2>4. Elems(job'[p].ids) = Elems(ids) /\ Elems(job'[p].todo) = Elems(Tail(todo))
      BY <1>4
    <2> QED
      BY <1>4, <2>1, <2>2, <2>3, <2>4 DEF Marking, Elems
  <1>10. VerifiedAt(run.checkpoints)'
    <2>1. Verified' \subseteq Analyzed(run.checkpoints)
      BY <1>3, <1>5, <1>7, <1>8 DEF Analyzed
    <2> QED
      BY <1>1, <1>2, <2>1 DEF VerifiedAt, Analyzed, Elems
  <1> QED
    BY <1>1, <1>9, <1>10 DEF VerifiedStep

\* When the verdict is saved the claims it is about are the verified ones, or none is.
LEMMA SaveVerified ==
    ASSUME Base, VerifiedInv, NEW p \in Procs, SaveVerification(p)
    PROVE  VerifiedStep(p)
  <1>1. /\ pc[p] = "judging" /\ job[p].todo = <<>> /\ pc'[p] = "checkpoint"
        /\ loc' = loc /\ run' = run /\ job' = job /\ claims' = claims
        /\ run = loc[p] /\ run # None
        /\ verification' = [passed |-> job[p].passed, claims |-> job[p].ids]
    BY StepKinds DEF SaveVerification, Step, Base, IInv, MapsOK, Goto
  <1>2. NextStage(run.checkpoints) = "verify"
    BY <1>1 DEF Base, IInv, ProcOK, WorkDone, Stage
  <1>3. Marking(p) /\ Verified \subseteq Analyzed(run.checkpoints)
    BY <1>1, <1>2 DEF VerifiedInv, VerifiedAt
  <1>4. Elems(job[p].todo) = {} /\ Verified' = Verified
    BY <1>1 DEF Elems, Verified
  <1>5. Marked(p)'
    <2>1. job[p].ids = LatestClaims(loc[p].checkpoints)
      BY <1>3 DEF Marking
    <2>2. Verified \subseteq Elems(job[p].ids)
      BY <1>1, <1>3, <2>1 DEF Analyzed
    <2>3. /\ job[p].passed => Verified = Elems(job[p].ids) /\ Verified # {}
          /\ ~job[p].passed => Verified = {}
      BY <1>3, <1>4, <2>2 DEF Marking
    <2> QED
      BY <1>1, <1>4, <2>1, <2>3 DEF Marked, Elems
  <1>6. VerifiedAt(run.checkpoints)'
    BY <1>1, <1>2, <1>3, <1>4 DEF VerifiedAt, Analyzed, Elems
  <1> QED
    BY <1>1, <1>5, <1>6 DEF VerifiedStep

\* The stage just recorded leaves verified what the next stage expects.
LEMMA RecordVerified ==
    ASSUME Base, VerifiedInv, NEW p \in Procs, WriteCheckpoint(p)
    PROVE  VerifiedStep(p)
  <1> DEFINE cks == run.checkpoints
             after == run'.checkpoints
             stage == NextStage(cks)
  <1>1. PICK ck \in Checkpoint :
              /\ run' \in Run /\ run # None /\ run \in Run /\ stage # "done"
              /\ ck.stage = stage /\ stage = Stage(p)
              /\ ck.passed = (stage = "verify" /\ job[p].passed)
              /\ after = Append(cks, ck)
    <2>1. PICK ck \in Checkpoint :
              /\ run' \in Run /\ run # None /\ run \in Run /\ stage # "done"
              /\ ck = [stage  |-> Stage(p),
                       claims |-> IF Stage(p) = "analyze" THEN job[p].ids ELSE <<>>,
                       passed |-> Stage(p) = "verify" /\ job[p].passed]
              /\ stage = Stage(p)
              /\ after = Append(cks, ck)
      BY ChainGrows
    <2>2. ck.stage = stage /\ ck.passed = (stage = "verify" /\ job[p].passed)
      BY <2>1
    <2> QED
      BY <2>1, <2>2
  <1>2. /\ claims' = claims /\ verification' = verification /\ run = loc[p]
        /\ pc \in [Procs -> Labels] /\ pc'[p] \in {"fail", "loop"}
        /\ run' # None
    BY StepKinds, ConstantsAssumption DEF WriteCheckpoint, Step, files, Goto, Base, IInv, MapsOK
  <1>3. /\ cks \in Seq(Checkpoint) /\ Chain(cks) /\ VerifiedAt(cks)
        /\ stage \in Stages /\ Verified' = Verified
    BY <1>1, <1>2, StageFacts DEF Base, StageInv, RunLegal, VerifiedInv, Run, Verified
  <1>4. after # <<>> /\ Latest(after) = ck
    BY <1>1, <1>3 DEF Latest
  <1> HIDE DEF cks, after, stage
  <1>5. CASE stage \in {"plan", "collect", "analyze"}
    <2>1. Verified = {}
      BY <1>3, <1>5 DEF VerifiedAt, stage
    <2>2. NextStage(after) \in {"collect", "analyze", "verify"}
      BY <1>1, <1>4, <1>5 DEF NextStage
    <2> QED
      BY <1>2, <1>3, <2>1, <2>2 DEF VerifiedStep, VerifiedAt, after
  <1>6. CASE stage = "verify"
    <2>1. pc[p] = "checkpoint" /\ Stage(p) = "verify"
      BY <1>1, <1>6 DEF WriteCheckpoint, Base, IInv, ProcOK, WorkDone
    <2>2. Marked(p) /\ verification # None
      BY <2>1 DEF VerifiedInv, Base, IInv, ProcOK, WorkDone
    <2>3. CASE job[p].passed
      <3>1. LatestClaims(after) = LatestClaims(cks) /\ NextStage(after) = "synthesize"
        BY <1>1, <1>3, <1>6, <2>3, LatestKept DEF stage
      <3>2. Verified = Analyzed(after) /\ Verified # {} /\ verification.passed
        BY <1>2, <2>2, <2>3, <3>1 DEF Marked, Analyzed, cks
      <3> QED
        BY <1>2, <1>3, <2>2, <3>1, <3>2 DEF VerifiedStep, VerifiedAt, after, Analyzed, Elems
    <2>4. CASE ~job[p].passed
      <3>1. NextStage(after) = "collect" /\ Verified = {}
        BY <1>1, <1>4, <1>6, <2>2, <2>4 DEF NextStage, Marked
      <3> QED
        BY <1>2, <1>3, <3>1 DEF VerifiedStep, VerifiedAt, after
    <2> QED
      BY <2>3, <2>4
  <1>7. CASE stage = "synthesize"
    <2>1. LatestClaims(after) = LatestClaims(cks) /\ NextStage(after) = "done"
      BY <1>1, <1>3, <1>7, LatestKept DEF stage
    <2>2. /\ Verified = Analyzed(after) /\ Verified # {}
          /\ verification # None /\ verification.passed
      BY <1>3, <1>7, <2>1 DEF VerifiedAt, Analyzed, stage
    <2> QED
      BY <1>2, <1>3, <2>1, <2>2 DEF VerifiedStep, VerifiedAt, after, Analyzed, Elems
  <1> QED
    BY <1>3, <1>5, <1>6, <1>7 DEF Stages, AgentStages

\* Verified claims come and go only with the verdict of the live process.
LEMMA NextVerifiedInv ==
    ASSUME Base, VerifiedInv, OneAtATime, OneAtATime', [Next]_vars
    PROVE  VerifiedInv'
  <1>1. CASE Next
    <2>1. PICK p \in Procs : Start(p) \/ Load(p) \/ Step(p) \/ Crash(p)
      BY <1>1 DEF Next
    <2>2. \A q \in Procs \ {p} : pc'[q] \in Idle
      BY <2>1, StepsAlone DEF Base
    <2>3. CASE Start(p)
      <3>1. run = None /\ run' = FreshRun /\ pc'[p] = "created" /\ claims' = claims
        BY <2>3, CallKinds DEF Start, files
      <3>2. Verified' = {} /\ claims' = <<>>
        BY <3>1 DEF VerifiedInv, Verified
      <3>3. NextStage(run'.checkpoints) = "plan"
        BY <3>1 DEF FreshRun, NextStage
      <3> QED
        BY <2>2, <3>1, <3>2, <3>3 DEF VerifiedInv, VerifiedAt, Idle
    <2>4. CASE ~Start(p)
      <3>1. VerifiedStep(p)
        BY <2>1, <2>4, OtherVerified, AddVerified, JudgeVerified, MarkVerified,
           SaveVerified, RecordVerified
      <3> QED
        BY <2>2, <3>1 DEF VerifiedStep, VerifiedInv, Idle
    <2> QED
      BY <2>3, <2>4
  <1>2. CASE UNCHANGED vars
    <2>1. /\ UNCHANGED <<run, claims, verification, pc, loc, job>>
          /\ Verified' = Verified
      BY <1>2 DEF vars, files, Verified
    <2>2. run # None => (VerifiedAt(run.checkpoints) => VerifiedAt(run.checkpoints)')
      BY <2>1 DEF VerifiedAt, Analyzed, Elems
    <2>3. ASSUME NEW p \in Procs
          PROVE  (Marking(p) => Marking(p)') /\ (Marked(p) => Marked(p)')
      <3>1. /\ job'[p] = job[p] /\ loc'[p] = loc[p]
            /\ Elems(job'[p].ids) = Elems(job[p].ids)
            /\ Elems(job'[p].todo) = Elems(job[p].todo)
        BY <2>1
      <3>2. Marking(p) => Marking(p)'
        BY <2>1, <3>1 DEF Marking, Elems
      <3>3. Marked(p) => Marked(p)'
        BY <2>1, <3>1 DEF Marked, Elems
      <3> QED
        BY <3>2, <3>3
    <2> QED
      BY <2>1, <2>2, <2>3 DEF VerifiedInv, Stage
  <1> QED
    BY <1>1, <1>2

\* The verified claims of a completed run are exactly those of its last analysis,
\* each supported by the artifacts on disk: what crashes left behind, claims of
\* abandoned analyses and half-marked verdicts, is not among them
\* (verification_service.py:72-98, set_claim_status before save_verification).
THEOREM SoloCompletedVerified == SoloSpec => []CompletedVerified
  <1>1. Init => VerifiedInv /\ SupportInv
    BY DEF Init, VerifiedInv, SupportInv, VerifiedSupported, Supported
  <1>2. Base /\ VerifiedInv /\ OneAtATime /\ OneAtATime' /\ [Next]_vars => VerifiedInv'
    BY NextVerifiedInv
  <1>3. Base /\ SupportInv /\ [Next]_vars => SupportInv'
    BY NextSupportInv DEF Base
  <1>4. Base /\ VerifiedInv /\ SupportInv => CompletedVerified
    <2> SUFFICES ASSUME Base, VerifiedInv, VerifiedSupported,
                        run # None, run.state = "completed"
                 PROVE  CompletedVerified
      BY DEF SupportInv, CompletedVerified
    <2> DEFINE cks == run.checkpoints
               n == Len(cks)
    <2>1. cks \in Seq(Checkpoint) /\ Chain(cks) /\ NextStage(cks) = "done"
      BY DEF Base, IInv, GoodRun, Run, StageInv, RunLegal
    <2>2. /\ cks[n - 2].stage = "analyze"
          /\ LatestClaims(cks) = cks[n - 2].claims
      BY <2>1, LatestAt
    <2>3. /\ Verified = Elems(LatestClaims(cks)) /\ Verified # {} /\ verification.passed
      BY <2>1 DEF VerifiedInv, VerifiedAt, Analyzed
    <2>4. Verified = {cks[n - 2].claims[k] : k \in DOMAIN cks[n - 2].claims}
      BY <2>2, <2>3 DEF Elems
    <2> DEFINE final == {cks[n - 2].claims[k] : k \in DOMAIN cks[n - 2].claims}
    <2>5. \A i \in final : ClaimPasses(claims[i])
      BY <2>4 DEF VerifiedSupported, Verified
    <2>6. \A i \in DOMAIN claims : (claims[i].status = "verified") = (i \in final)
      <3> SUFFICES ASSUME NEW i \in DOMAIN claims
                   PROVE  claims[i].status = "verified" <=> i \in final
        OBVIOUS
      <3> HIDE DEF final
      <3> QED
        BY <2>4 DEF Verified, final
    <2> QED
      BY <2>2, <2>3, <2>4, <2>5, <2>6 DEF CompletedVerified
  <1> QED
    BY <1>1, <1>2, <1>3, <1>4, SoloInSync, PTL DEF SoloSpec, Spec
=============================================================================

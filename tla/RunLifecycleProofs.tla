------------------------- MODULE RunLifecycleProofs -------------------------
(***************************************************************************)
(* TLAPS proofs about RunLifecycle, for runs of any length.                *)
(***************************************************************************)
EXTENDS RunLifecycle, TLAPS

\* The strengthening: the typed chain, plus what it means to be synthesizing
\* or completed.
IInv == TypeOK /\ ChainLegal /\ SynthesisEarned /\ CompletedMeans

\* The stage that comes next is one of the five, or "done" exactly when the
\* last recorded stage is the synthesis (_next_stage).
LEMMA NextStageType ==
    ASSUME NEW cks \in Seq(Completed)
    PROVE  /\ NextStage(cks) \in Stages \cup {"done"}
           /\ NextStage(cks) = "done" <=> cks # <<>> /\ Latest(cks).stage = "synthesize"
           /\ cks # <<>> /\ NextStage(cks) # "done" =>
                 Follows(Latest(cks), NextStage(cks))
           /\ NextStage(cks) = "synthesize" =>
                 cks # <<>> /\ Latest(cks) = [stage |-> "verify", passed |-> TRUE]
  <1>1. CASE cks = <<>>
    BY <1>1 DEF NextStage, Stages, AgentStages
  <1>2. CASE cks # <<>>
    <2>1. Latest(cks) \in Completed
      BY <1>2 DEF Latest
    <2>2. /\ Latest(cks).stage \in {"plan", "collect", "analyze", "verify", "synthesize"}
          /\ Latest(cks).passed \in BOOLEAN
          /\ Latest(cks) = [stage |-> Latest(cks).stage, passed |-> Latest(cks).passed]
      BY <2>1 DEF Completed, Stages, AgentStages
    <2> QED
      BY <1>2, <2>2 DEF NextStage, Stages, AgentStages, Follows
  <1> QED
    BY <1>1, <1>2

\* Recording the next stage keeps the chain legal (research_orchestrator.py:537,
\* where the checkpoint tuple is extended).
LEMMA RecordKeepsChain ==
    ASSUME TypeOK, ChainLegal, Record
    PROVE  TypeOK' /\ ChainLegal'
  <1> DEFINE next == NextStage(done)
  <1>1. PICK passed \in BOOLEAN :
            done' = Append(done, [stage |-> next, passed |-> passed])
    BY DEF Record
  <1>2. done \in Seq(Completed) /\ next \in Stages
    BY NextStageType DEF TypeOK, Record
  <1>3. [stage |-> next, passed |-> passed] \in Completed
    BY <1>2 DEF Completed
  <1>4. TypeOK'
    BY <1>1, <1>2, <1>3 DEF TypeOK, Record
  <1>5. /\ Len(done') = Len(done) + 1
        /\ \A i \in 1..Len(done) : done'[i] = done[i]
        /\ done'[Len(done) + 1].stage = next
    BY <1>1, <1>2, <1>3
  <1>6. done = <<>> => next = "plan"
    BY DEF NextStage
  <1>7. done # <<>> => Follows(done[Len(done)], next)
    BY <1>2, NextStageType DEF Latest, Stages, AgentStages
  <1>8. DOMAIN done' = 1..(Len(done) + 1) /\ DOMAIN done = 1..Len(done) /\ Len(done) \in Nat
    BY <1>2, <1>4, <1>5 DEF TypeOK
  <1>9. done = <<>> <=> Len(done) = 0
    BY <1>2
  <1>10. done'[1].stage = "plan"
    BY <1>5, <1>6, <1>8, <1>9 DEF ChainLegal
  <1>11. ASSUME NEW i \in DOMAIN done', i > 1
         PROVE  Follows(done'[i - 1], done'[i].stage)
    <2>1. CASE i = Len(done) + 1
      BY <2>1, <1>5, <1>7, <1>8, <1>9, <1>11
    <2>2. CASE i \in 1..Len(done)
      BY <2>2, <1>5, <1>8, <1>11 DEF ChainLegal
    <2> QED
      BY <1>8, <1>11, <2>1, <2>2
  <1> QED
    BY <1>4, <1>10, <1>11 DEF ChainLegal

\* Every step keeps the strengthening.
LEMMA StepKeepsIInv ==
    ASSUME IInv, [Next]_lifecycle
    PROVE  IInv'
  <1> USE DEF IInv
  <1>1. done \in Seq(Completed) /\ state \in States \cup {"absent"}
    BY DEF TypeOK
  <1>2. CASE Create
    BY <1>2 DEF Create, TypeOK, States, ActiveStates, ChainLegal, SynthesisEarned,
        CompletedMeans
  <1>3. CASE Enter
    <2>1. TypeOK' /\ ChainLegal'
      BY <1>3, NextStageType, <1>1 DEF Enter, TypeOK, ChainLegal, States, ActiveStates,
          InterruptedStates, StateForStage, Stages, AgentStages
    <2>2. state' # "completed"
      BY <1>3, NextStageType, <1>1 DEF Enter, StateForStage, Stages, AgentStages
    <2>3. ASSUME state' = "synthesizing" PROVE SynthesisEarned'
      <3>1. NextStage(done) = "synthesize"
        BY <1>3, <2>3, NextStageType, <1>1 DEF Enter, StateForStage, Stages, AgentStages
      <3>2. done # <<>> /\ done[Len(done)] = [stage |-> "verify", passed |-> TRUE]
        BY <3>1, NextStageType, <1>1 DEF Latest
      <3>3. Len(done) \in DOMAIN done /\ Len(done) >= Len(done) - 1
        BY <3>2, <1>1
      <3> QED
        BY <1>3, <3>2, <3>3 DEF Enter, SynthesisEarned
    <2> QED
      BY <2>1, <2>2, <2>3 DEF SynthesisEarned, CompletedMeans
  <1>4. CASE Record
    <2>1. TypeOK' /\ ChainLegal'
      BY <1>4, RecordKeepsChain
    <2>2. state' = state /\ state # "completed"
      BY <1>4, NextStageType, <1>1 DEF Record, StateForStage, Stages, AgentStages
    <2>3. ASSUME state = "synthesizing" PROVE SynthesisEarned'
      <3>1. NextStage(done) = "synthesize"
        BY <1>4, <2>3, NextStageType, <1>1 DEF Record, StateForStage, Stages, AgentStages
      <3>2. done # <<>> /\ done[Len(done)] = [stage |-> "verify", passed |-> TRUE]
        BY <3>1, NextStageType, <1>1 DEF Latest
      <3>3. PICK c : done' = Append(done, c)
        BY <1>4 DEF Record
      <3>4. /\ Len(done') = Len(done) + 1
            /\ Len(done) \in DOMAIN done'
            /\ done'[Len(done)] = done[Len(done)]
        BY <3>2, <3>3, <1>1, <2>1 DEF TypeOK
      <3>5. Len(done) >= Len(done') - 1
        BY <3>4, <1>1
      <3> QED
        BY <3>2, <3>4, <3>5 DEF SynthesisEarned
    <2> QED
      BY <2>1, <2>2, <2>3 DEF SynthesisEarned, CompletedMeans
  <1>5. CASE Interrupt
    BY <1>5 DEF Interrupt, TypeOK, ChainLegal, SynthesisEarned, CompletedMeans, States,
        InterruptedStates
  <1>6. CASE Reopen
    <2>1. TypeOK' /\ ChainLegal' /\ state' # "completed"
      BY <1>6, NextStageType, <1>1 DEF Reopen, TypeOK, ChainLegal, States, ActiveStates,
          StateForStage, Stages, AgentStages
    <2>2. ASSUME state' = "synthesizing" PROVE SynthesisEarned'
      <3>1. NextStage(done) = "synthesize"
        BY <1>6, <2>2, NextStageType, <1>1 DEF Reopen, StateForStage, Stages, AgentStages
      <3>2. done # <<>> /\ done[Len(done)] = [stage |-> "verify", passed |-> TRUE]
        BY <3>1, NextStageType, <1>1 DEF Latest
      <3>3. Len(done) \in DOMAIN done /\ Len(done) >= Len(done) - 1
        BY <3>2, <1>1
      <3> QED
        BY <1>6, <3>2, <3>3 DEF Reopen, SynthesisEarned
    <2> QED
      BY <2>1, <2>2 DEF SynthesisEarned, CompletedMeans
  <1>7. CASE Complete
    <2>1. done # <<>> /\ done[Len(done)].stage = "synthesize"
      BY <1>7, NextStageType, <1>1 DEF Complete, Latest
    <2>2. Len(done) \in DOMAIN done /\ Len(done) \in Nat \ {0} /\ DOMAIN done = 1..Len(done)
      BY <2>1, <1>1
    <2>3. Len(done) > 1
      BY <2>1, <2>2 DEF ChainLegal
    <2>4. Follows(done[Len(done) - 1], "synthesize")
      BY <2>1, <2>2, <2>3 DEF ChainLegal
    <2>5. done[Len(done) - 1] \in Completed
      BY <2>2, <2>3, <1>1
    <2>6. done[Len(done) - 1] = [stage |-> "verify", passed |-> TRUE]
      BY <2>4, <2>5 DEF Follows, Completed
    <2> QED
      BY <1>7, <2>1, <2>2, <2>3, <2>6 DEF Complete, TypeOK, ChainLegal, SynthesisEarned,
          CompletedMeans, States
  <1>8. CASE UNCHANGED lifecycle
    BY <1>8 DEF lifecycle, TypeOK, ChainLegal, SynthesisEarned, CompletedMeans
  <1> QED
    BY <1>2, <1>3, <1>4, <1>5, <1>6, <1>7, <1>8 DEF Next

\* Every behaviour keeps the chain of stages legal, and synthesizes or completes
\* only after a passing verification.
THEOREM LifecycleInvariant == Spec => []IInv
  <1>1. Init => IInv
    BY DEF Init, IInv, TypeOK, ChainLegal, SynthesisEarned, CompletedMeans
  <1>2. IInv /\ [Next]_lifecycle => IInv'
    BY StepKeepsIInv
  <1> QED
    BY <1>1, <1>2, PTL DEF Spec

\* The recorded stages always form a legal chain (_next_stage).
THEOREM LifecycleChainLegal == Spec => []ChainLegal
  <1>1. IInv => ChainLegal
    BY DEF IInv
  <1> QED
    BY <1>1, LifecycleInvariant, PTL

\* A completed run ends in a synthesis after a passing verification.
THEOREM LifecycleCompletedMeans == Spec => []CompletedMeans
  <1>1. IInv => CompletedMeans
    BY DEF IInv
  <1> QED
    BY <1>1, LifecycleInvariant, PTL

\* A synthesizing run was last verified with a passing verdict.
THEOREM LifecycleSynthesisEarned == Spec => []SynthesisEarned
  <1>1. IInv => SynthesisEarned
    BY DEF IInv
  <1> QED
    BY <1>1, LifecycleInvariant, PTL
=============================================================================

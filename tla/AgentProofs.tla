---------------------------- MODULE AgentProofs -----------------------------
(***************************************************************************)
(* TLAPS proofs about AgentProcess, for prompts, pipes and agents of any   *)
(* kind and any number of cancellations.                                   *)
(***************************************************************************)
EXTENDS AgentProps, TLAPS

\* Before the CLI is spawned there is no group.
Unspawned ==
    /\ leader = "absent" => helper = "absent" /\ reader = "off"
    /\ pc \in {"idle", "probe", "spawn"} => leader = "absent"
    /\ pc \in {"feed", "wait", "terminate", "kill"} => leader # "absent"

\* What the labels of the call say about the group.  A timeout and a cancellation
\* are the only senders of signals, and neither follows an exit.
Progress ==
    /\ pc \in {"idle", "probe", "spawn", "feed", "wait"} =>
           ending = "none" /\ signals = [m \in Members |-> "none"]
    /\ pc \in {"terminate", "kill"} => ending \in {"timeout", "cancelled"}
    /\ pc = "collect" => leader \in {"ok", "error"} /\ ending # "none"
    /\ ending \in {"none", "exit"} => signals["leader"] = "none"
    /\ reader = "done" => leader \in {"ok", "error"} /\ ~PipesOpen
    /\ pc = "feed" => reader = "off"
    /\ result # None <=> pc = "returned"
    /\ pc = "returned" => leader = "absent" \/ reader = "done"

IInv == TypeOK /\ Unspawned /\ Progress /\ CompletedEarned /\ OutlivesOnly

\* What the adapters return is a reply of the contract, and never None.
LEMMA RepliesAre ==
    /\ None \notin Contract!Replies
    /\ \A session \in BOOLEAN :
          /\ [status |-> "completed", failure |-> "none", session |-> session] \in Contract!Replies
          /\ [status |-> "cancelled", failure |-> "cancelled", session |-> session] \in Contract!Replies
          /\ \A kind \in Contract!FailureKinds :
                [status |-> "failed", failure |-> kind, session |-> session] \in Contract!Replies
  <1>1. Contract!Replies \subseteq Results
    BY DEF Contract!Replies, Contract!FailureKinds, Results, Statuses, FailureKinds
  <1>2. \A session \in BOOLEAN :
          [status |-> "completed", failure |-> "none", session |-> session] \in Contract!Replies
    BY DEF Contract!Replies
  <1>3. \A session \in BOOLEAN :
          [status |-> "cancelled", failure |-> "cancelled", session |-> session] \in Contract!Replies
    BY DEF Contract!Replies
  <1>4. \A session \in BOOLEAN, kind \in Contract!FailureKinds :
          [status |-> "failed", failure |-> kind, session |-> session] \in Contract!Replies
    BY DEF Contract!Replies
  <1> QED
    BY <1>1, <1>2, <1>3, <1>4, AgentAssumption

\* The initial states satisfy the invariant.
LEMMA InitIInv == Init => IInv
  <1> SUFFICES ASSUME Init PROVE IInv
    OBVIOUS
  <1>1. TypeOK
    <2>1. unread \in Nat
      BY AgentAssumption DEF Init
    <2>2. out \in Seq({"line", "long"})
      BY DEF Init
    <2>3. signals \in [Members -> {"none", "term", "kill"}]
      BY DEF Init
    <2>4. capabilities \subseteq Abilities /\ deaf \subseteq Members
      BY DEF Init
    <2> QED
      BY <2>1, <2>2, <2>3, <2>4 DEF Init, TypeOK
  <1>2. Unspawned
    BY DEF Init, Unspawned
  <1>3. Progress
    BY DEF Init, Progress, Members, PipesOpen
  <1>4. CompletedEarned /\ OutlivesOnly
    BY DEF Init, CompletedEarned, OutlivesOnly, Ended
  <1> QED
    BY <1>1, <1>2, <1>3, <1>4 DEF IInv

\* The call's own steps up to the wait.
LEMMA BeginIInv ==
    ASSUME IInv, CodexHealth \/ ClaudeHealth \/ Execute \/ ProbeEnds \/ CancelProbe \/ SpawnFails
                 \/ CodexSpawn \/ ClaudeSpawn \/ Fed \/ FeedBreaks
    PROVE  IInv'
  <1> USE DEF IInv, group, pipes, callState, backend, Return
  <1>1. TypeOK'
    <2>1. CASE CodexHealth \/ ClaudeHealth
      BY <2>1 DEF TypeOK, CodexHealth, ClaudeHealth, Checked
    <2>2. CASE Execute \/ ProbeEnds \/ CodexSpawn \/ ClaudeSpawn \/ Fed \/ FeedBreaks
      <3>1. holders' \subseteq Members
        BY <2>2 DEF TypeOK, Members, Execute, ProbeEnds, CodexSpawn, ClaudeSpawn, Fed, FeedBreaks
      <3> QED
        BY <2>2, <3>1 DEF TypeOK, Execute, ProbeEnds, CodexSpawn, ClaudeSpawn, Fed, FeedBreaks
    <2>3. CASE CancelProbe \/ SpawnFails
      <3>1. result' \in Contract!Replies
        BY <2>3, RepliesAre DEF CancelProbe, SpawnFails, Contract!FailureKinds
      <3> QED
        BY <2>3, <3>1 DEF TypeOK, CancelProbe, SpawnFails
    <2> QED
      BY <2>1, <2>2, <2>3
  <1>2. Unspawned'
    BY DEF TypeOK, Unspawned, CodexHealth, ClaudeHealth, Execute, ProbeEnds, CancelProbe, SpawnFails,
           CodexSpawn, ClaudeSpawn, Fed, FeedBreaks
  <1>3. Progress'
    <2>1. CASE CodexHealth \/ ClaudeHealth \/ Execute \/ ProbeEnds
      BY <2>1 DEF Unspawned, Progress, PipesOpen, CodexHealth, ClaudeHealth, Execute, ProbeEnds
    <2>2. CASE CodexSpawn \/ ClaudeSpawn \/ Fed \/ FeedBreaks
      BY <2>2 DEF TypeOK, Unspawned, Progress, PipesOpen, CodexSpawn, ClaudeSpawn, Fed, FeedBreaks
    <2>3. CASE CancelProbe \/ SpawnFails
      <3>1. result' # None
        BY <2>3, RepliesAre DEF CancelProbe, SpawnFails, Contract!FailureKinds
      <3> QED
        BY <2>3, <3>1 DEF Unspawned, Progress, PipesOpen, CancelProbe, SpawnFails
    <2> QED
      BY <2>1, <2>2, <2>3
  <1>4. CompletedEarned' /\ OutlivesOnly'
    BY DEF TypeOK, Unspawned, CompletedEarned, OutlivesOnly, Ended, PipesOpen, CodexHealth, ClaudeHealth,
           Execute, ProbeEnds, CancelProbe, SpawnFails, CodexSpawn, ClaudeSpawn, Fed, FeedBreaks
  <1> QED
    BY <1>1, <1>2, <1>3, <1>4

\* The end of the wait, termination of the group and cancellation.
LEMMA WaitIInv ==
    ASSUME IInv, CodexExited \/ ClaudeExited \/ TimesOut \/ CancelWait \/ Terminated \/ Kill \/ CancelEscapes
    PROVE  IInv'
  <1> USE DEF IInv, group, pipes, callState, backend
  <1>1. TypeOK'
    <2>1. CASE CodexExited \/ ClaudeExited \/ Terminated \/ CancelEscapes
      BY <2>1 DEF TypeOK, CodexExited, ClaudeExited, Terminated, CancelEscapes
    <2>2. CASE TimesOut \/ CancelWait
      BY <2>2 DEF TypeOK, TimesOut, CancelWait, Terminate, Signal
    <2>3. CASE Kill
      BY <2>3 DEF TypeOK, Kill, Signal
    <2> QED
      BY <2>1, <2>2, <2>3
  <1>2. Unspawned'
    BY DEF TypeOK, Unspawned, CodexExited, ClaudeExited, TimesOut, CancelWait, Terminate, Terminated, Kill, CancelEscapes
  <1>3. Progress'
    <2>1. CASE CodexExited \/ ClaudeExited
      BY <2>1 DEF TypeOK, Unspawned, Progress, PipesOpen, CodexExited, ClaudeExited
    <2>2. CASE TimesOut
      BY <2>2 DEF TypeOK, Unspawned, Progress, PipesOpen, TimesOut, Terminate
    <2>3. CASE CancelWait
      BY <2>3 DEF TypeOK, Unspawned, Progress, PipesOpen, CancelWait, Terminate
    <2>4. CASE Terminated \/ Kill \/ CancelEscapes
      BY <2>4 DEF TypeOK, Unspawned, Progress, PipesOpen, Terminated, Kill, CancelEscapes
    <2> QED
      BY <2>1, <2>2, <2>3, <2>4
  <1>4. CompletedEarned' /\ OutlivesOnly'
    BY DEF TypeOK, Unspawned, CompletedEarned, OutlivesOnly, Ended, CodexExited, ClaudeExited,
           TimesOut, CancelWait, Terminate, Terminated, Kill, CancelEscapes
  <1> QED
    BY <1>1, <1>2, <1>3, <1>4

\* The readers.
LEMMA ReadIInv ==
    ASSUME IInv, Read
    PROVE  IInv'
  <1> USE DEF IInv, group, pipes, callState, backend, Read
  <1>1. TypeOK'
    <2>1. CASE ReadLine
      <3>1. out' \in Seq({"line", "long"})
        BY <2>1 DEF TypeOK, ReadLine
      <3> QED
        BY <2>1, <3>1 DEF TypeOK, ReadLine
    <2>2. CASE ReadFails \/ ReadEnds
      BY <2>2 DEF TypeOK, ReadFails, ReadEnds
    <2> QED
      BY <2>1, <2>2
  <1>2. Unspawned'
    BY DEF Unspawned, ReadLine, ReadFails, ReadEnds
  <1>3. Progress'
    BY DEF TypeOK, Unspawned, Progress, PipesOpen, Eof, ReadLine, ReadFails, ReadEnds
  <1>4. CompletedEarned' /\ OutlivesOnly'
    BY DEF CompletedEarned, OutlivesOnly, Ended, ReadLine, ReadFails, ReadEnds
  <1> QED
    BY <1>1, <1>2, <1>3, <1>4

\* The answers: the readers have seen the end of the output, which nobody can
\* write to any more, and a completed result is that of an exit.
LEMMA AnswerIInv ==
    ASSUME IInv, CodexAnswers \/ ClaudeAnswers \/ CollectRaises
    PROVE  IInv'
  <1> USE DEF IInv, group, pipes, callState, backend
  <1>1. CASE CollectRaises
    BY <1>1 DEF TypeOK, Unspawned, Progress, CompletedEarned, OutlivesOnly, Ended, PipesOpen, CollectRaises
  <1>2. CASE CodexAnswers \/ ClaudeAnswers
    <2>1. /\ result' \in Contract!Replies /\ pc = "collect" /\ pc' = "returned" /\ reader = "done"
          /\ result'.status = "completed" => ending = "exit" /\ leader = "ok" /\ file = "object"
      <3>1. heard \in BOOLEAN /\ FALSE \in BOOLEAN
        BY DEF TypeOK
      <3>2. ASSUME NEW session \in BOOLEAN, Stopped(session), ending # "exit"
            PROVE  /\ result' \in Contract!Replies /\ pc' = "returned"
                   /\ result'.status # "completed"
        <4>1. /\ result' \in {[status |-> "failed", failure |-> "timeout", session |-> session],
                             [status |-> "cancelled", failure |-> "cancelled", session |-> session]}
              /\ pc' = "returned"
          BY <3>2 DEF Stopped, Return
        <4>2. "timeout" \in Contract!FailureKinds
          BY DEF Contract!FailureKinds
        <4>3. result' \in Contract!Replies
          BY <4>1, <4>2, RepliesAre, Zenon
        <4>4. result'.status # "completed"
          BY <4>1
        <4> QED
          BY <4>1, <4>3, <4>4
      <3>3. ASSUME NEW session \in BOOLEAN, NEW kinds \in SUBSET Contract!FailureKinds, Judged(session, kinds)
            PROVE  /\ result' \in Contract!Replies /\ pc' = "returned"
                   /\ result'.status # "completed"
        <4>1. \E kind \in kinds \cup {"structured_output_invalid"} :
                 /\ result' = [status |-> "failed", failure |-> kind, session |-> session]
                 /\ pc' = "returned"
          BY <3>3 DEF Judged, Return
        <4>2. "structured_output_invalid" \in Contract!FailureKinds
          BY DEF Contract!FailureKinds
        <4>3. result' \in Contract!Replies
          BY <4>1, <4>2, RepliesAre, Zenon
        <4>4. result'.status # "completed"
          BY <4>1
        <4> QED
          BY <4>1, <4>3, <4>4
      <3>4. ASSUME Return("completed", "none", heard)
            PROVE  result' \in Contract!Replies /\ pc' = "returned"
        BY <3>1, <3>4, RepliesAre DEF Return
      <3>5. CASE CodexAnswers
        <4>1. {"authentication_required", "capability_unavailable"} \subseteq Contract!FailureKinds
          BY DEF Contract!FailureKinds
        <4> QED
          BY <3>1, <3>2, <3>3, <3>4, <3>5, <4>1 DEF CodexAnswers
      <3>6. CASE ClaudeAnswers
        <4>1. {"authentication_required", "adapter_unavailable"} \subseteq Contract!FailureKinds
          BY DEF Contract!FailureKinds
        <4> QED
          BY <3>1, <3>2, <3>3, <3>4, <3>6, <4>1 DEF ClaudeAnswers
      <3> QED
        BY <1>2, <3>5, <3>6
    <2>2. UNCHANGED <<adapter, backend, ending, cancels, probe, group, pipes, file>>
      BY <1>2 DEF CodexAnswers, ClaudeAnswers
    <2>3. TypeOK'
      BY <2>1, <2>2 DEF TypeOK
    <2>4. Unspawned' /\ Progress'
      BY <2>1, <2>2, RepliesAre DEF TypeOK, Unspawned, Progress, PipesOpen
    <2>5. CompletedEarned' /\ OutlivesOnly'
      BY <2>1, <2>2 DEF Progress, CompletedEarned, OutlivesOnly, Ended
    <2> QED
      BY <2>3, <2>4, <2>5
  <1> QED
    BY <1>1, <1>2

\* The agent: it writes, forks and saves only while it runs, so whatever it does
\* after the answer is no business of the call.
LEMMA AgentIInv ==
    ASSUME IInv, Agent
    PROVE  IInv'
  <1> USE DEF IInv, group, pipes, callState, backend, Agent
  <1>1. TypeOK'
    <2>1. CASE AgentWrites
      <3>1. PICK line \in {"line", "long"} : out' = Append(out, line)
        BY <2>1 DEF AgentWrites
      <3> QED
        BY <2>1, <3>1 DEF TypeOK, AgentWrites
    <2>2. CASE AgentReads
      <3>1. unread' \in Nat
        BY <2>2 DEF TypeOK, AgentReads
      <3> QED
        BY <2>2, <3>1 DEF TypeOK, AgentReads
    <2>3. ASSUME NEW m \in Members, AgentCloses(m) PROVE TypeOK'
      BY <2>3 DEF TypeOK, AgentCloses
    <2>4. CASE AgentSaves
      BY <2>4 DEF TypeOK, AgentSaves
    <2>5. CASE AgentForks
      <3>1. holders' \subseteq Members
        BY <2>5 DEF TypeOK, AgentForks, Members
      <3> QED
        BY <2>5, <3>1 DEF TypeOK, AgentForks
    <2>6. CASE LeaderExits
      BY <2>6 DEF TypeOK, LeaderExits
    <2>7. CASE HelperExits
      BY <2>7 DEF TypeOK, HelperExits
    <2>8. ASSUME NEW m \in Members, Dies(m) PROVE TypeOK'
      BY <2>8 DEF TypeOK, Dies
    <2> QED
      BY <2>1, <2>2, <2>3, <2>4, <2>5, <2>6, <2>7, <2>8
  <1>2. Unspawned'
    BY DEF TypeOK, Unspawned, AgentReads, AgentCloses, AgentWrites, AgentSaves, AgentForks,
           LeaderExits, HelperExits, Dies, Members, Running
  <1>3. Progress'
    BY DEF TypeOK, Unspawned, Progress, PipesOpen, AgentReads, AgentCloses, AgentWrites, AgentSaves,
           AgentForks, LeaderExits, HelperExits, Dies, Members, Running
  <1>4. OutlivesOnly'
    BY DEF TypeOK, OutlivesOnly, Ended, AgentReads, AgentCloses, AgentWrites, AgentSaves, AgentForks,
           LeaderExits, HelperExits, Dies, Members, Running
  <1>5. CompletedEarned'
    BY DEF TypeOK, CompletedEarned, AgentReads, AgentCloses, AgentWrites, AgentSaves, AgentForks,
           LeaderExits, HelperExits, Dies, Members, Running
  <1> QED
    BY <1>1, <1>2, <1>3, <1>4, <1>5

\* Every step keeps the invariant.
LEMMA NextIInv == IInv /\ [Next]_vars => IInv'
  <1> SUFFICES ASSUME IInv, [Next]_vars PROVE IInv'
    OBVIOUS
  <1>1. CASE CodexHealth \/ ClaudeHealth \/ Execute \/ CancelProbe \/ ProbeEnds \/ SpawnFails
             \/ CodexSpawn \/ ClaudeSpawn \/ Fed \/ FeedBreaks
    BY <1>1, BeginIInv
  <1>2. CASE CodexExited \/ ClaudeExited \/ TimesOut \/ CancelWait \/ Terminated \/ Kill \/ CancelEscapes
    BY <1>2, WaitIInv
  <1>3. CASE CodexAnswers \/ ClaudeAnswers \/ CollectRaises
    BY <1>3, AnswerIInv
  <1>4. CASE Read \/ Agent
    BY <1>4, ReadIInv, AgentIInv
  <1>5. CASE UNCHANGED vars
    BY <1>5 DEF vars, group, pipes, callState, backend, IInv, TypeOK, Unspawned, Progress, CompletedEarned,
                OutlivesOnly, Ended, PipesOpen
  <1> QED
    BY <1>1, <1>2, <1>3, <1>4, <1>5 DEF Next, Call, Cancel

\* The inductive invariant holds in every reachable state.
LEMMA AgentInvariant == Spec => []IInv
  BY InitIInv, NextIInv, PTL DEF Spec

-----------------------------------------------------------------------------

\* All variables of a call keep their shape; results are those the port allows.
THEOREM AgentTypeOK == Spec => []TypeOK
  BY AgentInvariant, PTL DEF IInv

\* A call that returns leaves nobody behind that has its pipes open, whatever the
\* agent, its helper, the timer and the caller did (subprocesses.py:35).
THEOREM AgentReturnedMeansQuiet == Spec => []ReturnedMeansQuiet
  <1>1. IInv => ReturnedMeansQuiet
    BY DEF IInv, TypeOK, Unspawned, Progress, ReturnedMeansQuiet, PipesOpen
  <1> QED
    BY <1>1, AgentInvariant, PTL

\* A completed stage is one whose CLI exited with status 0, unsignalled, and left an
\* object (codex_cli.py:241-300, claude_cli.py:188-230).
THEOREM AgentCompletedEarned == Spec => []CompletedEarned
  BY AgentInvariant, PTL DEF IInv

\* The CLI outlives a call only if it closed its input or the call was cancelled
\* (codex_cli.py:210-213).
THEOREM AgentOutlivesOnly == Spec => []OutlivesOnly
  BY AgentInvariant, PTL DEF IInv

-----------------------------------------------------------------------------

\* Each step is a step of the contract or changes nothing a caller sees.
LEMMA ContractStep == IInv /\ IInv' /\ [Next]_vars => [Contract!Next]_Contract!callVars
  <1> SUFFICES ASSUME IInv, IInv', [Next]_vars PROVE [Contract!Next]_Contract!callVars
    OBVIOUS
  <1> USE DEF group, pipes, callState, backend
  <1>1. CASE CodexSpawn \/ ClaudeSpawn
    <2>1. GroupMap = "absent" /\ GroupMap' = "live" /\ ReplyMap = None /\ ReplyMap' = ReplyMap
      BY <1>1 DEF IInv, TypeOK, Unspawned, Progress, GroupMap, ReplyMap, PipesOpen, CodexSpawn, ClaudeSpawn
    <2> QED
      BY <2>1 DEF Contract!Next, Contract!Spawn
  <1>2. CASE CancelProbe \/ SpawnFails \/ CodexAnswers \/ ClaudeAnswers
    <2>1. ReplyMap = None /\ pc' = "returned" /\ UNCHANGED <<leader, helper>>
      BY <1>2 DEF IInv, Progress, ReplyMap, CancelProbe, SpawnFails, CodexAnswers, ClaudeAnswers, Stopped, Judged, Return
    <2>2. ReplyMap' = result' /\ result' \in Contract!Replies
      BY <2>1, RepliesAre DEF IInv, TypeOK, Progress, ReplyMap
    <2>3. GroupMap # "live" /\ GroupMap' = GroupMap
      BY <1>2, <2>1 DEF IInv, TypeOK, Unspawned, Progress, GroupMap, PipesOpen, CancelProbe, SpawnFails, CodexAnswers, ClaudeAnswers
    <2>4. result'.status = "completed" => GroupMap = "ok"
      BY <2>1, <2>3 DEF IInv, CompletedEarned, GroupMap, PipesOpen
    <2>5. Contract!Answer(result')
      BY <2>1, <2>2, <2>3, <2>4 DEF Contract!Answer
    <2> QED
      BY <2>2, <2>5 DEF Contract!Next
  <1>3. CASE FeedBreaks \/ CancelEscapes \/ CollectRaises
    <2>1. pc # "raised" /\ pc # "returned" /\ pc' = "raised" /\ UNCHANGED <<result, leader, helper>>
      BY <1>3 DEF FeedBreaks, CancelEscapes, CollectRaises
    <2>2. ReplyMap = None /\ ReplyMap' = Contract!Raised /\ GroupMap' = GroupMap
      BY <2>1 DEF IInv, Progress, ReplyMap, GroupMap, PipesOpen, Contract!Raised
    <2> QED
      BY <2>2 DEF Contract!Next, Contract!Escape
  <1>4. CASE LeaderExits \/ HelperExits \/ \E m \in Members : Dies(m)
    <2>1. UNCHANGED <<pc, result>>
      BY <1>4 DEF LeaderExits, HelperExits, Dies
    <2>2. ReplyMap' = ReplyMap
      BY <2>1 DEF ReplyMap
    <2>3. GroupMap = "live" /\ GroupMap' \in {"live", "ok", "error"}
      BY <1>4 DEF IInv, TypeOK, Unspawned, GroupMap, PipesOpen, LeaderExits, HelperExits, Dies, Running
    <2> QED
      BY <2>2, <2>3 DEF Contract!Next, Contract!End, Contract!callVars
  <1>5. CASE \/ CodexHealth \/ ClaudeHealth \/ Execute \/ ProbeEnds \/ Fed \/ Read
             \/ AgentReads \/ AgentWrites \/ AgentSaves \/ \E m \in Members : AgentCloses(m)
    BY <1>5 DEF ReplyMap, GroupMap, PipesOpen, Contract!callVars, CodexHealth, ClaudeHealth, Execute, ProbeEnds,
                Fed, Read, ReadLine, ReadFails, ReadEnds, AgentReads, AgentCloses, AgentWrites, AgentSaves
  <1>6. CASE CodexExited \/ ClaudeExited \/ TimesOut \/ CancelWait \/ Terminated \/ Kill
    <2>1. UNCHANGED <<result, leader, helper>> /\ pc # "raised" /\ pc' # "raised"
      BY <1>6 DEF CodexExited, ClaudeExited, TimesOut, CancelWait, Terminate, Terminated, Kill
    <2> QED
      BY <2>1 DEF ReplyMap, GroupMap, PipesOpen, Contract!callVars
  <1>7. CASE AgentForks
    BY <1>7 DEF ReplyMap, GroupMap, PipesOpen, Contract!callVars, AgentForks
  <1>8. CASE UNCHANGED vars
    BY <1>8 DEF vars, ReplyMap, GroupMap, PipesOpen, Contract!callVars
  <1> QED
    BY <1>1, <1>2, <1>3, <1>4, <1>5, <1>6, <1>7, <1>8 DEF Next, Call, Cancel, Agent

\* Both adapters implement the contract of AgentBackend: one group, one answer, and
\* the answer after the group (ports/agent_backend.py:128-144).
THEOREM AgentImplementsCall == Spec => ImplementsCall
  <1>1. Init => Contract!Init
    BY DEF Init, Contract!Init, GroupMap, ReplyMap, PipesOpen
  <1> QED
    BY <1>1, ContractStep, AgentInvariant, PTL DEF Spec, ImplementsCall, Contract!Spec
=============================================================================

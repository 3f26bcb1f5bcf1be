---------------------------- MODULE AgentProcess ----------------------------
(***************************************************************************)
(* One stage executed by an agent CLI: CodexCliAgentAdapter._run or        *)
(* ClaudeCliAgentAdapter._run, the process group it spawns, the two pipes  *)
(* between them, the timeout, cancellation and terminate_process_tree.     *)
(*                                                                         *)
(* The group has a leader, which is the CLI, and at most one helper that   *)
(* the CLI started and that has inherited its pipes.  What they do is not  *)
(* FRA's code: they may read, write, fork, save a result and exit in any   *)
(* order, never do so, or ignore SIGTERM.  Input is counted in units,      *)
(* output in lines.                                                        *)
(***************************************************************************)
EXTENDS Naturals, Sequences

CONSTANTS
    None,
    Abilities,      \* what a CLI must be able to do: structured output, resume, events
    Instructions,   \* the lengths a prompt may have
    Window,         \* input that pipe and transport take without a reader
    PipeSize,       \* lines that pipe and stream buffer take without a reader
    MaxCancels      \* how often the caller may cancel the call

\* AgentStageResult, as far as the orchestrator looks at it.
Statuses == {"completed", "cancelled", "failed", "raised"}
FailureKinds == {"none", "cancelled", "timeout", "adapter_unavailable", "authentication_required",
                 "capability_unavailable", "structured_output_invalid"}
Results == [status : Statuses, failure : FailureKinds, session : BOOLEAN]

ASSUME AgentAssumption ==
    /\ Instructions \subseteq Nat
    /\ Window \in Nat /\ PipeSize \in Nat /\ MaxCancels \in Nat
    /\ None \notin Results

VARIABLES
    adapter,       \* which of the two adapters
    capabilities,  \* what the last health check found the CLI able to do
    health,        \* its answer, until the caller goes on
    pc,            \* where the call stands
    ending,        \* what ended the wait: "exit", "timeout" or "cancelled"
    result,        \* the AgentStageResult
    cancels,       \* cancellations so far
    probe,         \* the process of the version command
    leader, helper, \* the processes of the group
    deaf,          \* those of them that ignore SIGTERM
    signals,       \* the strongest signal each was sent
    unread,        \* input nobody has read
    holders,       \* the processes of the group that have the input open
    out,           \* output nobody has read
    reader,        \* the task that reads the output
    heard,         \* the session identity was among what was read
    file           \* the structured result the agent left

backend == <<capabilities, health>>
callState == <<pc, ending, result, cancels>>
group == <<leader, helper, deaf, signals>>
pipes == <<unread, holders, out, reader, heard>>
vars == <<adapter, backend, callState, probe, group, pipes, file>>

Members == {"leader", "helper"}
Ended == pc \in {"returned", "raised"}

\* Somebody has the output open, and the end of the output.
PipesOpen == leader = "running" \/ helper = "running"
Eof == ~PipesOpen /\ out = <<>>

Init ==
    /\ adapter \in {"codex", "claude"}
    /\ capabilities = Abilities /\ health = "unknown"
    /\ pc = "idle" /\ ending = "none" /\ result = None /\ cancels = 0
    /\ probe = "absent" /\ leader = "absent" /\ helper = "absent"
    /\ deaf \in SUBSET Members
    /\ signals = [m \in Members |-> "none"]
    /\ unread \in Instructions /\ holders = {} /\ out = <<>> /\ reader = "off" /\ heard = FALSE
    /\ file = "none"

Return(status, failure, session) ==
    /\ pc' = "returned"
    /\ result' = [status |-> status, failure |-> failure, session |-> session]

-----------------------------------------------------------------------------
(* Health checks.  A probe that fails or times out counts as an empty      *)
(* answer, so a help text that comes late takes every capability away; only *)
(* a missing binary leaves them as they were.                              *)

Checked(installed, shown, found) ==
    /\ capabilities' = IF installed THEN shown ELSE capabilities
    /\ health' = CASE ~installed -> "adapter_unavailable"
                   [] installed /\ shown # Abilities -> "capability_unsupported"
                   [] OTHER -> found

\* Codex: the profile file, if one is configured, then the login.
CodexHealth ==
    /\ adapter = "codex" /\ pc = "idle"
    /\ \E installed \in BOOLEAN, shown \in SUBSET Abilities,
          found \in {"healthy", "capability_unavailable", "authentication_required"} :
           Checked(installed, shown, found)
    /\ UNCHANGED <<adapter, callState, probe, group, pipes, file>>

\* Claude has no profile.
ClaudeHealth ==
    /\ adapter = "claude" /\ pc = "idle"
    /\ \E installed \in BOOLEAN, shown \in SUBSET Abilities,
          found \in {"healthy", "authentication_required"} : Checked(installed, shown, found)
    /\ UNCHANGED <<adapter, callState, probe, group, pipes, file>>

-----------------------------------------------------------------------------
(* The call up to the wait.                                                *)

\* Codex asks for the version first, Claude does not.
Execute ==
    /\ pc = "idle"
    /\ pc' = IF adapter = "codex" THEN "probe" ELSE "spawn"
    /\ probe' = IF adapter = "codex" THEN "running" ELSE "absent"
    /\ health' = "unknown"
    /\ UNCHANGED <<adapter, capabilities, ending, result, cancels, group, pipes, file>>

\* The version is optional: an answer, a failure, a missing binary and a timeout
\* go on alike, and on a timeout the process is left as it is.
ProbeEnds ==
    /\ pc = "probe"
    /\ pc' = "spawn"
    /\ probe' \in {"running", "gone"}
    /\ UNCHANGED <<adapter, backend, ending, result, cancels, group, pipes, file>>

CancelProbe ==
    /\ pc = "probe" /\ cancels < MaxCancels
    /\ cancels' = cancels + 1
    /\ Return("cancelled", "cancelled", FALSE)
    /\ UNCHANGED <<adapter, backend, ending, probe, group, pipes, file>>

SpawnFails ==
    /\ pc = "spawn"
    /\ Return("failed", "adapter_unavailable", FALSE)
    /\ UNCHANGED <<adapter, backend, ending, cancels, probe, group, pipes, file>>

\* Codex writes the prompt and drains it before anything else; Claude's
\* communicate() feeds and reads at the same time, within the timeout.
CodexSpawn ==
    /\ adapter = "codex" /\ pc = "spawn"
    /\ leader' = "running" /\ holders' = {"leader"} /\ pc' = "feed"
    /\ UNCHANGED <<adapter, backend, ending, result, cancels, probe, helper, deaf, signals,
                   unread, out, reader, heard, file>>

ClaudeSpawn ==
    /\ adapter = "claude" /\ pc = "spawn"
    /\ leader' = "running" /\ holders' = {"leader"} /\ pc' = "wait" /\ reader' = "reading"
    /\ UNCHANGED <<adapter, backend, ending, result, cancels, probe, helper, deaf, signals,
                   unread, out, heard, file>>

\* drain() returns once the rest fits; only then are the readers started and
\* the timeout set.
Fed ==
    /\ pc = "feed" /\ unread <= Window
    /\ pc' = "wait" /\ reader' = "reading"
    /\ UNCHANGED <<adapter, backend, ending, result, cancels, probe, group, unread, holders, out, heard, file>>

\* Mutant: a broken pipe starts the CLI again.
FeedBreaksAgain ==
    /\ pc = "feed" /\ holders = {}
    /\ pc' = "spawn"
    /\ UNCHANGED <<adapter, backend, ending, result, cancels, probe, group, pipes, file>>

\* The pipe breaks once nobody has its other end open: the exception leaves _run.
FeedBreaks ==
    /\ pc = "feed" /\ holders = {}
    /\ pc' = "raised"
    /\ UNCHANGED <<adapter, backend, ending, result, cancels, probe, group, pipes, file>>

-----------------------------------------------------------------------------
(* The wait, and what ends it.                                             *)

CodexExited ==
    /\ adapter = "codex" /\ pc = "wait" /\ leader # "running"
    /\ pc' = "collect" /\ ending' = "exit"
    /\ UNCHANGED <<adapter, backend, result, cancels, probe, group, pipes, file>>

\* communicate() ends with the output and the exit of the leader.
ClaudeExited ==
    /\ adapter = "claude" /\ pc = "wait" /\ leader # "running" /\ reader = "done"
    /\ pc' = "collect" /\ ending' = "exit"
    /\ UNCHANGED <<adapter, backend, result, cancels, probe, group, pipes, file>>

Running(m) == IF m = "leader" THEN leader = "running" ELSE helper = "running"

\* killpg reaches whoever is running.
Signal(s) == signals' = [m \in Members |-> IF Running(m) THEN s ELSE signals[m]]

\* terminate_process_tree: nothing is signalled once the leader has exited.
Terminate(why) ==
    /\ ending' = why
    /\ IF leader = "running"
       THEN pc' = "terminate" /\ Signal("term")
       ELSE pc' = "collect" /\ UNCHANGED signals

TimesOut ==
    /\ pc = "wait"
    /\ Terminate("timeout")
    /\ UNCHANGED <<adapter, backend, result, cancels, probe, leader, helper, deaf, pipes, file>>

CancelWait ==
    /\ pc = "wait" /\ cancels < MaxCancels
    /\ cancels' = cancels + 1
    /\ Terminate("cancelled")
    /\ UNCHANGED <<adapter, backend, result, probe, leader, helper, deaf, pipes, file>>

\* Half a second for the leader to go, then SIGKILL to the group.
Terminated ==
    /\ pc \in {"terminate", "kill"} /\ leader # "running"
    /\ pc' = "collect"
    /\ UNCHANGED <<adapter, backend, ending, result, cancels, probe, group, pipes, file>>

\* Mutant: SIGTERM twice.
KillGently ==
    /\ pc = "terminate" /\ leader = "running"
    /\ pc' = "kill" /\ Signal("term")
    /\ UNCHANGED <<adapter, backend, ending, result, cancels, probe, leader, helper, deaf, pipes, file>>

Kill ==
    /\ pc = "terminate" /\ leader = "running"
    /\ pc' = "kill" /\ Signal("kill")
    /\ UNCHANGED <<adapter, backend, ending, result, cancels, probe, leader, helper, deaf, pipes, file>>

\* A cancellation at any other await of the call ends it with CancelledError.  (While the
\* process is being created, asyncio itself closes what it had started.)
CancelEscapes ==
    /\ pc \in {"spawn", "feed", "terminate", "kill", "collect"} /\ cancels < MaxCancels
    /\ ~(adapter = "claude" /\ ending = "exit")
    /\ cancels' = cancels + 1 /\ pc' = "raised"
    /\ UNCHANGED <<adapter, backend, ending, result, probe, group, pipes, file>>

-----------------------------------------------------------------------------
(* Reading, and the result.                                                *)

\* One line; the first one carries the session identity.
ReadLine ==
    /\ reader = "reading" /\ out # <<>>
    /\ Head(out) = "long" => adapter = "claude"
    /\ out' = Tail(out) /\ heard' = TRUE
    /\ UNCHANGED <<adapter, backend, callState, probe, group, unread, holders, reader, file>>

\* readline() refuses a line over the limit of the stream: the task ends with
\* ValueError.
ReadFails ==
    /\ adapter = "codex" /\ reader = "reading" /\ out # <<>> /\ Head(out) = "long"
    /\ reader' = "failed"
    /\ UNCHANGED <<adapter, backend, callState, probe, group, unread, holders, out, heard, file>>

ReadEnds ==
    /\ reader = "reading" /\ Eof
    /\ reader' = "done"
    /\ UNCHANGED <<adapter, backend, callState, probe, group, unread, holders, out, heard, file>>

\* Mutant: a timeout reported with the status of a cancellation.
StoppedMislabelled(session) == Return("cancelled", ending, session)

\* The process was stopped: a result without output; Codex names the session.
Stopped(session) ==
    IF ending = "timeout"
    THEN Return("failed", "timeout", session)
    ELSE Return("cancelled", "cancelled", session)

\* The process exited by itself: its status, then its result, decides.
Judged(session, kinds) ==
    \/ leader = "error" /\ \E kind \in kinds : Return("failed", kind, session)
    \/ leader = "ok" /\ file # "object" /\ Return("failed", "structured_output_invalid", session)

\* Mutant: the result of an exited leader is returned without awaiting the readers.
CodexAnswersEarly ==
    /\ adapter = "codex" /\ pc = "collect"
    /\ \/ ending # "exit" /\ Stopped(heard)
       \/ ending = "exit" /\ Judged(heard, {"authentication_required", "capability_unavailable"})
       \/ ending = "exit" /\ leader = "ok" /\ file = "object" /\ Return("completed", "none", heard)
    /\ UNCHANGED <<adapter, backend, ending, cancels, probe, group, pipes, file>>

\* Mutant: a result that is there is used although time ran out.
CodexAnswersLate ==
    /\ adapter = "codex" /\ pc = "collect" /\ reader = "done"
    /\ \/ ending # "exit" /\ file # "object" /\ Stopped(heard)
       \/ ending = "exit" /\ Judged(heard, {"authentication_required", "capability_unavailable"})
       \/ file = "object" /\ Return("completed", "none", heard)
    /\ UNCHANGED <<adapter, backend, ending, cancels, probe, group, pipes, file>>

CodexAnswers ==
    /\ adapter = "codex" /\ pc = "collect" /\ reader = "done"
    /\ \/ ending # "exit" /\ Stopped(heard)
       \/ ending = "exit" /\ Judged(heard, {"authentication_required", "capability_unavailable"})
       \/ ending = "exit" /\ leader = "ok" /\ file = "object" /\ Return("completed", "none", heard)
    /\ UNCHANGED <<adapter, backend, ending, cancels, probe, group, pipes, file>>

ClaudeAnswers ==
    /\ adapter = "claude" /\ pc = "collect" /\ reader = "done"
    /\ \/ ending # "exit" /\ Stopped(FALSE)
       \/ ending = "exit" /\ Judged(FALSE, {"authentication_required", "adapter_unavailable"})
       \/ ending = "exit" /\ leader = "ok" /\ file = "object" /\ Return("completed", "none", heard)
    /\ UNCHANGED <<adapter, backend, ending, cancels, probe, group, pipes, file>>

\* Mutant: the failure of a reader ends the wait.
CollectRaisesEarly ==
    /\ pc \in {"wait", "collect"} /\ reader = "failed"
    /\ pc' = "raised"
    /\ UNCHANGED <<adapter, backend, ending, result, cancels, probe, group, pipes, file>>

\* The failure of the reading task leaves _run as it is.
CollectRaises ==
    /\ pc = "collect" /\ reader = "failed"
    /\ pc' = "raised"
    /\ UNCHANGED <<adapter, backend, ending, result, cancels, probe, group, pipes, file>>

-----------------------------------------------------------------------------
(* The agent CLI and its helper, which FRA does not control.               *)

AgentReads ==
    /\ holders # {} /\ unread > 0
    /\ unread' = unread - 1
    /\ UNCHANGED <<adapter, backend, callState, probe, group, holders, out, reader, heard, file>>

AgentCloses(m) ==
    /\ m \in holders
    /\ holders' = holders \ {m}
    /\ UNCHANGED <<adapter, backend, callState, probe, group, unread, out, reader, heard, file>>

AgentWrites ==
    /\ leader = "running" /\ Len(out) < PipeSize
    /\ \E line \in {"line", "long"} : out' = Append(out, line)
    /\ UNCHANGED <<adapter, backend, callState, probe, group, unread, holders, reader, heard, file>>

AgentSaves ==
    /\ leader = "running" /\ file = "none"
    /\ file' \in {"object", "other"}
    /\ UNCHANGED <<adapter, backend, callState, probe, group, pipes>>

\* The helper has the input open if the leader had.
AgentForks ==
    /\ leader = "running" /\ helper = "absent"
    /\ helper' = "running"
    /\ holders' = holders \cup {m \in {"helper"} : "leader" \in holders}
    /\ UNCHANGED <<adapter, backend, callState, probe, leader, deaf, signals,
                   unread, out, reader, heard, file>>

LeaderExits ==
    /\ leader = "running"
    /\ leader' \in {"ok", "error"} /\ holders' = holders \ {"leader"}
    /\ UNCHANGED <<adapter, backend, callState, probe, helper, deaf, signals,
                   unread, out, reader, heard, file>>

HelperExits ==
    /\ helper = "running"
    /\ helper' = "gone" /\ holders' = holders \ {"helper"}
    /\ UNCHANGED <<adapter, backend, callState, probe, leader, deaf, signals,
                   unread, out, reader, heard, file>>

Dies(m) ==
    /\ Running(m)
    /\ signals[m] = "kill" \/ (signals[m] = "term" /\ m \notin deaf)
    /\ IF m = "leader" THEN leader' = "error" /\ UNCHANGED helper
                       ELSE helper' = "gone" /\ UNCHANGED leader
    /\ holders' = holders \ {m}
    /\ UNCHANGED <<adapter, backend, callState, probe, deaf, signals,
                   unread, out, reader, heard, file>>

-----------------------------------------------------------------------------

\* What the call does by itself.
Call ==
    \/ ProbeEnds \/ SpawnFails \/ CodexSpawn \/ ClaudeSpawn \/ Fed \/ FeedBreaks
    \/ CodexExited \/ ClaudeExited \/ Terminated \/ Kill
    \/ CodexAnswers \/ ClaudeAnswers \/ CollectRaises

Read == ReadLine \/ ReadFails \/ ReadEnds

Cancel == CancelProbe \/ CancelWait \/ CancelEscapes

Agent ==
    \/ AgentReads \/ AgentWrites \/ AgentSaves \/ AgentForks
    \/ LeaderExits \/ HelperExits
    \/ \E m \in Members : AgentCloses(m) \/ Dies(m)

Next == CodexHealth \/ ClaudeHealth \/ Execute \/ Call \/ TimesOut \/ Read \/ Cancel \/ Agent

Spec == Init /\ [][Next]_vars

\* The event loop runs the call and its readers, the timer of wait_for fires, and
\* the kernel delivers a signal that is not ignored.  Nothing else is fair: the
\* agent may hang, and so may its helper.
Fairness ==
    /\ WF_vars(Execute)
    /\ WF_vars(Call)
    /\ WF_vars(TimesOut)
    /\ WF_vars(Read)
    /\ \A m \in Members : WF_vars(Dies(m))

FairSpec == Spec /\ Fairness
=============================================================================

----------------------------- MODULE AgentProps -----------------------------
(***************************************************************************)
(* What a stage executed by an agent CLI must show, stated over            *)
(* AgentProcess, and the mapping to the abstract AgentCall.                *)
(***************************************************************************)
EXTENDS AgentProcess

\* The group as a caller sees it: live while somebody has the pipes open, then
\* the exit status of its leader.
GroupMap == IF PipesOpen THEN "live" ELSE leader

ReplyMap ==
    IF pc = "raised" THEN [status |-> "raised", failure |-> "none", session |-> FALSE] ELSE result

Contract == INSTANCE AgentCall WITH group <- GroupMap, reply <- ReplyMap

-----------------------------------------------------------------------------

\* Type invariant.
TypeOK ==
    /\ adapter \in {"codex", "claude"}
    /\ capabilities \subseteq Abilities
    /\ health \in {"unknown", "healthy", "adapter_unavailable", "capability_unsupported",
                   "capability_unavailable", "authentication_required"}
    /\ pc \in {"idle", "probe", "spawn", "feed", "wait", "terminate", "kill", "collect", "returned", "raised"}
    /\ ending \in {"none", "exit", "timeout", "cancelled"}
    /\ result \in {None} \cup Contract!Replies
    /\ cancels \in Nat
    /\ probe \in {"absent", "running", "gone"}
    /\ leader \in {"absent", "running", "ok", "error"}
    /\ helper \in {"absent", "running", "gone"}
    /\ deaf \subseteq Members
    /\ signals \in [Members -> {"none", "term", "kill"}]
    /\ unread \in Nat
    /\ holders \subseteq Members
    /\ out \in Seq({"line", "long"})
    /\ reader \in {"off", "reading", "done", "failed"}
    /\ heard \in BOOLEAN
    /\ file \in {"none", "object", "other"}

-----------------------------------------------------------------------------

\* A call that returns leaves nobody behind that has its pipes open, whether the
\* agent ended by itself, ran out of time or was cancelled, and whoever of the
\* group ignores SIGTERM (docs/10-implementation-plan.md:266,
\* subprocesses.py:35).
ReturnedMeansQuiet == pc = "returned" => ~PipesOpen

\* A completed stage is one whose CLI exited with status 0, unsignalled, and left
\* an object; a timeout or cancellation that races its exit never yields one.
CompletedEarned ==
    pc = "returned" /\ result.status = "completed" =>
        leader = "ok" /\ signals["leader"] = "none" /\ file = "object"

\* The CLI outlives a call only where it has closed its input, so that writing the
\* prompt may fail, or where a cancellation comes while the prompt is written or
\* another one or a timeout is handled: no failure of the wait or of the readers
\* leaves it running.
OutlivesOnly == Ended /\ leader = "running" => "leader" \notin holders \/ cancels > 0

\* Every call ends, except when the agent or its helper keeps the input open and
\* does not read a prompt longer than the pipe takes (no timeout is set yet,
\* codex_cli.py:212), or a helper that outlived the leader keeps the output open
\* (no timeout is set any more, codex_cli.py:241, claude_cli.py:157).
CallEndsUnless ==
    \/ <>Ended
    \/ <>[](pc = "feed" /\ unread > Window /\ holders # {})
    \/ <>[](pc = "collect" /\ helper = "running")

\* Every call ends (docs/02-architecture.md:351: "All external calls have
\* timeouts").
CallBounded == <>Ended

-----------------------------------------------------------------------------

\* The adapters implement AgentCall: one group, one answer, after the group.
ImplementsCall == Contract!Spec
=============================================================================

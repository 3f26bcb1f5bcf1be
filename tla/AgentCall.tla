----------------------------- MODULE AgentCall ------------------------------
(***************************************************************************)
(* What a caller of AgentBackend.execute or resume may rely on             *)
(* (ports/agent_backend.py): one call starts at most one group of          *)
(* processes and is answered at most once; an answer comes only when no    *)
(* process of the group has the pipes open any more, and "completed" only  *)
(* for a group whose leader exited with status 0.  A call may also end by  *)
(* an exception, which promises nothing about the group.                   *)
(***************************************************************************)

CONSTANT None

VARIABLES group,  \* the agent CLI and what it started
          reply   \* the result, Raised, or None while the call runs

callVars == <<group, reply>>

\* The failure kinds the adapters return, by status.
FailureKinds == {"adapter_unavailable", "timeout", "authentication_required",
                 "capability_unavailable", "structured_output_invalid"}

Replies ==
    [status : {"completed"}, failure : {"none"}, session : BOOLEAN]
        \cup [status : {"cancelled"}, failure : {"cancelled"}, session : BOOLEAN]
        \cup [status : {"failed"}, failure : FailureKinds, session : BOOLEAN]

\* An exception instead of a result.
Raised == [status |-> "raised", failure |-> "none", session |-> FALSE]

Init == group = "absent" /\ reply = None

Spawn ==
    /\ group = "absent" /\ reply = None
    /\ group' = "live"
    /\ UNCHANGED reply

\* The last process that has the pipes open exits; the status is the leader's.
End(status) ==
    /\ group = "live"
    /\ group' = status
    /\ UNCHANGED reply

Answer(r) ==
    /\ reply = None
    /\ group # "live"
    /\ r.status = "completed" => group = "ok"
    /\ reply' = r
    /\ UNCHANGED group

Escape ==
    /\ reply = None
    /\ reply' = Raised
    /\ UNCHANGED group

Next ==
    \/ Spawn
    \/ \E status \in {"ok", "error"} : End(status)
    \/ \E r \in Replies : Answer(r)
    \/ Escape

Spec == Init /\ [][Next]_callVars
=============================================================================

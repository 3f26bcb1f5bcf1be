------------------------------ MODULE MCAgent -------------------------------
(***************************************************************************)
(* Small instances of AgentProcess for TLC.                                *)
(***************************************************************************)
EXTENDS AgentProps

\* A prompt that fits the pipe and one that does not.
ShortAndLong == {1, 2}
LongPrompt == {2}
=============================================================================

--------------------------- MODULE MCRunLifecycle ---------------------------
(***************************************************************************)
(* RunLifecycle with the number of recorded stages bounded, for TLC.       *)
(***************************************************************************)
EXTENDS RunLifecycle

CONSTANT MaxStages      \* bound: stages recorded in one run

BoundedRecord == Len(done) < MaxStages /\ Record

BoundedSpec ==
    Init /\ [][Create \/ Enter \/ BoundedRecord \/ Interrupt \/ Reopen \/ Complete]_lifecycle
=============================================================================

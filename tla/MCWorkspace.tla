----------------------------- MODULE MCWorkspace -----------------------------
(* Values of the constants of WorkspaceMaintenance for TLC. *)
EXTENDS WorkspaceProps, TLC

OldContents == {[schema |-> 0, mark |-> 1], [schema |-> 1, mark |-> 1],
                [schema |-> 2, mark |-> 1]}
Open == {{}}

Alike == Permutations(Procs)
=============================================================================

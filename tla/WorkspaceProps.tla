--------------------------- MODULE WorkspaceProps ----------------------------
(***************************************************************************)
(* What is expected of the copies and indexes of a workspace that calls    *)
(* keep writing to.                                                        *)
(***************************************************************************)
EXTENDS WorkspaceMaintenance, FileStoreProps

\* Documents that are written once, and those that carry a time stamp.
Immutable(d) == d.kind \notin {"run", "claim", "verification", "limitation",
                               "status", "cache"}
Stamped(d) == d.kind \in {"run", "status"}

\* A mandate that a creation left behind when it was killed is written anew
\* by the next creation of the run: it is final when run.md is there.
Final(d) == Immutable(d) /\ (d = Mandate => Present(dest, Doc("run")))

\* fra workspace export, when it reports success: the copy is closed as the
\* source is, holds nothing that the source does not, immutable documents as
\* they are, and stamped ones as they are or were before.
ExportFaithful ==
  told = "exported" =>
    /\ Closed(dest)
    /\ \A d \in DOMAIN dest : Present(dest, d) =>
         /\ Exists(d)
         /\ Final(d) => dest[d] = files[d]
         /\ Stamped(d) => dest[d].mark <= files[d].mark

\* fra workspace migrate, when it reports success or failed files: all but
\* cache entries that other versions of the program wrote is in the copy, and a
\* file of the copy is of this version unless the report names it, which then
\* is as it was.  Success is reported when no file failed, and only then.
MigrationComplete ==
  told \in {"migrated", "corrupt"} =>
    /\ told = "migrated" <=> report = {}
    /\ \A d \in DOMAIN files :
         Exists(d) /\ files[d].schema # 1 /\ d.kind # "cache" =>
           /\ Present(dest, d)
           /\ d \in report => dest[d].schema = files[d].schema
    /\ \A d \in DOMAIN dest :
         Present(dest, d) /\ d \notin report => dest[d].schema = 1

\* fra workspace rebuild-index: both indexes list the same files, which are
\* there, and none without those it needs.
IndexesAgree ==
  told = "rebuilt" =>
    /\ index.page = index.json
    /\ \A d \in index.page : Exists(d) /\ Needs(d) \subseteq index.page
=============================================================================

--------------------------- MODULE FileStoreProps ----------------------------
(***************************************************************************)
(* What is expected of the files of a workspace.                           *)
(***************************************************************************)
EXTENDS FileStore

\* By process, a call of the contract is judged when its checks fail or its
\* document is replaced, and over when it returns.
Phase(p) ==
  CASE pc[p] = "idle" -> "idle"
    [] pc[p] \in {"release", "return"} -> verdict[p]
    [] pc[p] = "sync" /\ target[p] = request[p].doc -> "applied"
    [] OTHER -> "asked"

WithoutMandate(fs) == [d \in DocsOf(aggregate) |-> fs[d]]

Contract == INSTANCE Repository WITH
  docs <- WithoutMandate(files),
  kept <- {WithoutMandate(fs) : fs \in disk},
  phase <- [p \in Procs |-> Phase(p)]

\* The Markdown repositories keep the contract of the in-memory ones: every
\* call, whatever runs beside it and wherever it is killed, takes effect at
\* one instant or not at all, and what was returned as saved is not lost.
ImplementsRepository == Contract!Spec

InsideSteps == {"check", "stage", "flush", "replace", "sync", "release"}
Inside(p) == pc[p] \in InsideSteps

\* AggregateLock: of two calls on one aggregate, one is between its check and
\* its last write at a time; its end or its death frees the lock.
OneWriter == \A p \in Procs : Inside(p) <=> holder = p

\* Through kills and power failures no version is without the one before it,
\* no score without its outcome, nothing of a run without run.md, and no
\* run.md without mandate.md.
FilesClosed ==
  /\ Closed(files)
  /\ aggregate = "run" /\ Exists(Doc("run")) => Exists(Mandate)

Stored == Old \union Values \union {None}
Endings == {"none", "saved", "conflict", "missing", "corrupt", "error"}

\* Files and the disk hold whole documents only, a call under way and a
\* temporary file are there when and only when the steps say so.
TypeOK ==
  /\ aggregate \in Aggregates
  /\ files \in [FilesOf(aggregate) -> Stored]
  /\ disk \subseteq [FilesOf(aggregate) -> Stored]
  /\ files \in disk
  /\ holder \in Procs \union {None}
  /\ pc \in [Procs -> {"idle", "look", "wait", "return"} \union InsideSteps]
  /\ request \in [Procs -> CallsOn(aggregate) \union {None}]
  /\ target \in [Procs -> FilesOf(aggregate) \union {None}]
  /\ temp \in [Procs -> [seen : Values, stored : Values \union {Torn}]
                         \union {None}]
  /\ verdict \in [Procs -> Endings] /\ answer \in [Procs -> Endings]
  /\ calls \in 0 .. MaxCalls
  /\ \A p \in Procs :
       /\ pc[p] = "idle" => request[p] = None
       /\ pc[p] # "idle" => request[p] \in CallsOn(aggregate)
       /\ pc[p] \notin {"flush", "replace"} => temp[p] = None
       /\ verdict[p] # "none" <=> pc[p] \in {"release", "return"}
=============================================================================

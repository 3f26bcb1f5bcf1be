------------------------------ MODULE FileStore ------------------------------
(***************************************************************************)
(* The Markdown repositories (src/src/fra/adapters/storage/markdown_*.py)  *)
(* over AtomicFileWriter and AggregateLock (atomic_files.py): a call takes *)
(* the lock of its aggregate, looks at the files there are, writes a       *)
(* temporary sibling, flushes it, puts it in the place of the file,        *)
(* flushes the directory and lets go of the lock.  A process can be killed *)
(* between any two of these steps, which frees its lock and leaves the     *)
(* temporary file, and the power can fail.                                 *)
(*                                                                         *)
(* A file has the content that processes see and, on the disk, one that a  *)
(* power failure would leave.  The file system is taken to journal: after  *)
(* a power failure the directory tree is one that was there at some moment *)
(* since the last flush; a file that was put in place unflushed is torn.   *)
(***************************************************************************)
EXTENDS Documents

VARIABLES aggregate, \* the aggregate this behaviour is about
          files,     \* its files as processes see them
          disk,      \* the states of files that a power failure may leave
          holder,    \* the process that holds the lock, or None
          pc,        \* by process: the step of its call that is next
          request,   \* by process: the call, or None
          target,    \* by process: the file being written
          temp,      \* by process: the temporary sibling, seen and on disk
          verdict,   \* by process: what the call will return
          answer,    \* by process: what the last call returned
          calls      \* how many calls were made

vars == <<aggregate, files, disk, holder, pc, request, target, temp, verdict,
          answer, calls>>

\* What a file holds that was cut short: nothing that can be parsed.
Torn == [schema |-> 3, mark |-> 0]
Mandate == Doc("mandate")

\* Creating a run writes mandate.md, which no other call looks at.
FilesOf(a) ==
  DocsOf(a) \union (IF a = "run" THEN {Mandate} ELSE {})

Exists(d) == Present(files, d)

-----------------------------------------------------------------------------
\* What each repository looks at under the lock, and what comes of it.

Once(r) == IF Exists(r.doc) THEN "conflict" ELSE "saved"

Read(d) ==
  CASE ~Exists(d) -> "missing" [] Readable(files, d) -> "saved" [] OTHER -> "corrupt"

\* _required_run_file: only that run.md is there.
InRun(v) == IF Exists(Doc("run")) THEN v ELSE "missing"

CreateRun(r) == Once(r)

SaveRun(r) ==
  IF Read(r.doc) = "saved" /\ r.value.mark < files[r.doc].mark
  THEN "conflict" ELSE Read(r.doc)

SavePlan(r) ==
  InRun(CASE ~Exists(r.doc) -> "saved"
          [] Exists(r.doc) /\ ~Readable(files, r.doc) -> "corrupt"
          [] OTHER -> IF files[r.doc] = r.value THEN "saved" ELSE "conflict")

AddArtifact(r) == InRun(Once(r))

AddClaim(r) == InRun(Once(r))

SaveClaim(r) == InRun(Read(r.doc))

SaveVerification(r) == InRun("saved")

\* The report carries the stamp of the run, which is read for it.
SaveReport(r) ==
  InRun(IF Exists(r.doc) THEN "conflict" ELSE Read(Doc("run")))

SaveLimitation(r) == Read(Doc("run"))

Contiguous(r, v) ==
  IF Exists(r.doc) \/ (r.doc.n > 1 /\ ~Exists(Previous(r.doc)))
  THEN "conflict" ELSE v

SaveSignal(r) ==
  Contiguous(r, IF r.value.mark = r.doc.n - 1 THEN "saved" ELSE "conflict")

SaveForecast(r) == Contiguous(r, "saved")

SaveGraph(r) == Contiguous(r, "saved")

SavePortfolio(r) == Contiguous(r, "saved")

SaveProfile(r) == Once(r)

SaveOutcome(r) == Once(r)

SaveScore(r) == Once(r)

SaveStatus(r) ==
  IF ~Exists(r.doc) THEN "saved"
  ELSE IF Readable(files, r.doc) /\ r.value.mark < files[r.doc].mark
       THEN "conflict" ELSE Read(r.doc)

SaveCache(r) == "saved"

Check(r) ==
  CASE r.doc.kind = "run" -> IF r.add THEN CreateRun(r) ELSE SaveRun(r)
    [] r.doc.kind = "plan" -> SavePlan(r)
    [] r.doc.kind = "artifact" -> AddArtifact(r)
    [] r.doc.kind = "claim" -> IF r.add THEN AddClaim(r) ELSE SaveClaim(r)
    [] r.doc.kind = "verification" -> SaveVerification(r)
    [] r.doc.kind = "report" -> SaveReport(r)
    [] r.doc.kind = "limitation" -> SaveLimitation(r)
    [] r.doc.kind = "signal" -> SaveSignal(r)
    [] r.doc.kind = "forecast" -> SaveForecast(r)
    [] r.doc.kind = "graph" -> SaveGraph(r)
    [] r.doc.kind = "portfolio" -> SavePortfolio(r)
    [] r.doc.kind = "profile" -> SaveProfile(r)
    [] r.doc.kind = "outcome" -> SaveOutcome(r)
    [] r.doc.kind = "score" -> SaveScore(r)
    [] r.doc.kind = "status" -> SaveStatus(r)
    [] r.doc.kind = "cache" -> SaveCache(r)

-----------------------------------------------------------------------------
\* Documents that are there at first were written by some version of the
\* program, run.md after its mandate.md.
Init ==
  /\ aggregate \in Aggregates
  /\ files \in {fs \in [FilesOf(aggregate) -> Old \union {None}] :
                  /\ Closed(fs)
                  /\ aggregate = "run" =>
                       (Present(fs, Mandate) <=> Present(fs, Doc("run")))
                  /\ Cardinality({d \in DocsOf(aggregate) :
                                    Present(fs, d)}) <= MaxOld}
  /\ disk = {files}
  /\ holder = None
  /\ pc = [p \in Procs |-> "idle"]
  /\ request = [p \in Procs |-> None]
  /\ target = [p \in Procs |-> None]
  /\ temp = [p \in Procs |-> None]
  /\ verdict = [p \in Procs |-> "none"]
  /\ answer = [p \in Procs |-> "none"]
  /\ calls = 0

Ask(p) ==
  /\ pc[p] = "idle" /\ calls < MaxCalls
  /\ \E r \in CallsOn(aggregate) :
        request' = [request EXCEPT ![p] = r]
  /\ pc' = [pc EXCEPT ![p] = "look"]
  /\ answer' = [answer EXCEPT ![p] = "none"]
  /\ calls' = calls + 1
  /\ UNCHANGED <<aggregate, files, disk, holder, target, temp, verdict>>

\* Only save_score looks at a file before it takes the lock.
Look(p) ==
  LET found == IF request[p].doc.kind = "score"
               THEN Read(Doc("outcome")) ELSE "saved"
  IN /\ pc[p] = "look"
     /\ IF found = "saved"
        THEN pc' = [pc EXCEPT ![p] = "wait"] /\ UNCHANGED verdict
        ELSE /\ pc' = [pc EXCEPT ![p] = "return"]
             /\ verdict' = [verdict EXCEPT ![p] = found]
     /\ UNCHANGED <<aggregate, files, disk, holder, request, target, temp,
                    answer, calls>>

\* A lock file without flock: nobody waits for anybody.
AcquireAnyway(p) ==
  /\ pc[p] = "wait"
  /\ holder' = p
  /\ pc' = [pc EXCEPT ![p] = "check"]
  /\ UNCHANGED <<aggregate, files, disk, request, target, temp, verdict,
                 answer, calls>>

Acquire(p) ==
  /\ pc[p] = "wait" /\ holder = None
  /\ holder' = p
  /\ pc' = [pc EXCEPT ![p] = "check"]
  /\ UNCHANGED <<aggregate, files, disk, request, target, temp, verdict,
                 answer, calls>>

\* A plan that is there is not written again.
Found(r) == r.doc.kind = "plan" /\ Exists(r.doc)

\* run.md is written without, or before, mandate.md.
DecideRunOnly(p) ==
  LET r == request[p]
  IN /\ pc[p] = "check"
     /\ IF Check(r) = "saved" /\ ~Found(r)
        THEN /\ pc' = [pc EXCEPT ![p] = "stage"]
             /\ target' = [target EXCEPT ![p] = r.doc]
             /\ UNCHANGED verdict
        ELSE /\ pc' = [pc EXCEPT ![p] = "release"]
             /\ verdict' = [verdict EXCEPT ![p] = Check(r)]
             /\ UNCHANGED target
     /\ UNCHANGED <<aggregate, files, disk, holder, request, temp, answer,
                    calls>>

\* The checks of save; a call that passes them goes on to write.
Decide(p) ==
  LET r == request[p]
  IN /\ pc[p] = "check"
     /\ IF Check(r) = "saved" /\ ~Found(r)
        THEN /\ pc' = [pc EXCEPT ![p] = "stage"]
             /\ target' = [target EXCEPT ![p] =
                             IF r.doc.kind = "run" /\ r.add
                             THEN Mandate ELSE r.doc]
             /\ UNCHANGED verdict
        ELSE /\ pc' = [pc EXCEPT ![p] = "release"]
             /\ verdict' = [verdict EXCEPT ![p] = Check(r)]
             /\ UNCHANGED target
     /\ UNCHANGED <<aggregate, files, disk, holder, request, temp, answer,
                    calls>>

\* The temporary file takes the place of the file without fsync.
StageUnflushed(p) ==
  /\ pc[p] = "stage"
  /\ temp' = [temp EXCEPT ![p] = [seen |-> request[p].value, stored |-> Torn]]
  /\ pc' = [pc EXCEPT ![p] = "replace"]
  /\ UNCHANGED <<aggregate, files, disk, holder, request, target, verdict,
                 answer, calls>>

\* mkstemp and write: the content is in the cache, not on the disk.
Stage(p) ==
  /\ pc[p] = "stage"
  /\ temp' = [temp EXCEPT ![p] = [seen |-> request[p].value, stored |-> Torn]]
  /\ pc' = [pc EXCEPT ![p] = "flush"]
  /\ UNCHANGED <<aggregate, files, disk, holder, request, target, verdict,
                 answer, calls>>

Flush(p) ==
  /\ pc[p] = "flush"
  /\ temp' = [temp EXCEPT ![p].stored = temp[p].seen]
  /\ pc' = [pc EXCEPT ![p] = "replace"]
  /\ UNCHANGED <<aggregate, files, disk, holder, request, target, verdict,
                 answer, calls>>

\* From here other processes see the new file; the disk may not have it yet.
Replace(p) ==
  /\ pc[p] = "replace"
  /\ files' = [files EXCEPT ![target[p]] = temp[p].seen]
  /\ disk' = disk \union {[files EXCEPT ![target[p]] = temp[p].stored]}
  /\ temp' = [temp EXCEPT ![p] = None]
  /\ pc' = [pc EXCEPT ![p] = "sync"]
  /\ UNCHANGED <<aggregate, holder, request, target, verdict, answer, calls>>

\* The fsync of the directory, whose failure is passed over.
SyncDirectory(p) ==
  /\ pc[p] = "sync"
  /\ disk' = IF Syncs THEN {files} ELSE disk
  /\ IF target[p] = request[p].doc
     THEN /\ pc' = [pc EXCEPT ![p] = "release"]
          /\ verdict' = [verdict EXCEPT ![p] = "saved"]
          /\ UNCHANGED target
     ELSE /\ pc' = [pc EXCEPT ![p] = "stage"]
          /\ target' = [target EXCEPT ![p] = request[p].doc]
          /\ UNCHANGED verdict
  /\ UNCHANGED <<aggregate, files, holder, request, temp, answer, calls>>

\* The call of p is over; its lock is freed by it, or by its death.
Leave(p, told) ==
  /\ holder' = IF holder = p THEN None ELSE holder
  /\ answer' = [answer EXCEPT ![p] = told]
  /\ pc' = [pc EXCEPT ![p] = "idle"]
  /\ request' = [request EXCEPT ![p] = None]
  /\ target' = [target EXCEPT ![p] = None]
  /\ temp' = [temp EXCEPT ![p] = None]
  /\ verdict' = [verdict EXCEPT ![p] = "none"]
  /\ UNCHANGED <<aggregate, files, disk, calls>>

Release(p) == pc[p] = "release" /\ Leave(p, verdict[p])

Return(p) == pc[p] = "return" /\ Leave(p, verdict[p])

\* A failed write leaves its temporary file behind.
WriteFailsLeaving(p) ==
  /\ pc[p] \in {"wait", "stage", "flush", "replace"}
  /\ pc' = [pc EXCEPT ![p] = IF @ = "wait" THEN "return" ELSE "release"]
  /\ verdict' = [verdict EXCEPT ![p] = "error"]
  /\ UNCHANGED <<aggregate, files, disk, holder, request, target, temp, answer,
                 calls>>

\* An OSError of a write takes the temporary file away and leaves the lock;
\* one on the lock file leaves the call at once.
WriteFails(p) ==
  /\ pc[p] \in {"wait", "stage", "flush", "replace"}
  /\ pc' = [pc EXCEPT ![p] = IF @ = "wait" THEN "return" ELSE "release"]
  /\ verdict' = [verdict EXCEPT ![p] = "error"]
  /\ temp' = [temp EXCEPT ![p] = None]
  /\ UNCHANGED <<aggregate, files, disk, holder, request, target, answer,
                 calls>>

Die(p) == pc[p] # "idle" /\ Leave(p, "none")

PowerLoss ==
  /\ files' \in disk /\ disk' = {files'}
  /\ holder' = None
  /\ pc' = [p \in Procs |-> "idle"]
  /\ request' = [p \in Procs |-> None]
  /\ target' = [p \in Procs |-> None]
  /\ temp' = [p \in Procs |-> None]
  /\ verdict' = [p \in Procs |-> "none"]
  /\ answer' = [p \in Procs |-> "none"]
  /\ UNCHANGED <<aggregate, calls>>

Step(p) ==
  \/ Look(p) \/ Acquire(p) \/ Decide(p) \/ Stage(p) \/ Flush(p) \/ Replace(p)
  \/ SyncDirectory(p) \/ Release(p) \/ Return(p)

Next ==
  \/ \E p \in Procs : Ask(p) \/ Step(p) \/ WriteFails(p) \/ Die(p)
  \/ PowerLoss

Spec == Init /\ [][Next]_vars
=============================================================================

------------------------ MODULE WorkspaceMaintenance -------------------------
(***************************************************************************)
(* fra init and fra workspace export, migrate and rebuild-index            *)
(* (src/src/fra/adapters/storage/workspace_maintenance.py), run beside the *)
(* calls of FileStore: they list the files once and then read them one by  *)
(* one, without a lock.  A destination is one directory, new or left over  *)
(* from an earlier command.                                                *)
(***************************************************************************)
EXTENDS FileStore

CONSTANTS MaxActs,  \* the number of calls and commands together (a bound)
          Shadowed  \* the sets of roots below a directory named cache or logs

ASSUME MaintenanceAssumption ==
  MaxActs \in Nat /\ Shadowed \subseteq SUBSET {"source", "destination"}

VARIABLES shadowed,    \* which of the two roots lies below such a directory
          initialized, \* whether workspace.md is there
          dest,        \* the destination: None, or its copies of the files
          index,       \* what artifacts.json and index.md list
          job,         \* the command under way
          told,        \* what the last command ended with
          report,      \* the files that migration-report.md names as failed
          jobs         \* how many commands were given

jvars == <<shadowed, initialized, dest, index, job, told, report, jobs>>
allvars == <<vars, jvars>>

Idle == [step |-> "idle", migrate |-> FALSE, listed |-> {}, todo |-> {},
         failed |-> {}]

\* The order of paths below the workspace, which is that of the copies.
PathOrder == <<"claim", "artifact", "limitation", "mandate", "plan", "report",
               "run", "score", "outcome", "verification">>

Rank(d) == IF \E i \in DOMAIN PathOrder : PathOrder[i] = d.kind
           THEN CHOOSE i \in DOMAIN PathOrder : PathOrder[i] = d.kind ELSE d.n

FirstPath(ds) == CHOOSE d \in ds : \A e \in ds : Rank(d) <= Rank(e)

\* Of a versioned artifact only the latest version is listed.
LatestFiles(root, fs) ==
  {d \in DOMAIN fs :
     /\ Present(fs, d) /\ d.kind # "cache"
     /\ ~\E e \in DOMAIN fs : e.n > d.n /\ Present(fs, e)}

\* Cache entries are left out.  The filter looks at every part of a path, the
\* parts of the root included.
MarkdownFiles(root, fs) ==
  IF root \in shadowed THEN {}
  ELSE {d \in DOMAIN fs : Present(fs, d) /\ d.kind # "cache"}

JobInit ==
  /\ shadowed \in Shadowed
  /\ initialized = (\E d \in DOMAIN files : Exists(d))
  /\ dest = None
  /\ index = [json |-> {}, page |-> {}]
  /\ job = Idle
  /\ told = "none"
  /\ report = {}
  /\ jobs = 0

Begin(step, migrate) ==
  /\ job = Idle /\ calls + jobs < MaxActs
  /\ job' = [Idle EXCEPT !.step = step, !.migrate = migrate]
  /\ told' = "none"
  /\ jobs' = jobs + 1
  /\ UNCHANGED <<vars, shadowed, initialized, dest, index, report>>

EndJob(ending) ==
  job' = Idle /\ told' = ending /\ UNCHANGED <<vars, shadowed, jobs>>

Go(step) == job' = [job EXCEPT !.step = step]

Initialize ==
  /\ job.step = "init" /\ EndJob("initialized")
  /\ initialized' = TRUE /\ UNCHANGED <<dest, index, report>>

\* The refusals of export and _new_destination, then the new directory.
Prepare(place) ==
  /\ job.step = "export"
  /\ IF initialized /\ place = "outside" /\ dest = None
     THEN /\ dest' = [d \in FilesOf(aggregate) |-> None]
          /\ Go("list")
          /\ UNCHANGED <<vars, shadowed, told, jobs>>
     ELSE /\ EndJob(IF initialized THEN "conflict" ELSE "missing")
          /\ UNCHANGED dest
  /\ UNCHANGED <<initialized, index, report>>

List ==
  /\ job.step = "list"
  /\ job' = [job EXCEPT !.step = "copy",
                        !.listed = MarkdownFiles("source", files),
                        !.todo = MarkdownFiles("source", files)]
  /\ UNCHANGED <<vars, shadowed, initialized, dest, index, told, report, jobs>>

\* One file is read as it is now and written as a whole.
Copy ==
  /\ job.step = "copy" /\ job.todo # {}
  /\ LET d == FirstPath(job.todo)
     IN /\ dest' = [dest EXCEPT ![d] = files[d]]
        /\ job' = [job EXCEPT !.todo = @ \ {d}]
  /\ UNCHANGED <<vars, shadowed, initialized, index, told, report, jobs>>

Copied ==
  /\ job.step = "copy" /\ job.todo = {}
  /\ IF job.migrate
     THEN /\ job' = [job EXCEPT !.step = "convert",
                                !.todo = MarkdownFiles("destination", dest)]
          /\ UNCHANGED <<vars, shadowed, told, jobs>>
     ELSE EndJob("exported")
  /\ UNCHANGED <<initialized, dest, index, report>>

\* The first file that cannot be converted ends the conversion.
ConvertUntilFailure ==
  /\ job.step = "convert" /\ job.todo # {}
  /\ LET d == FirstPath(job.todo)
     IN /\ dest' = IF dest[d].schema = 0
                   THEN [dest EXCEPT ![d].schema = 1] ELSE dest
        /\ job' = IF dest[d].schema \in {0, 1}
                  THEN [job EXCEPT !.todo = @ \ {d}]
                  ELSE [job EXCEPT !.todo = {}, !.failed = {d}]
  /\ UNCHANGED <<vars, shadowed, initialized, index, told, report, jobs>>

\* One file that cannot be converted does not stop the others.
Convert ==
  /\ job.step = "convert" /\ job.todo # {}
  /\ LET d == FirstPath(job.todo)
     IN /\ dest' = IF dest[d].schema = 0
                   THEN [dest EXCEPT ![d].schema = 1] ELSE dest
        /\ job' = [job EXCEPT !.todo = @ \ {d},
                     !.failed = IF dest[d].schema \in {0, 1}
                                THEN @ ELSE @ \union {d}]
  /\ UNCHANGED <<vars, shadowed, initialized, index, told, report, jobs>>

\* Nor does one that cannot be read or written.
ConvertFails ==
  /\ job.step = "convert" /\ job.todo # {}
  /\ LET d == FirstPath(job.todo)
     IN job' = [job EXCEPT !.todo = @ \ {d}, !.failed = @ \union {d}]
  /\ UNCHANGED <<vars, shadowed, initialized, dest, index, told, report, jobs>>

Report ==
  /\ job.step = "convert" /\ job.todo = {}
  /\ EndJob(IF job.failed = {} THEN "migrated" ELSE "corrupt")
  /\ report' = job.failed
  /\ UNCHANGED <<initialized, dest, index>>

WriteIndex ==
  /\ job.step = "index"
  /\ job' = [job EXCEPT !.step = "page",
                        !.listed = MarkdownFiles("source", files)]
  /\ index' = [index EXCEPT !.json = MarkdownFiles("source", files)]
  /\ UNCHANGED <<vars, shadowed, initialized, dest, told, report, jobs>>

\* The page is made from a listing of its own.
WritePageAnew ==
  /\ job.step = "page" /\ EndJob("rebuilt")
  /\ index' = [index EXCEPT !.page = MarkdownFiles("source", files)]
  /\ UNCHANGED <<initialized, dest, report>>

WritePage ==
  /\ job.step = "page" /\ EndJob("rebuilt")
  /\ index' = [index EXCEPT !.page = job.listed]
  /\ UNCHANGED <<initialized, dest, report>>

\* A command ends at any step, by an error of the file system or a kill.
JobStops ==
  /\ job # Idle
  /\ \E ending \in {"error", "none"} : EndJob(ending)
  /\ UNCHANGED <<initialized, dest, index, report>>

JobStep ==
  \/ Initialize \/ Prepare("outside") \/ List \/ Copy \/ Copied
  \/ Convert \/ ConvertFails \/ Report \/ WriteIndex \/ WritePage

\* The power fails for the commands too.
PowerLossHere ==
  /\ PowerLoss /\ job' = Idle /\ told' = "none"
  /\ UNCHANGED <<shadowed, initialized, dest, index, report, jobs>>

\* Every command but init refuses to start in a directory without workspace.md.
Call(p) ==
  /\ initialized /\ calls + jobs < MaxActs
  /\ Ask(p) /\ UNCHANGED jvars

WorkspaceInit == Init /\ JobInit

WorkspaceNext ==
  \/ \E p \in Procs : Call(p)
  \/ \E p \in Procs : Step(p) /\ UNCHANGED jvars
  \/ \E p \in Procs : (WriteFails(p) \/ Die(p)) /\ UNCHANGED jvars
  \/ \E m \in BOOLEAN : Begin("export", m)
  \/ Begin("init", FALSE) \/ Begin("index", FALSE)
  \/ JobStep \/ Prepare("inside") \/ JobStops \/ PowerLossHere

WorkspaceSpec == WorkspaceInit /\ [][WorkspaceNext]_allvars
=============================================================================

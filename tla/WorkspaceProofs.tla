--------------------------- MODULE WorkspaceProofs ---------------------------
(***************************************************************************)
(* TLAPS proofs about the workspace commands beside any processes that     *)
(* call the repositories, for any number of calls and commands.            *)
(*                                                                         *)
(* A command takes no lock.  What it may rely on is that outside a power   *)
(* failure files only grow (FilesGrow): none goes away, an immutable one   *)
(* stays as it is, stamps do not go back, and a file of another version of *)
(* the program is never written.  JobInv says what the command under way   *)
(* holds of the files as they are now.                                     *)
(***************************************************************************)
EXTENDS WorkspaceProps, FileStoreProofs, WellFoundedInduction, NaturalsInduction

\* The calls of the repositories do nothing else to an immutable document that
\* is there; a mandate is one once run.md is.
Settled(d) == Immutable(d) /\ (d = Mandate => Exists(Doc("run")))

\* What a step of the repositories leaves of the files.
Grow ==
  /\ aggregate' = aggregate
  /\ \A d \in FilesOf(aggregate) :
       Exists(d) =>
         /\ files'[d] # None
         /\ Settled(d) => files'[d] = files[d]
         /\ Stamped(d) => files[d].mark <= files'[d].mark
  /\ \A d \in FilesOf(aggregate) :
       files'[d] # None /\ files'[d].schema # 1 => files'[d] = files[d]

-----------------------------------------------------------------------------
(* The invariant of the commands.                                          *)

\* These files are there, none of them a cache entry, with all that they need.
Entire(L) ==
  \A d \in L : /\ d \in FilesOf(aggregate) /\ Exists(d) /\ d.kind # "cache"
              /\ Needs(d) \subseteq L

\* The copy of d, beside those of L, is d as it is, or was before.
Faithful(L, d) ==
  /\ Exists(d)
  /\ Immutable(d) /\ (d = Mandate => Doc("run") \in L) => dest[d] = files[d]
  /\ Stamped(d) => dest[d].mark <= files[d].mark

\* A file that another version of the program wrote and a command lists.
Foreign(d) == Exists(d) /\ files[d].schema # 1 /\ d.kind # "cache"

Copies == {d \in FilesOf(aggregate) : Present(dest, d)}

Copying ==
  /\ dest \in [FilesOf(aggregate) -> Stored]
  /\ Entire(job.listed) /\ job.todo \subseteq job.listed
  /\ Copies = job.listed \ job.todo
  /\ \A d \in Copies :
       /\ Faithful(job.listed, d)
       /\ Foreign(d) => dest[d].schema = files[d].schema
  /\ shadowed = {} => \A d \in FilesOf(aggregate) : Foreign(d) => d \in job.listed

\* Of the copies, those of F may be of another version; of what other versions
\* wrote, those of U are as they were.
Current(F) == \A d \in Copies : d \in F \/ dest[d].schema = 1
Untouched(U) ==
  \A d \in FilesOf(aggregate) : Foreign(d) =>
    Present(dest, d) /\ (d \in U => dest[d].schema = files[d].schema)

Converting ==
  /\ dest \in [FilesOf(aggregate) -> Stored]
  /\ job.todo \subseteq Copies /\ job.todo \intersect job.failed = {}
  /\ shadowed = {} => /\ Current(job.todo \union job.failed)
                      /\ Untouched(job.todo \union job.failed)

Exported ==
  /\ dest \in [FilesOf(aggregate) -> Stored]
  /\ Entire(Copies)
  /\ \A d \in Copies : Faithful(Copies, d)

Migrated ==
  /\ dest \in [FilesOf(aggregate) -> Stored]
  /\ told = "migrated" <=> report = {}
  /\ shadowed = {} => Current(report) /\ Untouched(report)

JobInv ==
  /\ DOMAIN job = DOMAIN Idle /\ DOMAIN index = {"json", "page"}
  /\ job.step # "idle" => told = "none"
  /\ job.step \in {"export", "list", "copy"} => job.failed = {}
  /\ job.step = "list" => dest = [d \in FilesOf(aggregate) |-> None]
  /\ job.step = "copy" => Copying
  /\ job.step = "convert" => Converting
  /\ job.step = "page" => index.json = job.listed /\ Entire(job.listed)
  /\ told = "exported" => Exported
  /\ told \in {"migrated", "corrupt"} => Migrated
  /\ told = "rebuilt" => index.page = index.json /\ Entire(index.page)

-----------------------------------------------------------------------------
(* What the calls of the repositories do to the files.                     *)

\* The documents that are put in place once, by a call that finds none.
LEMMA WrittenOnce ==
  ASSUME aggregate \in Aggregates, NEW r \in CallsOn(aggregate),
         Check(r) = "saved", ~Found(r), Immutable(r.doc)
  PROVE  ~Exists(r.doc)
  <1>0. r.doc \in DocsOf(aggregate)
    BY DEF CallsOn
  <1>1. r.doc.kind \in {"plan", "artifact", "report", "outcome", "score", "profile"} \union Versioned
    BY <1>0, KindsOfDocs DEF Immutable, RunKinds
  <1>2. CASE r.doc.kind = "plan"
    BY <1>2 DEF Found
  <1>3. CASE r.doc.kind \in {"artifact", "outcome", "score", "profile"}
    BY <1>3 DEF Check, AddArtifact, SaveOutcome, SaveScore, SaveProfile, InRun, Once
  <1>4. CASE r.doc.kind = "report"
    BY <1>4 DEF Check, SaveReport, InRun
  <1>5. CASE r.doc.kind \in Versioned
    BY <1>5 DEF Check, Versioned, SaveSignal, SaveForecast, SaveGraph, SavePortfolio, Contiguous
  <1> QED
    BY <1>1, <1>2, <1>3, <1>4, <1>5

\* A stamp that a call puts in the place of another is no older.
LEMMA StampsForward ==
  ASSUME aggregate \in Aggregates, files \in [FilesOf(aggregate) -> Stored],
         NEW r \in CallsOn(aggregate),
         Check(r) = "saved", Stamped(r.doc), Exists(r.doc)
  PROVE  files[r.doc].mark <= r.value.mark
  <1>0. r.doc \in FilesOf(aggregate) /\ r.value \in Values
    BY DEF CallsOn, FilesOf
  <1>1. files[r.doc].mark \in Nat /\ r.value.mark \in Nat
    BY <1>0, DocumentsAssumption DEF Stored, Values, Exists, Present
  <1>2. CASE r.doc.kind = "run" /\ ~r.add
    BY <1>1, <1>2, ReadIs DEF Check, SaveRun
  <1>3. CASE r.doc.kind = "run" /\ r.add
    BY <1>3 DEF Check, CreateRun, Once
  <1>4. CASE r.doc.kind = "status"
    BY <1>1, <1>4, ReadIs DEF Check, SaveStatus
  <1> QED
    BY <1>2, <1>3, <1>4 DEF Stamped

\* A file that another version of the program wrote is not replaced by calls
\* that read it; what is put in place is of this version.
LEMMA FilesGrow ==
  ASSUME IInv, NEW p \in Procs, Ask(p) \/ Step(p) \/ WriteFails(p) \/ Die(p)
  PROVE  Grow
  <1>0. aggregate \in Aggregates /\ files \in [FilesOf(aggregate) -> Stored]
    BY DEF IInv, TypeOK
  <1>1. CASE UNCHANGED <<aggregate, files>>
    <2>1. \A d \in FilesOf(aggregate) : Exists(d) /\ Stamped(d) => files[d].mark \in Nat
      BY <1>0, DocumentsAssumption DEF Stored, Values, Exists, Present
    <2>2. \A d \in FilesOf(aggregate) : Exists(d) /\ Stamped(d) => files[d].mark <= files[d].mark
      BY <2>1
    <2> QED
      BY <1>1, <2>2 DEF Grow, Exists, Present
  <1>2. CASE Replace(p)
    <2> DEFINE r == request[p]
               t == target[p]
    <2>1. /\ temp[p] = [seen |-> r.value, stored |-> r.value] /\ Passed(p)
          /\ r \in CallsOn(aggregate) /\ r.value \in Values
      BY <1>2 DEF Replace, IInv, Underway, TypeOK, CallsOn
    <2>2. files' = [files EXCEPT ![t] = r.value] /\ aggregate' = aggregate
      BY <1>2, <2>1 DEF Replace
    <2>3. /\ Check(r) = "saved" /\ ~Found(r) /\ t \in {r.doc, Mandate}
          /\ t = Mandate => r.doc = Doc("run") /\ r.add
      BY <2>1 DEF Passed
    <2>4. r.value # None /\ r.value.schema = 1
      BY <2>1, DocumentsAssumption DEF Values
    <2> HIDE DEF r, t
    <2>5. ASSUME NEW d \in FilesOf(aggregate)
          PROVE  d # t => files'[d] = files[d]
      BY <1>0, <2>2
    <2>6. ASSUME NEW d \in FilesOf(aggregate), d = t
          PROVE  files'[d] = r.value
      BY <1>0, <2>2, <2>6
    <2>7. ASSUME Settled(t), Exists(t)
          PROVE  FALSE
      <3>1. CASE t = Mandate
        <4>1. Check(r) = Once(r) /\ Exists(Doc("run"))
          BY <2>3, <2>7, <3>1 DEF Check, CreateRun, Doc, Settled
        <4> QED
          BY <2>3, <3>1, <4>1 DEF Once
      <3>2. CASE t = r.doc
        BY <1>0, <2>1, <2>3, <2>7, <3>2, WrittenOnce DEF Settled
      <3> QED
        BY <2>3, <3>1, <3>2
    <2>8. ASSUME Stamped(t), Exists(t)
          PROVE  files[t].mark <= r.value.mark
      <3>1. t = r.doc
        BY <2>3, <2>8 DEF Stamped, Mandate, Doc
      <3> QED
        BY <1>0, <2>1, <2>3, <2>8, <3>1, StampsForward
    <2>9. \A d \in FilesOf(aggregate) : Exists(d) /\ Stamped(d) => files[d].mark <= files[d].mark
      <3>1. \A d \in FilesOf(aggregate) : Exists(d) => files[d].mark \in Nat
        BY <1>0, DocumentsAssumption DEF Stored, Values, Exists, Present
      <3> QED
        BY <3>1
    <2>10. ASSUME NEW d \in FilesOf(aggregate), Exists(d)
           PROVE  /\ files'[d] # None
                  /\ Settled(d) => files'[d] = files[d]
                  /\ Stamped(d) => files[d].mark <= files'[d].mark
      <3>1. CASE d = t
        BY <2>4, <2>6, <2>7, <2>8, <2>10, <3>1
      <3>2. CASE d # t
        BY <2>5, <2>9, <2>10, <3>2 DEF Exists, Present
      <3> QED
        BY <3>1, <3>2
    <2>11. ASSUME NEW d \in FilesOf(aggregate), files'[d] # None, files'[d].schema # 1
           PROVE  files'[d] = files[d]
      BY <2>4, <2>5, <2>6, <2>11
    <2> QED
      BY <2>2, <2>10, <2>11 DEF Grow
  <1>3. CASE Ask(p) \/ (Step(p) /\ ~Replace(p)) \/ WriteFails(p) \/ Die(p)
    BY <1>1, <1>3 DEF Ask, Step, WriteFails, Die, Look, Acquire, Decide, Stage, Flush,
         SyncDirectory, Release, Return, Leave
  <1> QED
    BY <1>2, <1>3

\* What a command holds of the files it holds of files that have grown.
LEMMA GrowKeepsJob ==
  ASSUME IInv, IInv', JobInv, Grow, UNCHANGED jvars
  PROVE  JobInv'
  <1>0. aggregate' = aggregate /\ UNCHANGED <<shadowed, initialized, dest, index, job, told, report, jobs>>
    BY DEF Grow, jvars
  <1>1. ASSUME NEW d \in FilesOf(aggregate), Exists(d)
        PROVE  Exists(d)'
    BY <1>1 DEF Grow, Exists, Present
  <1>2. ASSUME NEW d \in FilesOf(aggregate), Foreign(d)'
        PROVE  Foreign(d) /\ files'[d] = files[d]
    BY <1>2 DEF Grow, Foreign, Exists, Present
  <1>3. ASSUME NEW L, Entire(L)
        PROVE  Entire(L)'
    BY <1>0, <1>1, <1>3 DEF Entire
  <1>4. ASSUME NEW L, NEW d \in FilesOf(aggregate), Faithful(L, d), Entire(L),
               dest \in [FilesOf(aggregate) -> Stored], Present(dest, d)
        PROVE  Faithful(L, d)'
    <2>1. Exists(d) /\ Exists(d)'
      BY <1>1, <1>4 DEF Faithful
    <2>2. Immutable(d) /\ (d = Mandate => Doc("run") \in L) => dest[d] = files[d] /\ Settled(d)
      BY <1>4 DEF Faithful, Settled, Entire
    <2>3. Immutable(d) /\ (d = Mandate => Doc("run") \in L) => files'[d] = files[d]
      BY <2>1, <2>2 DEF Grow
    <2>4. Stamped(d) => dest[d].mark <= files'[d].mark
      <3>1. files[d].mark \in Nat /\ dest[d].mark \in Nat /\ files'[d].mark \in Nat
        <4>1. files[d] \in Old \union Values /\ dest[d] \in Old \union Values
          BY <1>4, <2>1 DEF IInv, TypeOK, Stored, Exists, Present
        <4>2. files'[d] \in Old \union Values
          BY <1>0, <2>1 DEF IInv, TypeOK, Stored, Exists, Present
        <4> QED
          BY <4>1, <4>2, DocumentsAssumption DEF Values
      <3>2. Stamped(d) => dest[d].mark <= files[d].mark /\ files[d].mark <= files'[d].mark
        BY <1>4, <2>1 DEF Faithful, Grow
      <3> QED
        BY <3>1, <3>2
    <2> QED
      BY <1>0, <2>1, <2>2, <2>3, <2>4 DEF Faithful
  <1>5. Copies' = Copies
    BY <1>0 DEF Copies
  <1>6. Copying => Copying'
    <2> SUFFICES ASSUME Copying PROVE Copying'
      OBVIOUS
    <2>1. Entire(job.listed)' /\ job'.todo \subseteq job'.listed
          /\ dest' \in [FilesOf(aggregate') -> Stored] /\ Copies' = job'.listed \ job'.todo
      BY <1>0, <1>3, <1>5 DEF Copying
    <2>2. ASSUME NEW d \in Copies
          PROVE  /\ Faithful(job.listed, d)'
                 /\ Foreign(d)' => dest[d].schema = files'[d].schema
      <3>1. d \in FilesOf(aggregate) /\ Present(dest, d)
        BY DEF Copies
      <3>2. Faithful(job.listed, d)'
        BY <1>0, <1>4, <3>1 DEF Copying
      <3> QED
        BY <1>2, <3>1, <3>2 DEF Copying
    <2>3. shadowed = {} => \A d \in FilesOf(aggregate) : Foreign(d)' => d \in job.listed
      BY <1>2 DEF Copying
    <2> QED
      BY <1>0, <1>5, <2>1, <2>2, <2>3 DEF Copying
  <1>7. ASSUME NEW U
        PROVE  (Current(U) => Current(U)') /\ (Untouched(U) => Untouched(U)')
    BY <1>0, <1>2, <1>5 DEF Current, Untouched
  <1>12. Converting => Converting'
    <2>1. /\ Current(job.todo \union job.failed) => Current(job.todo \union job.failed)'
          /\ Untouched(job.todo \union job.failed) => Untouched(job.todo \union job.failed)'
      BY <1>0, <1>7
    <2> QED
      BY <1>0, <1>5, <2>1 DEF Converting
  <1>8. Exported => Exported'
    <2> SUFFICES ASSUME Exported PROVE Exported'
      OBVIOUS
    <2>1. Entire(Copies)'
      BY <1>3, <1>5 DEF Exported
    <2>2. ASSUME NEW d \in Copies
          PROVE  Faithful(Copies, d)'
      <3>1. d \in FilesOf(aggregate) /\ Present(dest, d)
        BY DEF Copies
      <3> QED
        BY <1>4, <1>5, <3>1 DEF Exported
    <2> QED
      BY <1>0, <1>5, <2>1, <2>2 DEF Exported
  <1>9. Migrated => Migrated'
    <2>1. /\ Current(report) => Current(report)'
          /\ Untouched(report) => Untouched(report)'
      BY <1>0, <1>7
    <2> QED
      BY <1>0, <2>1 DEF Migrated
  <1>10. Entire(job.listed) => Entire(job.listed)'
    BY <1>0, <1>3
  <1>11. Entire(index.page) => Entire(index.page)'
    BY <1>0, <1>3
  <1> QED
    BY <1>0, <1>6, <1>8, <1>9, <1>10, <1>11, <1>12 DEF JobInv

-----------------------------------------------------------------------------
(* The steps of the commands.                                              *)

\* Every set of numbers has a least member.
LEMMA LeastNumber ==
  ASSUME NEW T \in SUBSET Nat, T # {}
  PROVE  \E m \in T : \A n \in T : m <= n
  <1> DEFINE R == OpToRel(<, Nat)
  <1>1. \E m \in T : \A n \in T : <<n, m>> \notin R
    <2>1. IsWellFoundedOn(R, Nat)
      BY NatLessThanWellFounded
    <2> HIDE DEF R
    <2> QED
      BY <2>1, WFMin
  <1>2. \A m, n \in Nat : <<n, m>> \notin R => m <= n
    BY DEF OpToRel
  <1> HIDE DEF R
  <1> QED
    BY <1>1, <1>2

\* The next file of those that are left is one of them.
LEMMA FirstPathIs ==
  ASSUME aggregate \in Aggregates, NEW ds \in SUBSET FilesOf(aggregate), ds # {}
  PROVE  FirstPath(ds) \in ds
  <1>1. ASSUME NEW d \in ds
        PROVE  Rank(d) \in Nat
    <2>1. CASE \E i \in DOMAIN PathOrder : PathOrder[i] = d.kind
      <3>1. Rank(d) \in DOMAIN PathOrder
        BY <2>1 DEF Rank
      <3>2. DOMAIN PathOrder \in SUBSET Nat
        BY DEF PathOrder
      <3> QED
        BY <3>1, <3>2
    <2>2. CASE ~\E i \in DOMAIN PathOrder : PathOrder[i] = d.kind
      <3>1. d.n \in Nat
        <4>1. d \in DocsOf(aggregate) \/ d = Mandate
          BY DEF FilesOf
        <4>2. ASSUME d \in DocsOf(aggregate)
              PROVE  d.n \in Nat
          <5>1. d.kind \in RunKinds => d.n = 0
            BY <4>2, KindsOfDocs DEF Doc
          <5>2. d.kind \in {"outcome", "score", "status", "cache", "profile"} => d.n = 0
            BY <4>2, KindsOfDocs
          <5>3. ASSUME d.kind \in Versioned
                PROVE  d.n \in Nat
            <6>1. aggregate \in Versioned
              BY <4>2, <5>3, KindsOfDocs
            <6>2. d \in [kind : {aggregate}, n : 1 .. MaxVersion]
              BY <4>2, <6>1, DocsOfIs
            <6>3. d.n \in 1 .. MaxVersion /\ MaxVersion \in Nat
              BY <6>2, DocumentsAssumption
            <6> QED
              BY <6>3
          <5>4. d.kind \in RunKinds \union {"outcome", "score", "status", "cache", "profile"}
                            \union Versioned
            BY <4>2, KindsOfDocs
          <5> QED
            BY <5>1, <5>2, <5>3, <5>4
        <4> QED
          BY <4>1, <4>2 DEF Mandate, Doc
      <3> QED
        BY <2>2, <3>1 DEF Rank
    <2> QED
      BY <2>1, <2>2
  <1> DEFINE T == {Rank(d) : d \in ds}
  <1>2. \E m \in T : \A n \in T : m <= n
    <2>1. T \in SUBSET Nat /\ T # {}
      BY <1>1
    <2> HIDE DEF T
    <2> QED
      BY <2>1, LeastNumber
  <1>3. \E d \in ds : \A e \in ds : Rank(d) <= Rank(e)
    BY <1>2
  <1> QED
    BY <1>3 DEF FirstPath

\* What there is when the files are listed lacks nothing.
LEMMA ListedEntire ==
  ASSUME IInv
  PROVE  Entire(MarkdownFiles("source", files))
  <1>1. /\ aggregate \in Aggregates /\ files \in [FilesOf(aggregate) -> Stored] /\ Closed(files)
    BY DEF IInv, TypeOK, Whole
  <1>2. \A d \in FilesOf(aggregate) : Needs(d) \subseteq FilesOf(aggregate)
    BY <1>1, NeedsAreDocs DEF FilesOf
  <1>3. CASE "source" \in shadowed
    BY <1>3 DEF Entire, MarkdownFiles
  <1>4. CASE "source" \notin shadowed
    <2>1. MarkdownFiles("source", files) =
            {d \in FilesOf(aggregate) : Exists(d) /\ d.kind # "cache"}
      BY <1>1, <1>4 DEF MarkdownFiles, Exists
    <2>2. \A d \in FilesOf(aggregate) : Exists(d) => \A e \in Needs(d) : Exists(e)
      BY <1>1 DEF Closed, Exists
    <2>3. \A d, e \in FilesOf(aggregate) : d.kind # "cache" => e.kind # "cache"
      <3>1. CASE aggregate = "cache"
        <4>1. FilesOf(aggregate) = [kind : {"cache"}, n : {0}]
          BY <3>1, DocsOfIs DEF FilesOf
        <4> QED
          BY <4>1
      <3>2. CASE aggregate # "cache"
        <4>1. \A d \in DocsOf(aggregate) : d.kind # "cache"
          <5>1. CASE aggregate = "run"
            <6>1. DocsOf(aggregate) = [kind : RunKinds, n : {0}]
              BY <5>1, DocsOfIs
            <6> QED
              BY <6>1 DEF RunKinds
          <5>2. CASE aggregate = "outcome"
            <6>1. DocsOf(aggregate) = [kind : {"outcome", "score"}, n : {0}]
              BY <5>2, DocsOfIs
            <6> QED
              BY <6>1
          <5>3. CASE aggregate \in {"status", "profile"}
            <6>1. DocsOf(aggregate) = [kind : {aggregate}, n : {0}]
              BY <5>3, DocsOfIs
            <6> QED
              BY <3>2, <6>1
          <5>4. CASE aggregate \in Versioned
            <6>1. DocsOf(aggregate) = [kind : {aggregate}, n : 1 .. MaxVersion]
              BY <5>4, DocsOfIs
            <6> QED
              BY <3>2, <6>1
          <5> QED
            BY <1>1, <3>2, <5>1, <5>2, <5>3, <5>4 DEF Aggregates
        <4> QED
          BY <4>1 DEF FilesOf, Mandate, Doc
      <3> QED
        BY <3>1, <3>2
    <2> QED
      BY <1>2, <2>1, <2>2, <2>3 DEF Entire
  <1> QED
    BY <1>3, <1>4

\* A command that ended leaves what it told of.
LEMMA EndKeeps ==
  ASSUME JobInv, NEW ending, EndJob(ending), DOMAIN index' = {"json", "page"},
         ending = "exported" => Exported',
         ending \in {"migrated", "corrupt"} => Migrated',
         ending = "rebuilt" => (index.page = index.json /\ Entire(index.page))'
  PROVE  JobInv'
  <1>1. job' = Idle /\ told' = ending
    BY DEF EndJob
  <1>2. job'.step = "idle" /\ DOMAIN job' = DOMAIN Idle
    BY <1>1 DEF Idle
  <1>3. /\ told' = "exported" => Exported'
        /\ told' \in {"migrated", "corrupt"} => Migrated'
        /\ told' = "rebuilt" => (index.page = index.json /\ Entire(index.page))'
    BY <1>1
  <1>4. /\ job'.step # "idle" => told' = "none"
        /\ job'.step = "list" => (dest = [d \in FilesOf(aggregate) |-> None])'
        /\ job'.step = "copy" => Copying'
        /\ job'.step = "convert" => Converting'
        /\ job'.step = "page" => (index.json = job.listed /\ Entire(job.listed))'
    BY <1>2
  <1> QED
    BY <1>2, <1>3, <1>4 DEF JobInv

\* One file is copied: as it is now.
LEMMA CopyKeeps ==
  ASSUME IInv, JobInv, Copy
  PROVE  JobInv'
  <1> DEFINE d == FirstPath(job.todo)
  <1>1. /\ job.step = "copy" /\ job.todo # {} /\ told = "none" /\ Copying
        /\ UNCHANGED <<vars, shadowed, index, told>>
    BY DEF Copy, JobInv
  <1>2. /\ dest' = [dest EXCEPT ![d] = files[d]]
        /\ job'.step = "copy" /\ job'.listed = job.listed /\ job'.todo = job.todo \ {d}
        /\ DOMAIN job' = DOMAIN job /\ job'.failed = {}
    BY DEF Copy, JobInv, Idle
  <1>3. /\ dest \in [FilesOf(aggregate) -> Stored] /\ files \in [FilesOf(aggregate) -> Stored]
        /\ Entire(job.listed) /\ job.todo \subseteq job.listed
        /\ job.listed \in SUBSET FilesOf(aggregate) /\ aggregate \in Aggregates
    BY <1>1 DEF IInv, TypeOK, Copying, Entire
  <1>4. d \in job.todo /\ d \in FilesOf(aggregate) /\ d \in job.listed /\ Exists(d)
    BY <1>1, <1>3, FirstPathIs DEF Entire
  <1>5. UNCHANGED <<aggregate, files>>
    BY <1>1 DEF vars
  <1> HIDE DEF d
  <1>6. /\ dest' \in [FilesOf(aggregate) -> Stored] /\ dest'[d] = files[d]
        /\ \A e \in FilesOf(aggregate) : e # d => dest'[e] = dest[e]
    BY <1>2, <1>3, <1>4
  <1>7. Copies' = job'.listed \ job'.todo
    <2>1. Copies' = Copies \union {d}
      BY <1>4, <1>5, <1>6 DEF Copies, Present, Exists
    <2>2. Copies = job.listed \ job.todo
      BY <1>1 DEF Copying
    <2> QED
      BY <1>2, <1>4, <2>1, <2>2
  <1>8. ASSUME NEW e \in Copies'
        PROVE  /\ Faithful(job.listed, e)'
               /\ Foreign(e)' => dest'[e].schema = files'[e].schema
    <2>1. CASE e = d
      <3>1. files[d].mark \in Nat
        BY <1>3, <1>4, DocumentsAssumption DEF Stored, Values, Exists, Present
      <3> QED
        BY <1>4, <1>5, <1>6, <2>1, <3>1 DEF Faithful, Exists
    <2>2. CASE e # d
      <3>1. e \in Copies /\ e \in FilesOf(aggregate)
        BY <1>5, <1>6, <2>2 DEF Copies, Present
      <3>2. Faithful(job.listed, e) /\ (Foreign(e) => dest[e].schema = files[e].schema)
        BY <1>1, <3>1 DEF Copying
      <3> QED
        BY <1>2, <1>5, <1>6, <2>2, <3>1, <3>2 DEF Faithful, Foreign, Exists
    <2> QED
      BY <2>1, <2>2
  <1>9. Entire(job.listed)'
    BY <1>2, <1>3, <1>5 DEF Entire, Exists
  <1>10. (shadowed = {} => \A e \in FilesOf(aggregate) : Foreign(e) => e \in job.listed)'
    BY <1>1, <1>2, <1>5 DEF Copying, Foreign, Exists
  <1>11. Copying'
    BY <1>2, <1>3, <1>5, <1>6, <1>7, <1>8, <1>9, <1>10 DEF Copying
  <1> QED
    BY <1>1, <1>2, <1>11 DEF JobInv

\* The file that a migration comes to next, and what a step on it leaves of the
\* rest.
LEMMA NextCopy ==
  ASSUME IInv, JobInv, job.step = "convert", job.todo # {}
  PROVE  LET d == FirstPath(job.todo)
         IN d \in job.todo /\ d \notin job.failed /\ d \in FilesOf(aggregate)
            /\ Present(dest, d) /\ d \in Copies
            /\ dest[d] \in [schema : {0, 1, 2}, mark : Marks]
  <1>1. Converting
    BY DEF JobInv
  <1>2. /\ dest \in [FilesOf(aggregate) -> Stored] /\ aggregate \in Aggregates
        /\ job.todo \subseteq Copies /\ Copies \in SUBSET FilesOf(aggregate)
    BY <1>1 DEF IInv, TypeOK, Converting, Copies
  <1>3. FirstPath(job.todo) \in job.todo
    <2>1. job.todo \in SUBSET FilesOf(aggregate)
      BY <1>2
    <2> QED
      BY <1>2, <2>1, FirstPathIs
  <1> QED
    BY <1>1, <1>2, <1>3, DocumentsAssumption DEF Converting, Copies, Stored, Values, Present

\* One copy is converted, or cannot be.
LEMMA ConvertKeeps ==
  ASSUME IInv, JobInv, Convert
  PROVE  JobInv'
  <1> DEFINE d == FirstPath(job.todo)
             U == job.todo \union job.failed
             V == job'.todo \union job'.failed
  <1>1. /\ job.step = "convert" /\ job.todo # {} /\ told = "none" /\ Converting
        /\ UNCHANGED <<vars, shadowed, index, told>>
    BY DEF Convert, JobInv
  <1>2. /\ dest' = IF dest[d].schema = 0 THEN [dest EXCEPT ![d].schema = 1] ELSE dest
        /\ job'.step = "convert" /\ job'.todo = job.todo \ {d}
        /\ job'.failed = IF dest[d].schema \in {0, 1} THEN job.failed ELSE job.failed \union {d}
        /\ DOMAIN job' = DOMAIN job
    BY DEF Convert, JobInv, Idle
  <1>3. /\ dest \in [FilesOf(aggregate) -> Stored] /\ files \in [FilesOf(aggregate) -> Stored]
        /\ job.todo \subseteq Copies /\ job.todo \intersect job.failed = {}
    BY <1>1 DEF IInv, TypeOK, Converting
  <1>4. /\ d \in job.todo /\ d \notin job.failed /\ d \in FilesOf(aggregate)
        /\ Present(dest, d) /\ d \in Copies
        /\ dest[d] \in [schema : {0, 1, 2}, mark : Marks]
    BY <1>1, NextCopy
  <1>5. UNCHANGED <<aggregate, files>>
    BY <1>1 DEF vars
  <1> HIDE DEF d
  <1>6. /\ dest' \in [FilesOf(aggregate) -> Stored]
        /\ \A e \in FilesOf(aggregate) : e # d => dest'[e] = dest[e]
        /\ dest'[d] # None
        /\ dest'[d].schema = IF dest[d].schema = 0 THEN 1 ELSE dest[d].schema
    <2>1. CASE dest[d].schema = 0
      <3> DEFINE v == [dest[d] EXCEPT !.schema = 1]
      <3>1. dest' = [dest EXCEPT ![d] = v]
        BY <1>2, <2>1
      <3>2. v \in Values /\ v.schema = 1
        BY <1>4 DEF Values
      <3> HIDE DEF v
      <3>3. dest'[d] = v /\ \A e \in FilesOf(aggregate) : e # d => dest'[e] = dest[e]
        BY <1>3, <1>4, <3>1
      <3>4. v # None /\ v \in Stored
        BY <3>2, DocumentsAssumption DEF Values, Stored
      <3>5. dest' \in [FilesOf(aggregate) -> Stored]
        BY <1>3, <1>4, <3>1, <3>4
      <3> QED
        BY <2>1, <3>2, <3>3, <3>4, <3>5
    <2>2. CASE dest[d].schema # 0
      BY <1>2, <1>3, <1>4, <2>2 DEF Present
    <2> QED
      BY <2>1, <2>2
  <1>7. Copies' = Copies
    BY <1>4, <1>5, <1>6 DEF Copies, Present
  <1>8. job'.todo \subseteq Copies' /\ job'.todo \intersect job'.failed = {}
    BY <1>2, <1>3, <1>7
  <1>9. V \subseteq U /\ (d \in V => dest[d].schema \notin {0, 1})
        /\ (d \notin V => dest[d].schema \in {0, 1}) /\ \A e \in U : e # d => e \in V
    BY <1>2, <1>4
  <1>10. V = (job.todo \union job.failed)'
    OBVIOUS
  <1>11. ASSUME shadowed = {}
         PROVE  /\ Current(job.todo \union job.failed)'
                /\ Untouched(job.todo \union job.failed)'
    <2>1. Current(U) /\ Untouched(U)
      BY <1>1, <1>11 DEF Converting
    <2> HIDE DEF U, V
    <2>2. ASSUME NEW e \in Copies
          PROVE  e \in V \/ dest'[e].schema = 1
      <3>1. CASE e = d
        BY <1>6, <1>9, <3>1
      <3>2. CASE e # d
        BY <1>6, <1>9, <2>1, <3>2 DEF Current, Copies
      <3> QED
        BY <3>1, <3>2
    <2>3. ASSUME NEW e \in FilesOf(aggregate), Foreign(e)
          PROVE  dest'[e] # None /\ (e \in V => dest'[e].schema = files[e].schema)
      <3>1. Present(dest, e) /\ (e \in U => dest[e].schema = files[e].schema)
        BY <2>1, <2>3 DEF Untouched
      <3>2. CASE e = d
        BY <1>6, <1>9, <3>1, <3>2
      <3>3. CASE e # d
        BY <1>6, <1>9, <3>1, <3>3 DEF Present
      <3> QED
        BY <3>2, <3>3
    <2>4. Current(job.todo \union job.failed)'
      BY <1>7, <1>10, <2>2 DEF Current
    <2>5. Untouched(job.todo \union job.failed)'
      BY <1>5, <1>10, <2>3 DEF Untouched, Foreign, Exists, Present
    <2> QED
      BY <2>4, <2>5
  <1>12. Converting'
    BY <1>1, <1>5, <1>6, <1>8, <1>11 DEF Converting
  <1> QED
    BY <1>1, <1>2, <1>12 DEF JobInv

\* A file that cannot be read or written stays as it was copied.
LEMMA ConvertFailsKeeps ==
  ASSUME IInv, JobInv, ConvertFails
  PROVE  JobInv'
  <1> DEFINE d == FirstPath(job.todo)
  <1>1. /\ job.step = "convert" /\ job.todo # {} /\ told = "none" /\ Converting
        /\ UNCHANGED <<aggregate, files, shadowed, dest, index, told>>
    BY DEF ConvertFails, JobInv, vars
  <1>2. /\ job'.step = "convert" /\ job'.todo = job.todo \ {d}
        /\ job'.failed = job.failed \union {d} /\ DOMAIN job' = DOMAIN job
    BY DEF ConvertFails, JobInv, Idle
  <1>3. d \in job.todo
    BY <1>1, NextCopy
  <1> HIDE DEF d
  <1>4. /\ job'.todo \union job'.failed = job.todo \union job.failed
        /\ job'.todo \subseteq job.todo
        /\ job.todo \intersect job.failed = {} => job'.todo \intersect job'.failed = {}
    BY <1>2, <1>3
  <1>5. Converting'
    BY <1>1, <1>4 DEF Converting, Current, Untouched, Copies, Foreign, Exists
  <1> QED
    BY <1>1, <1>2, <1>5 DEF JobInv

\* A command that begins has told nothing and holds nothing.
LEMMA BeginKeeps ==
  ASSUME JobInv, NEW step \in {"export", "init", "index"}, NEW m, Begin(step, m)
  PROVE  JobInv'
  <1>1. job' = [Idle EXCEPT !.step = step, !.migrate = m] /\ told' = "none" /\ index' = index
    BY DEF Begin
  <1>2. job'.step = step /\ job'.failed = {} /\ DOMAIN job' = DOMAIN Idle
    BY <1>1 DEF Idle
  <1> QED
    BY <1>1, <1>2 DEF JobInv

\* Where a command stops, and where init ends, no copy is told of.
LEMMA StopKeeps ==
  ASSUME JobInv, Initialize \/ JobStops
  PROVE  JobInv'
  <1>1. PICK ending \in {"initialized", "error", "none"} : EndJob(ending)
    BY DEF Initialize, JobStops
  <1>2. DOMAIN index' = {"json", "page"}
    BY DEF Initialize, JobStops, JobInv
  <1> QED
    BY <1>1, <1>2, EndKeeps

\* A power failure ends the command as well.
LEMMA PowerLossKeeps ==
  ASSUME JobInv, PowerLossHere
  PROVE  JobInv'
  <1>1. job' = Idle /\ told' = "none" /\ index' = index
    BY DEF PowerLossHere
  <1>2. job'.step = "idle" /\ DOMAIN job' = DOMAIN Idle
    BY <1>1 DEF Idle
  <1> QED
    BY <1>1, <1>2 DEF JobInv

\* What is not touched stays as it is.
LEMMA Unmoved ==
  ASSUME JobInv, UNCHANGED allvars
  PROVE  JobInv'
  <1>1. UNCHANGED <<aggregate, files, shadowed, dest, index, job, told, report>>
    BY DEF allvars, vars, jvars
  <1>2. (Copying => Copying') /\ (Converting => Converting')
    BY <1>1 DEF Copying, Converting, Entire, Faithful, Foreign, Current, Untouched, Copies, Exists
  <1>3. (Exported => Exported') /\ (Migrated => Migrated')
    BY <1>1 DEF Exported, Migrated, Entire, Faithful, Foreign, Current, Untouched, Copies, Exists
  <1>4. (Entire(job.listed) => Entire(job.listed)') /\ (Entire(index.page) => Entire(index.page)')
    BY <1>1 DEF Entire, Exists
  <1> QED
    BY <1>1, <1>2, <1>3, <1>4 DEF JobInv

\* A new destination holds nothing; the other endings tell of no copy.
LEMMA PrepareKeeps ==
  ASSUME IInv, JobInv, NEW place \in {"outside", "inside"}, Prepare(place)
  PROVE  JobInv'
  <1>1. job.step = "export" /\ told = "none" /\ DOMAIN job = DOMAIN Idle /\ job.failed = {}
        /\ UNCHANGED <<aggregate, index, files>>
    BY DEF Prepare, EndJob, JobInv, vars
  <1>2. CASE initialized /\ place = "outside" /\ dest = None
    <2>1. /\ dest' = [d \in FilesOf(aggregate) |-> None] /\ told' = "none"
          /\ job' = [job EXCEPT !.step = "list"]
      BY <1>1, <1>2 DEF Prepare, Go
    <2>2. job'.step = "list" /\ job'.failed = {} /\ DOMAIN job' = DOMAIN Idle
      BY <1>1, <2>1 DEF Idle
    <2> QED
      BY <1>1, <2>1, <2>2 DEF JobInv
  <1>3. CASE ~(initialized /\ place = "outside" /\ dest = None)
    <2> DEFINE ending == IF initialized THEN "conflict" ELSE "missing"
    <2>1. EndJob(ending) /\ ending \in {"conflict", "missing"}
      BY <1>3 DEF Prepare
    <2>2. DOMAIN index' = {"json", "page"}
      BY <1>1 DEF JobInv
    <2> HIDE DEF ending
    <2> QED
      BY <2>1, <2>2, EndKeeps
  <1> QED
    BY <1>2, <1>3

\* What there is when an export lists it is what it will copy.
LEMMA ListKeeps ==
  ASSUME IInv, JobInv, List
  PROVE  JobInv'
  <1> DEFINE L == MarkdownFiles("source", files)
  <1>1. /\ job.step = "list" /\ told = "none" /\ DOMAIN job = DOMAIN Idle /\ job.failed = {}
        /\ dest = [d \in FilesOf(aggregate) |-> None]
        /\ UNCHANGED <<aggregate, files, shadowed, dest, index, told>>
        /\ job' = [job EXCEPT !.step = "copy", !.listed = L, !.todo = L]
    BY DEF List, JobInv, vars
  <1>2. /\ job'.step = "copy" /\ job'.listed = L /\ job'.todo = L /\ job'.failed = {}
        /\ DOMAIN job' = DOMAIN Idle
    BY <1>1 DEF Idle
  <1>3. Entire(L)
    BY ListedEntire
  <1>4. shadowed = {} => L = {d \in FilesOf(aggregate) : Exists(d) /\ d.kind # "cache"}
    BY DEF MarkdownFiles, Exists, IInv, TypeOK
  <1> HIDE DEF L
  <1>5. dest' \in [FilesOf(aggregate) -> Stored] /\ Copies' = {}
    BY <1>1 DEF Copies, Present, Stored
  <1>6. Entire(job.listed)'
    BY <1>1, <1>2, <1>3 DEF Entire, Exists
  <1>7. (shadowed = {} => \A d \in FilesOf(aggregate) : Foreign(d) => d \in job.listed)'
    BY <1>1, <1>2, <1>4 DEF Foreign, Exists
  <1>8. Copying'
    BY <1>1, <1>2, <1>5, <1>6, <1>7 DEF Copying
  <1> QED
    BY <1>1, <1>2, <1>8 DEF JobInv

\* When all is copied, the copy is what was listed; a migration goes on with
\* every file that is in it.
LEMMA CopiedKeeps ==
  ASSUME IInv, JobInv, Copied
  PROVE  JobInv'
  <1>1. /\ job.step = "copy" /\ job.todo = {} /\ told = "none" /\ DOMAIN job = DOMAIN Idle
        /\ job.failed = {}
        /\ UNCHANGED <<aggregate, files, shadowed, dest, index>> /\ Copying
    BY DEF Copied, EndJob, JobInv, vars
  <1>2. Copies = job.listed /\ dest \in [FilesOf(aggregate) -> Stored] /\ Copies' = Copies
    BY <1>1 DEF Copying, Copies
  <1>3. CASE job.migrate
    <2> DEFINE M == MarkdownFiles("destination", dest)
    <2>1. job' = [job EXCEPT !.step = "convert", !.todo = M] /\ told' = told
      BY <1>3 DEF Copied
    <2>2. M \subseteq Copies /\ (shadowed = {} => M = Copies)
      BY <1>1, <1>2 DEF MarkdownFiles, Copies, Copying, Entire
    <2> HIDE DEF M
    <2>3. job'.step = "convert" /\ job'.todo = M /\ job'.failed = {} /\ DOMAIN job' = DOMAIN Idle
      BY <1>1, <2>1 DEF Idle
    <2>4. ASSUME shadowed = {}, NEW d \in FilesOf(aggregate), Foreign(d)
          PROVE  Present(dest, d) /\ dest[d].schema = files[d].schema
      <3>1. d \in Copies
        BY <1>1, <1>2, <2>4 DEF Copying
      <3> QED
        BY <1>1, <2>4, <3>1 DEF Copying, Copies
    <2>5. job'.todo \union job'.failed = M
      BY <2>3
    <2>6. shadowed = {} => /\ Current(job.todo \union job.failed)'
                          /\ Untouched(job.todo \union job.failed)'
      BY <1>1, <1>2, <2>2, <2>4, <2>5 DEF Current, Untouched, Foreign, Exists, Present
    <2>7. job'.todo \subseteq Copies' /\ job'.todo \intersect job'.failed = {}
      BY <1>2, <2>2, <2>3
    <2>8. Converting'
      BY <1>1, <1>2, <2>6, <2>7 DEF Converting
    <2> QED
      BY <1>1, <2>1, <2>3, <2>8 DEF JobInv
  <1>4. CASE ~job.migrate
    <2>1. EndJob("exported")
      BY <1>4 DEF Copied
    <2>2. Entire(Copies) /\ \A d \in Copies : Faithful(Copies, d)
      BY <1>1, <1>2 DEF Copying
    <2>3. Exported'
      BY <1>1, <1>2, <2>2 DEF Exported, Entire, Faithful, Exists
    <2>4. DOMAIN index' = {"json", "page"}
      BY <1>1 DEF JobInv
    <2> QED
      BY <2>1, <2>3, <2>4, EndKeeps
  <1> QED
    BY <1>3, <1>4

\* A migration that reports success converted everything; another one all but
\* what it could not.
LEMMA ReportKeeps ==
  ASSUME IInv, JobInv, Report
  PROVE  JobInv'
  <1> DEFINE ending == IF job.failed = {} THEN "migrated" ELSE "corrupt"
  <1>1. /\ job.step = "convert" /\ job.todo = {} /\ Converting /\ EndJob(ending)
        /\ report' = job.failed /\ UNCHANGED <<aggregate, files, shadowed, dest, index>>
    BY DEF Report, EndJob, JobInv, vars
  <1>2. ending \in {"migrated", "corrupt"} /\ (ending = "migrated" <=> job.failed = {})
    OBVIOUS
  <1> HIDE DEF ending
  <1>3. told' = ending
    BY <1>1 DEF EndJob
  <1>4. dest \in [FilesOf(aggregate) -> Stored]
    BY <1>1 DEF Converting
  <1>5. shadowed = {} => Current(report)' /\ Untouched(report)'
    <2>1. shadowed = {} => Current(job.failed) /\ Untouched(job.failed)
      <3>1. job.todo \union job.failed = job.failed
        BY <1>1
      <3> QED
        BY <1>1, <3>1 DEF Converting
    <2> QED
      BY <1>1, <2>1 DEF Current, Untouched, Foreign, Exists, Copies, Present
  <1>6. Migrated'
    BY <1>1, <1>2, <1>3, <1>4, <1>5 DEF Migrated
  <1>7. DOMAIN index' = {"json", "page"}
    BY <1>1 DEF JobInv
  <1> QED
    BY <1>1, <1>2, <1>6, <1>7, EndKeeps

\* The index lists what there is.
LEMMA WriteIndexKeeps ==
  ASSUME IInv, JobInv, WriteIndex
  PROVE  JobInv'
  <1> DEFINE L == MarkdownFiles("source", files)
  <1>1. /\ job.step = "index" /\ told = "none" /\ DOMAIN job = DOMAIN Idle
        /\ UNCHANGED <<aggregate, files, shadowed, dest, told>>
        /\ job' = [job EXCEPT !.step = "page", !.listed = L]
        /\ index' = [index EXCEPT !.json = L] /\ DOMAIN index = {"json", "page"}
    BY DEF WriteIndex, JobInv, vars
  <1>2. Entire(L)
    BY ListedEntire
  <1> HIDE DEF L
  <1>3. job'.step = "page" /\ job'.listed = L /\ DOMAIN job' = DOMAIN Idle
        /\ index'.json = L /\ DOMAIN index' = {"json", "page"}
    BY <1>1 DEF Idle
  <1>4. Entire(job.listed)'
    BY <1>1, <1>2, <1>3 DEF Entire, Exists
  <1> QED
    BY <1>1, <1>3, <1>4 DEF JobInv

\* The page lists what the index does.
LEMMA WritePageKeeps ==
  ASSUME IInv, JobInv, WritePage
  PROVE  JobInv'
  <1>1. /\ EndJob("rebuilt") /\ UNCHANGED <<aggregate, files>>
        /\ index.json = job.listed /\ Entire(job.listed)
        /\ index' = [index EXCEPT !.page = job.listed] /\ DOMAIN index = {"json", "page"}
    BY DEF WritePage, EndJob, JobInv, vars
  <1>2. index'.page = job.listed /\ index'.json = index.json /\ DOMAIN index' = {"json", "page"}
    BY <1>1
  <1>3. (index.page = index.json /\ Entire(index.page))'
    BY <1>1, <1>2 DEF Entire, Exists
  <1> QED
    BY <1>1, <1>2, <1>3, EndKeeps

-----------------------------------------------------------------------------
(* The commands and the calls together.                                    *)

\* A behaviour with commands begins as one without.
LEMMA WorkspaceInitInv == WorkspaceInit => IInv /\ JobInv
  <1> SUFFICES ASSUME WorkspaceInit PROVE IInv /\ JobInv
    OBVIOUS
  <1>1. IInv
    BY InitIInv DEF WorkspaceInit
  <1>2. job = Idle /\ told = "none" /\ index = [json |-> {}, page |-> {}]
    BY DEF WorkspaceInit, JobInit
  <1>3. job.step = "idle" /\ DOMAIN index = {"json", "page"}
    BY <1>2 DEF Idle
  <1> QED
    BY <1>1, <1>2, <1>3 DEF JobInv

\* To the files a step is one of the calls, or nothing.
LEMMA WorkspaceNextIsNext ==
  ASSUME [WorkspaceNext]_allvars
  PROVE  [Next]_vars /\ shadowed' = shadowed
  <1>1. CASE UNCHANGED allvars
    BY <1>1 DEF allvars, jvars
  <1>2. CASE \E p \in Procs : Call(p) \/ ((Step(p) \/ WriteFails(p) \/ Die(p)) /\ UNCHANGED jvars)
    BY <1>2 DEF Call, Next, jvars
  <1>3. CASE (\E m \in BOOLEAN : Begin("export", m)) \/ Begin("init", FALSE) \/ Begin("index", FALSE)
    BY <1>3 DEF Begin
  <1>4. CASE JobStep \/ Prepare("inside") \/ JobStops
    BY <1>4 DEF JobStep, JobStops, Initialize, Prepare, List, Copy, Copied, Convert, ConvertFails, Report,
         WriteIndex, WritePage, EndJob
  <1>5. CASE PowerLossHere
    BY <1>5 DEF PowerLossHere, Next
  <1> QED
    BY <1>1, <1>2, <1>3, <1>4, <1>5 DEF WorkspaceNext

\* Every step keeps what the commands rely on.
LEMMA JobNext ==
  ASSUME IInv, JobInv, [WorkspaceNext]_allvars
  PROVE  JobInv'
  <1>1. IInv'
    BY WorkspaceNextIsNext, NextIInv
  <1>2. CASE UNCHANGED allvars
    BY <1>2, Unmoved
  <1>3. ASSUME NEW p \in Procs, Call(p) \/ ((Step(p) \/ WriteFails(p) \/ Die(p)) /\ UNCHANGED jvars)
        PROVE  JobInv'
    <2>1. (Ask(p) \/ Step(p) \/ WriteFails(p) \/ Die(p)) /\ UNCHANGED jvars
      BY <1>3 DEF Call
    <2>2. Grow
      BY <2>1, FilesGrow
    <2> QED
      BY <1>1, <2>1, <2>2, GrowKeepsJob
  <1>4. ASSUME NEW step \in {"export", "init", "index"}, NEW m, Begin(step, m)
        PROVE  JobInv'
    BY <1>4, BeginKeeps
  <1>5. CASE Initialize \/ JobStops
    BY <1>5, StopKeeps
  <1>6. CASE Prepare("outside") \/ Prepare("inside")
    BY <1>6, PrepareKeeps
  <1>7. CASE List
    BY <1>7, ListKeeps
  <1>8. CASE Copy
    BY <1>8, CopyKeeps
  <1>9. CASE Copied
    BY <1>9, CopiedKeeps
  <1>10. CASE Convert \/ ConvertFails
    BY <1>10, ConvertKeeps, ConvertFailsKeeps
  <1>11. CASE Report
    BY <1>11, ReportKeeps
  <1>12. CASE WriteIndex
    BY <1>12, WriteIndexKeeps
  <1>13. CASE WritePage
    BY <1>13, WritePageKeeps
  <1>14. CASE PowerLossHere
    BY <1>14, PowerLossKeeps
  <1> QED
    BY <1>2, <1>3, <1>4, <1>5, <1>6, <1>7, <1>8, <1>9, <1>10, <1>11, <1>12, <1>13, <1>14
       DEF WorkspaceNext, JobStep

\* With any number of calls, kills and power failures between its steps.
LEMMA WorkspaceInvariant == WorkspaceSpec => [](IInv /\ JobInv)
  <1>1. IInv /\ JobInv /\ [WorkspaceNext]_allvars => (IInv /\ JobInv)'
    BY WorkspaceNextIsNext, NextIInv, JobNext
  <1> QED
    BY <1>1, WorkspaceInitInv, PTL DEF WorkspaceSpec

\* The commands of workspace_maintenance.py, which take no lock, do not change
\* what the repositories promise: to the files a workspace with them is one
\* without.
THEOREM WorkspaceIsFileStore == WorkspaceSpec => Spec
  <1>1. WorkspaceInit => Init
    BY DEF WorkspaceInit
  <1> QED
    BY <1>1, WorkspaceNextIsNext, PTL DEF WorkspaceSpec, Spec

\* With commands beside them the repositories keep the contract of the
\* in-memory ones.
THEOREM WorkspaceImplementsRepository == WorkspaceSpec => ImplementsRepository
  BY WorkspaceIsFileStore, FileStoreImplementsRepository, PTL

\* export (workspace_maintenance.py) copies file by file what calls go on
\* writing: when it reports success the copy is closed and holds nothing that
\* the workspace does not have.
THEOREM WorkspaceExportFaithful == WorkspaceSpec => []ExportFaithful
  <1>1. ASSUME IInv, JobInv, told = "exported"
        PROVE  /\ Closed(dest)
               /\ \A d \in DOMAIN dest : Present(dest, d) =>
                    /\ Exists(d)
                    /\ Final(d) => dest[d] = files[d]
                    /\ Stamped(d) => dest[d].mark <= files[d].mark
    <2>1. Exported /\ aggregate \in Aggregates
      BY <1>1 DEF JobInv, IInv, TypeOK
    <2>2. DOMAIN dest = FilesOf(aggregate) /\ Copies = {d \in DOMAIN dest : Present(dest, d)}
      BY <2>1 DEF Exported, Copies
    <2>3. Closed(dest)
      BY <2>1, <2>2 DEF Exported, Entire, Closed
    <2>4. ASSUME NEW d \in DOMAIN dest, Present(dest, d)
          PROVE  /\ Exists(d)
                 /\ Final(d) => dest[d] = files[d]
                 /\ Stamped(d) => dest[d].mark <= files[d].mark
      <3>1. Faithful(Copies, d)
        BY <2>1, <2>2, <2>4 DEF Exported
      <3>2. d = Mandate => Doc("run") \in DOMAIN dest
        <4>1. d = Mandate => aggregate = "run"
          BY <2>1, <2>2, KindsOfDocs DEF FilesOf
        <4>2. aggregate = "run" => Doc("run") \in DOMAIN dest
          BY <2>2, DocsOfIs DEF FilesOf, RunKinds, Doc
        <4> QED
          BY <4>1, <4>2
      <3>3. d = Mandate /\ Present(dest, Doc("run")) => Doc("run") \in Copies
        BY <2>2, <3>2
      <3> QED
        BY <3>1, <3>3 DEF Faithful, Final
    <2> QED
      BY <2>3, <2>4
  <1>2. IInv /\ JobInv => ExportFaithful
    BY <1>1 DEF ExportFaithful
  <1> QED
    BY <1>2, WorkspaceInvariant, PTL

\* migrate (workspace_maintenance.py), where no directory above hides the files
\* from it: all but cache entries that other versions of the program wrote before
\* or while it copies is in the copy, and what the report does not name as failed
\* is converted.
THEOREM WorkspaceMigrationComplete ==
  WorkspaceSpec /\ shadowed = {} => []MigrationComplete
  <1>1. shadowed = {} /\ [WorkspaceNext]_allvars => (shadowed = {})'
    BY WorkspaceNextIsNext
  <1>2. WorkspaceSpec /\ shadowed = {} => [](shadowed = {})
    BY <1>1, PTL DEF WorkspaceSpec
  <1>3. ASSUME IInv, JobInv, shadowed = {}
        PROVE  MigrationComplete
    <2>1. DOMAIN files = FilesOf(aggregate)
      BY <1>3 DEF IInv, TypeOK
    <2>2. ASSUME told \in {"migrated", "corrupt"}
          PROVE  /\ DOMAIN dest = FilesOf(aggregate)
                 /\ told = "migrated" <=> report = {}
                 /\ Current(report) /\ Untouched(report)
      BY <1>3, <2>2 DEF JobInv, Migrated
    <2> QED
      BY <2>1, <2>2 DEF MigrationComplete, Current, Untouched, Foreign, Copies
  <1> QED
    BY <1>2, <1>3, WorkspaceInvariant, PTL

\* rebuild-index (workspace_maintenance.py): when it reports success both
\* indexes list the same, with all that it needs, whatever calls wrote between.
THEOREM WorkspaceIndexesAgree == WorkspaceSpec => []IndexesAgree
  <1>1. IInv /\ JobInv => IndexesAgree
    BY DEF JobInv, IndexesAgree, Entire
  <1> QED
    BY <1>1, WorkspaceInvariant, PTL
=============================================================================

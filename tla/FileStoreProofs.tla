-------------------------- MODULE FileStoreProofs ---------------------------
(***************************************************************************)
(* TLAPS proofs about FileStore, for every aggregate, any processes, calls *)
(* and documents found at first, with and without directory flushes.       *)
(***************************************************************************)
EXTENDS FileStoreProps, TLAPS

\* A state of the files that lacks nothing it needs.
Whole(fs) ==
  /\ Closed(fs)
  /\ aggregate = "run" /\ Present(fs, Doc("run")) => Present(fs, Mandate)

\* The checks of the call of p were passed and still hold: its holder of the
\* lock is the only one to change a file.
Passed(p) ==
  /\ Check(request[p]) = "saved" /\ ~Found(request[p])
  /\ target[p] \in {request[p].doc, Mandate}
  /\ target[p] = Mandate => request[p].doc = Doc("run") /\ request[p].add
  /\ target[p] = Doc("run") => Present(files, Mandate)

Underway(p) ==
  /\ pc[p] \in {"stage", "flush", "replace"} => Passed(p)
  /\ pc[p] = "sync" =>
       /\ target[p] \in {request[p].doc, Mandate}
       /\ target[p] = Mandate => Passed(p) /\ Present(files, Mandate)
  /\ pc[p] = "flush" => temp[p] = [seen |-> request[p].value, stored |-> Torn]
  /\ pc[p] = "replace" =>
       temp[p] = [seen |-> request[p].value, stored |-> request[p].value]
  /\ pc[p] \in {"wait"} \union InsideSteps /\ request[p].doc.kind = "score" =>
       Present(files, Doc("outcome"))

\* The inductive invariant: what the disk may go back to is whole as well.
IInv ==
  /\ TypeOK /\ OneWriter
  /\ \A fs \in disk : Whole(fs)
  /\ \A p \in Procs : Underway(p)

-----------------------------------------------------------------------------
RunKinds == {"run", "plan", "artifact", "claim", "verification", "report",
             "limitation"}

\* The documents of an aggregate, by cases.
LEMMA DocsOfIs ==
  /\ DocsOf("run") = [kind : RunKinds, n : {0}]
  /\ DocsOf("outcome") = [kind : {"outcome", "score"}, n : {0}]
  /\ \A a \in Versioned : DocsOf(a) = [kind : {a}, n : 1 .. MaxVersion]
  /\ \A a \in {"status", "cache", "profile"} : DocsOf(a) = [kind : {a}, n : {0}]
  <1>1. DocsOf("run") = [kind : RunKinds, n : {0}]
    BY DEF DocsOf, Versioned, RunKinds
  <1>2. DocsOf("outcome") = [kind : {"outcome", "score"}, n : {0}]
    BY DEF DocsOf, Versioned
  <1>3. \A a \in Versioned : DocsOf(a) = [kind : {a}, n : 1 .. MaxVersion]
    BY DEF DocsOf, Versioned
  <1>4. \A a \in {"status", "cache", "profile"} :
          DocsOf(a) = [kind : {a}, n : {0}]
    BY DEF DocsOf, Versioned
  <1> QED BY <1>1, <1>2, <1>3, <1>4

\* A record of documents without versions is named by its kind.
LEMMA PlainDocs ==
  ASSUME NEW K, NEW d \in [kind : K, n : {0}]
  PROVE  d.n = 0 /\ d.kind \in K /\ d = Doc(d.kind)
  BY DEF Doc

\* What a document needs is a document of the same aggregate.
LEMMA NeedsAreDocs ==
  ASSUME NEW a \in Aggregates, NEW d \in FilesOf(a)
  PROVE  /\ Needs(d) \subseteq DocsOf(a)
         /\ Mandate \notin Needs(d)
  <1>1. CASE a = "run"
    <2>1. d \in DocsOf("run") \/ d = Mandate
      BY <1>1 DEF FilesOf
    <2>2. d.n = 0 /\ d.kind \in RunKinds \union {"mandate"}
      <3>1. CASE d \in DocsOf("run")
        BY <3>1, DocsOfIs, PlainDocs
      <3>2. CASE d = Mandate
        BY <3>2 DEF Mandate, Doc
      <3> QED BY <2>1, <3>1, <3>2
    <2>3. Needs(d) \subseteq {Doc("run")}
      BY <2>2 DEF Needs, RunKinds
    <2>4. Doc("run") \in DocsOf(a) /\ Doc("run") # Mandate
      BY <1>1, DocsOfIs DEF Doc, Mandate, RunKinds
    <2> QED BY <2>3, <2>4
  <1>2. CASE a = "outcome"
    <2>1. d.n = 0 /\ d.kind \in {"outcome", "score"}
      BY <1>2, DocsOfIs, PlainDocs DEF FilesOf
    <2>2. Needs(d) \subseteq {Doc("outcome")}
      BY <2>1 DEF Needs
    <2>3. Doc("outcome") \in DocsOf(a) /\ Doc("outcome") # Mandate
      BY <1>2, DocsOfIs DEF Doc, Mandate
    <2> QED BY <2>2, <2>3
  <1>3. CASE a \in Versioned
    <2>1. DocsOf(a) = [kind : {a}, n : 1 .. MaxVersion] /\ a # "run"
      BY <1>3, DocsOfIs DEF Versioned
    <2>2. d \in [kind : {a}, n : 1 .. MaxVersion]
      BY <2>1 DEF FilesOf
    <2>3. Needs(d) \subseteq (IF d.n > 1 THEN {Previous(d)} ELSE {})
      BY <1>3, <2>2 DEF Needs, Versioned
    <2>4. d.n > 1 => Previous(d) \in DocsOf(a)
      BY <2>1, <2>2, DocumentsAssumption DEF Previous
    <2>5. Previous(d).kind = a
      BY <2>2 DEF Previous
    <2> QED BY <1>3, <2>3, <2>4, <2>5 DEF Mandate, Doc, Versioned
  <1>4. CASE a \in {"status", "cache", "profile"}
    <2>0. d \in [kind : {a}, n : {0}]
      BY <1>4, DocsOfIs DEF FilesOf
    <2>1. d.n = 0 /\ d.kind = a
      BY <2>0
    <2>2. Needs(d) = {}
      BY <1>4, <2>1 DEF Needs
    <2> QED BY <2>2
  <1> QED BY <1>1, <1>2, <1>3, <1>4 DEF Aggregates

\* The call that is made belongs to its aggregate.
LEMMA KindsOfDocs ==
  ASSUME NEW a \in Aggregates, NEW d \in DocsOf(a)
  PROVE  /\ d \in FilesOf(a) /\ d # Mandate
         /\ d.kind \in RunKinds =>
              a = "run" /\ Doc("run") \in DocsOf(a) /\ d = Doc(d.kind)
         /\ d.kind = "score" => Doc("outcome") \in DocsOf(a)
         /\ d.kind \in RunKinds \union {"outcome", "score", "status", "cache",
                                        "profile"} \union Versioned
         /\ d.kind \in Versioned => a \in Versioned
         /\ d.kind \in {"outcome", "score", "status", "cache", "profile"} =>
              d.n = 0
  <1>0. d \in FilesOf(a)
    BY DEF FilesOf
  <1>1. CASE a = "run"
    <2>1. d.n = 0 /\ d.kind \in RunKinds /\ d = Doc(d.kind)
      BY <1>1, DocsOfIs, PlainDocs
    <2>2. Doc("run") \in DocsOf(a)
      BY <1>1, DocsOfIs DEF Doc, RunKinds
    <2> QED BY <1>0, <1>1, <2>1, <2>2 DEF RunKinds, Mandate, Doc, Versioned
  <1>2. CASE a = "outcome"
    <2>1. d.n = 0 /\ d.kind \in {"outcome", "score"}
      BY <1>2, DocsOfIs, PlainDocs
    <2>2. Doc("outcome") \in DocsOf(a)
      BY <1>2, DocsOfIs DEF Doc
    <2> QED BY <1>0, <2>1, <2>2 DEF RunKinds, Mandate, Doc, Versioned
  <1>3. CASE a \in Versioned
    <2>1. d \in [kind : {a}, n : 1 .. MaxVersion]
      BY <1>3, DocsOfIs
    <2>2. d.kind = a
      BY <2>1
    <2> QED BY <1>0, <1>3, <2>2 DEF RunKinds, Versioned, Mandate, Doc
  <1>4. CASE a \in {"status", "cache", "profile"}
    <2>0. d \in [kind : {a}, n : {0}]
      BY <1>4, DocsOfIs
    <2>1. d.n = 0 /\ d.kind = a
      BY <2>0
    <2> QED BY <1>0, <1>4, <2>1 DEF RunKinds, Versioned, Mandate, Doc
  <1> QED BY <1>1, <1>2, <1>3, <1>4 DEF Aggregates

\* Adding one document to whole files leaves them whole when what it needs is
\* there.
LEMMA AddWhole ==
  ASSUME NEW fs, NEW t \in FilesOf(aggregate), NEW v,
         aggregate \in Aggregates, DOMAIN fs = FilesOf(aggregate),
         Whole(fs), v # None,
         \A e \in Needs(t) : Present(fs, e),
         t = Doc("run") /\ aggregate = "run" => Present(fs, Mandate)
  PROVE  Whole([fs EXCEPT ![t] = v])
  <1> DEFINE gs == [fs EXCEPT ![t] = v]
  <1>1. DOMAIN gs = FilesOf(aggregate)
    OBVIOUS
  <1>2. \A d \in FilesOf(aggregate) : Present(fs, d) => Present(gs, d)
    BY DEF Present
  <1>3. \A d \in FilesOf(aggregate) : Present(gs, d) => Present(fs, d) \/ d = t
    BY DEF Present
  <1>4. \A d \in FilesOf(aggregate) : Needs(d) \subseteq FilesOf(aggregate)
    BY NeedsAreDocs DEF FilesOf
  <1>5. Closed(gs)
    BY <1>1, <1>2, <1>3, <1>4 DEF Closed, Whole
  <1>6. aggregate = "run" => Doc("run") \in FilesOf(aggregate)
                             /\ Mandate \in FilesOf(aggregate)
    BY DocsOfIs DEF FilesOf, Doc, Mandate, RunKinds
  <1>7. aggregate = "run" /\ Present(gs, Doc("run")) => Present(gs, Mandate)
    BY <1>2, <1>3, <1>6 DEF Whole
  <1> QED BY <1>5, <1>7 DEF Whole

-----------------------------------------------------------------------------
\* The answers of a read, case by case.
LEMMA ReadIs ==
  \A d : Read(d) = IF ~Exists(d) THEN "missing"
                   ELSE IF Readable(files, d) THEN "saved" ELSE "corrupt"
  BY DEF Read, Readable, Exists

\* The answers of save_plan, case by case.
LEMMA PlanIs ==
  \A r : SavePlan(r) =
            InRun(IF ~Exists(r.doc) THEN "saved"
                  ELSE IF ~Readable(files, r.doc) THEN "corrupt"
                  ELSE IF files[r.doc] = r.value THEN "saved" ELSE "conflict")
  BY DEF SavePlan

\* A call whose checks passed finds what its document needs.
LEMMA CheckedNeeds ==
  ASSUME aggregate \in Aggregates, NEW r \in CallsOn(aggregate),
         Check(r) = "saved",
         r.doc.kind = "score" => Present(files, Doc("outcome"))
  PROVE  \A e \in Needs(r.doc) : Present(files, e)
  <1>0. r.doc \in DocsOf(aggregate)
    BY DEF CallsOn
  <1>1. CASE r.doc.kind = "score"
    <2>1. r.doc.n = 0
      BY <1>0, <1>1, KindsOfDocs
    <2> QED BY <1>1, <2>1 DEF Needs
  <1>2. CASE r.doc.kind \in RunKinds \ {"run"}
    <2>1. r.doc.n = 0
      BY <1>0, <1>2, KindsOfDocs DEF Doc
    <2>2. Needs(r.doc) = {Doc("run")}
      BY <1>2, <2>1 DEF Needs, RunKinds
    <2>3. Present(files, Doc("run"))
      <3>1. CASE r.doc.kind = "limitation"
        BY <3>1, ReadIs DEF Check, SaveLimitation, Exists
      <3>2. CASE r.doc.kind # "limitation"
        <4>1. \E v : Check(r) = InRun(v)
          BY <1>2, <3>2 DEF Check, RunKinds, SavePlan, AddArtifact, AddClaim,
               SaveClaim, SaveVerification, SaveReport
        <4> QED BY <4>1 DEF InRun, Exists
      <3> QED BY <3>1, <3>2
    <2> QED BY <2>2, <2>3
  <1>3. CASE r.doc.kind \in Versioned
    <2>1. Needs(r.doc) = (IF r.doc.n > 1 THEN {Previous(r.doc)} ELSE {})
      BY <1>3 DEF Needs, Versioned
    <2>2. r.doc.n > 1 => Present(files, Previous(r.doc))
      BY <1>3 DEF Check, Versioned, SaveSignal, SaveForecast, SaveGraph,
           SavePortfolio, Contiguous, Exists
    <2> QED BY <2>1, <2>2
  <1>4. CASE r.doc.kind \in {"run", "outcome", "status", "cache", "profile"}
    <2>1. r.doc.n = 0
      BY <1>0, <1>4, KindsOfDocs DEF RunKinds, Doc
    <2> QED BY <1>4, <2>1 DEF Needs
  <1> QED BY <1>0, <1>1, <1>2, <1>3, <1>4, KindsOfDocs

\* The contract's documents are those of FileStore.
LEMMA SameDocuments ==
  /\ \A ds, d : Contract!Present(ds, d) <=> Present(ds, d)
  /\ \A ds, d : Contract!Readable(ds, d) <=> Readable(ds, d)
  /\ \A k : Contract!Doc(k) = Doc(k)
  /\ \A d : Contract!Previous(d) = Previous(d)
  /\ \A a : Contract!DocsOf(a) = DocsOf(a)
  /\ \A a : Contract!CallsOn(a) = CallsOn(a)
  BY DEF Contract!Present, Present, Contract!Readable, Readable, Contract!Doc,
     Doc, Contract!Previous, Previous, Contract!DocsOf, DocsOf,
     Contract!Versioned, Versioned, Contract!CallsOn, CallsOn,
     Contract!Values, Values

\* What comes of the checks, and what the contract says of the documents ds.
Agrees(ds, r) ==
  /\ Check(r) \in {"saved", "conflict", "missing", "corrupt"}
  /\ Check(r) # "corrupt" => Contract!Verdict(ds, r) = Check(r)
  /\ Check(r) = "saved" /\ Found(r) => ds[r.doc] = r.value
  /\ Check(r) = "corrupt" =>
       \E d \in DocsOf(aggregate) : Present(ds, d) /\ ~Readable(ds, d)

\* The Markdown repositories and the contract judge alike.
LEMMA VerdictsAgree ==
  ASSUME aggregate \in Aggregates, files \in [FilesOf(aggregate) -> Stored],
         NEW r \in CallsOn(aggregate),
         r.doc.kind = "score" => Present(files, Doc("outcome"))
  PROVE  Agrees(WithoutMandate(files), r)
  <1> DEFINE ds == WithoutMandate(files)
  <1>1. r.doc \in DocsOf(aggregate)
    BY DEF CallsOn
  <1>2. \A d \in DocsOf(aggregate) : ds[d] = files[d]
    BY DEF WithoutMandate
  <1>3. \A d \in DocsOf(aggregate) :
          /\ Present(ds, d) <=> Exists(d)
          /\ Readable(ds, d) <=> Readable(files, d)
    BY <1>2 DEF Present, Readable, Exists
  <1>4. r.doc.kind \in RunKinds => Doc("run") \in DocsOf(aggregate)
    BY <1>1, KindsOfDocs
  <1>5. CASE r.doc.kind = "run"
    <2>1. r.doc = Doc("run")
      BY <1>1, <1>5, KindsOfDocs DEF RunKinds
    <2>2. Check(r) = IF r.add THEN CreateRun(r) ELSE SaveRun(r)
      BY <1>5 DEF Check
    <2>3. Contract!Verdict(ds, r) =
            IF r.add THEN Contract!CreateRun(ds, r) ELSE Contract!SaveRun(ds, r)
      BY <1>5 DEF Contract!Verdict
    <2> QED BY <1>1, <1>2, <1>3, <1>5, <2>1, <2>2, <2>3, ReadIs, SameDocuments, PlanIs
         DEF Agrees, Found, CreateRun, SaveRun, Contract!CreateRun, Contract!SaveRun, Once,
             Contract!Once, Contract!InRun, Exists
  <1>6. CASE r.doc.kind = "plan"
    <2>1. Check(r) = SavePlan(r)
      BY <1>6 DEF Check
    <2>2. Contract!Verdict(ds, r) = Contract!SavePlan(ds, r)
      BY <1>6 DEF Contract!Verdict
    <2>3. Doc("run") \in DocsOf(aggregate)
      BY <1>4, <1>6 DEF RunKinds
    <2> QED BY <1>1, <1>2, <1>3, <1>6, <2>1, <2>2, <2>3, ReadIs, SameDocuments, PlanIs
         DEF Agrees, Found, Contract!SavePlan, InRun, Contract!InRun, Exists, Present
  <1>7. CASE r.doc.kind \in {"artifact", "claim", "verification"}
    <2>1. Check(r) = CASE r.doc.kind = "artifact" -> AddArtifact(r)
                       [] r.doc.kind = "claim" ->
                            (IF r.add THEN AddClaim(r) ELSE SaveClaim(r))
                       [] r.doc.kind = "verification" -> SaveVerification(r)
      BY <1>7 DEF Check
    <2>2. Contract!Verdict(ds, r) =
            CASE r.doc.kind = "artifact" -> Contract!AddArtifact(ds, r)
              [] r.doc.kind = "claim" ->
                   (IF r.add THEN Contract!AddClaim(ds, r)
                             ELSE Contract!SaveClaim(ds, r))
              [] r.doc.kind = "verification" -> Contract!SaveVerification(ds, r)
      BY <1>7 DEF Contract!Verdict
    <2>3. Doc("run") \in DocsOf(aggregate)
      BY <1>4, <1>7 DEF RunKinds
    <2> QED BY <1>1, <1>2, <1>3, <1>7, <2>1, <2>2, <2>3, ReadIs, SameDocuments, PlanIs
         DEF Agrees, Found, AddArtifact, AddClaim, SaveClaim, SaveVerification,
             Contract!AddArtifact, Contract!AddClaim, Contract!SaveClaim,
             Contract!SaveVerification, InRun, Contract!InRun, Once,
             Contract!Once, Exists
  <1>8. CASE r.doc.kind \in {"report", "limitation"}
    <2>1. Check(r) = IF r.doc.kind = "report" THEN SaveReport(r)
                     ELSE SaveLimitation(r)
      BY <1>8 DEF Check
    <2>2. Contract!Verdict(ds, r) =
            IF r.doc.kind = "report" THEN Contract!SaveReport(ds, r)
            ELSE Contract!SaveLimitation(ds, r)
      BY <1>8 DEF Contract!Verdict
    <2>3. Doc("run") \in DocsOf(aggregate)
      BY <1>4, <1>8 DEF RunKinds
    <2> QED BY <1>1, <1>2, <1>3, <1>8, <2>1, <2>2, <2>3, ReadIs, SameDocuments, PlanIs
         DEF Agrees, Found, SaveReport, SaveLimitation, Contract!SaveReport,
             Contract!SaveLimitation, InRun, Contract!InRun, Contract!Once,
             Exists
  <1>9. CASE r.doc.kind \in Versioned
    <2>1. Check(r) = IF r.doc.kind = "signal" THEN SaveSignal(r)
                     ELSE Contiguous(r, "saved")
      BY <1>9 DEF Check, Versioned, SaveForecast, SaveGraph, SavePortfolio
    <2>2. Contract!Verdict(ds, r) =
            IF r.doc.kind = "signal" THEN Contract!SaveSignal(ds, r)
            ELSE Contract!Contiguous(ds, r, "saved")
      BY <1>9 DEF Contract!Verdict, Versioned, Contract!Versioned, Contract!SaveForecast,
           Contract!SaveGraph, Contract!SavePortfolio
    <2>3. r.doc.n > 1 => Previous(r.doc) \in DocsOf(aggregate)
      <3>1. Needs(r.doc) = (IF r.doc.n > 1 THEN {Previous(r.doc)} ELSE {})
        BY <1>9 DEF Needs, Versioned
      <3>2. r.doc \in FilesOf(aggregate)
        BY <1>1 DEF FilesOf
      <3> QED BY <3>1, <3>2, NeedsAreDocs
    <2> QED BY <1>1, <1>3, <1>9, <2>1, <2>2, <2>3, ReadIs, SameDocuments, PlanIs
         DEF Agrees, Found, SaveSignal, Contract!SaveSignal, Contiguous, Contract!Contiguous,
             Exists, Versioned
  <1>10. CASE r.doc.kind \in {"outcome", "profile", "score"}
    <2>1. Check(r) = Once(r)
      BY <1>10 DEF Check, SaveOutcome, SaveProfile, SaveScore
    <2>2. Contract!Verdict(ds, r) =
            IF r.doc.kind = "score" THEN Contract!SaveScore(ds, r)
            ELSE Contract!Once(ds, r)
      BY <1>10 DEF Contract!Verdict, Contract!SaveOutcome, Contract!SaveProfile
    <2>3. r.doc.kind = "score" => Present(ds, Doc("outcome"))
      BY <1>1, <1>3, KindsOfDocs DEF Exists
    <2> QED BY <1>1, <1>3, <1>10, <2>1, <2>2, <2>3, ReadIs, SameDocuments, PlanIs
         DEF Agrees, Found, Once, Contract!Once, Contract!SaveScore
  <1>11. CASE r.doc.kind \in {"status", "cache"}
    <2>1. Check(r) = IF r.doc.kind = "status" THEN SaveStatus(r) ELSE "saved"
      BY <1>11 DEF Check, SaveCache
    <2>2. Contract!Verdict(ds, r) =
            IF r.doc.kind = "status" THEN Contract!SaveStatus(ds, r) ELSE "saved"
      BY <1>11 DEF Contract!Verdict, Contract!SaveCache
    <2> QED BY <1>1, <1>2, <1>3, <1>11, <2>1, <2>2, ReadIs, SameDocuments
         DEF Agrees, Found, SaveStatus, Contract!SaveStatus, Exists
  <1> QED
    BY <1>1, <1>5, <1>6, <1>7, <1>8, <1>9, <1>10, <1>11, KindsOfDocs
    DEF RunKinds, Versioned

-----------------------------------------------------------------------------
\* What a call finds depends on the files alone.
LEMMA CheckDepends ==
  ASSUME NEW r, files' = files
  PROVE  /\ Check(r)' = Check(r)
         /\ Found(r)' = Found(r)
  BY DEF Check, Found, CreateRun, SaveRun, SavePlan, AddArtifact, AddClaim,
     SaveClaim, SaveVerification, SaveReport, SaveLimitation, SaveSignal,
     SaveForecast, SaveGraph, SavePortfolio, SaveProfile, SaveOutcome,
     SaveScore, SaveStatus, SaveCache, Contiguous, InRun, Once, Read, Exists

\* Nothing changes for a process that a step leaves alone.
LEMMA LeftAlone ==
  ASSUME NEW q \in Procs, Underway(q), files' = files,
         pc'[q] = pc[q], request'[q] = request[q], target'[q] = target[q],
         temp'[q] = temp[q]
  PROVE  Underway(q)'
  <1>1. Check(request[q])' = Check(request[q]) /\ Found(request[q])' = Found(request[q])
    <2>1. \A r : files' = files => Check(r)' = Check(r) /\ Found(r)' = Found(r)
      BY CheckDepends
    <2> QED BY <2>1
  <1>2. Passed(q)' <=> Passed(q)
    BY <1>1 DEF Passed
  <1> QED BY <1>2 DEF Underway

-----------------------------------------------------------------------------
\* The invariant holds at first.
LEMMA InitIInv == Init => IInv
  <1> SUFFICES ASSUME Init PROVE IInv
    OBVIOUS
  <1>1. files \in [FilesOf(aggregate) -> Stored] /\ disk = {files}
    BY DEF Init, Stored
  <1>2. TypeOK
    BY <1>1, DocumentsAssumption DEF Init, TypeOK, InsideSteps, Endings
  <1>3. OneWriter
    BY DocumentsAssumption DEF Init, OneWriter, Inside, InsideSteps
  <1>4. Whole(files)
    BY DEF Init, Whole
  <1>5. \A p \in Procs : Underway(p)
    BY DEF Init, Underway, InsideSteps
  <1> QED BY <1>1, <1>2, <1>3, <1>4, <1>5 DEF IInv

\* Each action keeps it.  An action of one process leaves the others alone
\* unless it replaces a file.
LEMMA AskIInv == ASSUME IInv, NEW p \in Procs, Ask(p) PROVE IInv'
  <1> USE DEF IInv
  <1>1. PICK r \in CallsOn(aggregate) : request' = [request EXCEPT ![p] = r]
    BY DEF Ask
  <1>2. TypeOK'
    BY <1>1, DocumentsAssumption DEF Ask, TypeOK, InsideSteps, Endings
  <1>3. OneWriter'
    BY DEF Ask, OneWriter, Inside, InsideSteps, TypeOK
  <1>4. (\A fs \in disk : Whole(fs))'
    BY DEF Ask, Whole
  <1>5. ASSUME NEW q \in Procs PROVE Underway(q)'
    <2>1. CASE q = p
      BY <2>1 DEF Ask, Underway, InsideSteps, TypeOK
    <2>2. CASE q # p
      BY <2>2, LeftAlone DEF Ask, TypeOK
    <2> QED BY <2>1, <2>2
  <1> QED BY <1>2, <1>3, <1>4, <1>5

\* Looking at the outcome of a score before the lock is asked for keeps the invariant.
LEMMA LookIInv == ASSUME IInv, NEW p \in Procs, Look(p) PROVE IInv'
  <1> USE DEF IInv
  <1> DEFINE found == IF request[p].doc.kind = "score"
                      THEN Read(Doc("outcome")) ELSE "saved"
  <1>1. found \in {"saved", "missing", "corrupt"}
    BY ReadIs
  <1>2. TypeOK'
    <2>1. CASE found = "saved"
      BY <2>1 DEF Look, TypeOK, InsideSteps
    <2>2. CASE found # "saved"
      BY <1>1, <2>2 DEF Look, TypeOK, InsideSteps, Endings
    <2> QED BY <2>1, <2>2
  <1>3. OneWriter'
    BY DEF Look, OneWriter, Inside, InsideSteps, TypeOK
  <1>4. (\A fs \in disk : Whole(fs))'
    BY DEF Look, Whole
  <1>5. ASSUME NEW q \in Procs PROVE Underway(q)'
    <2>1. CASE q = p /\ found = "saved"
      <3>1. request[p].doc.kind = "score" => Present(files, Doc("outcome"))
        BY <2>1, ReadIs DEF Exists
      <3> QED BY <2>1, <3>1 DEF Look, Underway, InsideSteps, TypeOK, Present
    <2>2. CASE q = p /\ found # "saved"
      BY <2>2 DEF Look, Underway, InsideSteps, TypeOK
    <2>3. CASE q # p
      BY <2>3, LeftAlone DEF Look, TypeOK
    <2> QED BY <2>1, <2>2, <2>3
  <1> QED BY <1>2, <1>3, <1>4, <1>5

\* Taking the lock of the aggregate keeps the invariant.
LEMMA AcquireIInv == ASSUME IInv, NEW p \in Procs, Acquire(p) PROVE IInv'
  <1> USE DEF IInv
  <1>2. TypeOK'
    BY DEF Acquire, TypeOK, InsideSteps
  <1>3. OneWriter'
    BY DocumentsAssumption DEF Acquire, OneWriter, Inside, InsideSteps, TypeOK
  <1>4. (\A fs \in disk : Whole(fs))'
    BY DEF Acquire, Whole
  <1>5. ASSUME NEW q \in Procs PROVE Underway(q)'
    <2>1. CASE q = p
      BY <2>1 DEF Acquire, Underway, InsideSteps, TypeOK, Present
    <2>2. CASE q # p
      BY <2>2, LeftAlone DEF Acquire, TypeOK
    <2> QED BY <2>1, <2>2
  <1> QED BY <1>2, <1>3, <1>4, <1>5

\* Evaluating the checks under the lock keeps the invariant: what passed goes on passing.
LEMMA DecideIInv == ASSUME IInv, NEW p \in Procs, Decide(p) PROVE IInv'
  <1> USE DEF IInv
  <1> DEFINE r == request[p]
             t == IF r.doc.kind = "run" /\ r.add THEN Mandate ELSE r.doc
             go == Check(r) = "saved" /\ ~Found(r)
  <1>0. /\ pc[p] = "check" /\ r \in CallsOn(aggregate)
        /\ aggregate \in Aggregates /\ r.doc \in DocsOf(aggregate)
        /\ files \in [FilesOf(aggregate) -> Stored] /\ Whole(files)
        /\ r.doc.kind = "score" => Present(files, Doc("outcome"))
    BY DEF Decide, TypeOK, CallsOn, Underway, InsideSteps
  <1>1. Check(r) \in {"saved", "conflict", "missing", "corrupt"}
    BY <1>0, VerdictsAgree DEF Agrees
  <1>2. r.doc \in FilesOf(aggregate) /\ t \in FilesOf(aggregate)
    BY <1>0, KindsOfDocs DEF FilesOf, RunKinds
  <1>3. CASE go
    <2>0. /\ pc' = [pc EXCEPT ![p] = "stage"]
          /\ target' = [target EXCEPT ![p] = t] /\ verdict' = verdict
          /\ UNCHANGED <<aggregate, files, disk, holder, request, temp, answer,
                         calls>>
      BY <1>3 DEF Decide
    <2>1. TypeOK'
      BY <1>0, <1>2, <2>0 DEF TypeOK, InsideSteps
    <2>2. OneWriter'
      BY <1>0, <2>0 DEF OneWriter, Inside, InsideSteps, TypeOK
    <2>3. (\A fs \in disk : Whole(fs))'
      BY <2>0 DEF Whole
    <2>4. ASSUME NEW q \in Procs PROVE Underway(q)'
      <3>1. CASE q = p
        <4>1. Check(r)' = Check(r) /\ Found(r)' = Found(r)
          <5>1. \A x : Check(x)' = Check(x) /\ Found(x)' = Found(x)
            BY <2>0, CheckDepends
          <5> QED BY <2>0, <5>1
        <4>2. t = Mandate => r.doc = Doc("run") /\ r.add
          BY <1>0, KindsOfDocs DEF RunKinds
        <4>3. t = Doc("run") => Present(files, Mandate)
          <5> SUFFICES ASSUME t = Doc("run") PROVE Present(files, Mandate)
            OBVIOUS
          <5>1. t = r.doc /\ r.doc.kind = "run" /\ ~r.add
            BY DEF Mandate, Doc
          <5>2. aggregate = "run"
            BY <1>0, <5>1, KindsOfDocs DEF RunKinds
          <5>3. Present(files, Doc("run"))
            BY <1>3, <5>1, ReadIs DEF Check, SaveRun, Exists
          <5> QED BY <1>0, <5>2, <5>3 DEF Whole
        <4>4. Passed(p)'
          BY <1>3, <2>0, <4>1, <4>2, <4>3 DEF Passed, TypeOK, Present
        <4>5. pc'[p] = "stage"
          BY <2>0 DEF TypeOK
        <4> QED BY <1>0, <2>0, <3>1, <4>4, <4>5
             DEF Underway, InsideSteps, TypeOK, Present
      <3>2. CASE q # p
        BY <2>0, <3>2, LeftAlone DEF TypeOK
      <3> QED BY <3>1, <3>2
    <2> QED BY <2>1, <2>2, <2>3, <2>4
  <1>4. CASE ~go
    <2>0. /\ pc' = [pc EXCEPT ![p] = "release"]
          /\ verdict' = [verdict EXCEPT ![p] = Check(r)] /\ target' = target
          /\ UNCHANGED <<aggregate, files, disk, holder, request, temp, answer,
                         calls>>
      BY <1>4 DEF Decide
    <2>1. TypeOK'
      BY <1>0, <1>1, <2>0 DEF TypeOK, InsideSteps, Endings
    <2>2. OneWriter'
      BY <1>0, <2>0 DEF OneWriter, Inside, InsideSteps, TypeOK
    <2>3. (\A fs \in disk : Whole(fs))'
      BY <2>0 DEF Whole
    <2>4. ASSUME NEW q \in Procs PROVE Underway(q)'
      <3>1. CASE q = p
        BY <1>0, <2>0, <3>1 DEF Underway, InsideSteps, TypeOK, Present
      <3>2. CASE q # p
        BY <2>0, <3>2, LeftAlone DEF TypeOK
      <3> QED BY <3>1, <3>2
    <2> QED BY <2>1, <2>2, <2>3, <2>4
  <1> QED BY <1>3, <1>4

\* Writing the temporary sibling keeps the invariant.
LEMMA StageIInv == ASSUME IInv, NEW p \in Procs, Stage(p) PROVE IInv'
  <1> USE DEF IInv
  <1>1. request[p].value \in Values /\ Torn \in Values \union {Torn}
    BY DEF Stage, TypeOK, CallsOn
  <1>2. TypeOK'
    BY <1>1 DEF Stage, TypeOK, InsideSteps
  <1>3. OneWriter'
    BY DEF Stage, OneWriter, Inside, InsideSteps, TypeOK
  <1>4. (\A fs \in disk : Whole(fs))'
    BY DEF Stage, Whole
  <1>5. ASSUME NEW q \in Procs PROVE Underway(q)'
    <2>1. CASE q = p
      <3>1. Passed(p)
        BY DEF Stage, Underway
      <3>2. \A r : Check(r)' = Check(r) /\ Found(r)' = Found(r)
        BY CheckDepends DEF Stage
      <3>3. Passed(p)'
        BY <3>1, <3>2 DEF Stage, Passed, Present
      <3> QED BY <2>1, <3>3 DEF Stage, Underway, InsideSteps, TypeOK, Present
    <2>2. CASE q # p
      BY <2>2, LeftAlone DEF Stage, TypeOK
    <2> QED BY <2>1, <2>2
  <1> QED BY <1>2, <1>3, <1>4, <1>5

\* Flushing the temporary sibling keeps the invariant.
LEMMA FlushIInv == ASSUME IInv, NEW p \in Procs, Flush(p) PROVE IInv'
  <1> USE DEF IInv
  <1>0. temp[p] = [seen |-> request[p].value, stored |-> Torn]
        /\ request[p].value \in Values
    BY DEF Flush, Underway, TypeOK, CallsOn
  <1>1. temp' = [temp EXCEPT ![p] = [seen |-> request[p].value,
                                     stored |-> request[p].value]]
    <2>1. [temp[p] EXCEPT !.stored = temp[p].seen]
            = [seen |-> request[p].value, stored |-> request[p].value]
      BY <1>0
    <2>2. temp' = [temp EXCEPT ![p] = [temp[p] EXCEPT !.stored = temp[p].seen]]
      BY DEF Flush
    <2> QED BY <2>1, <2>2
  <1>2. TypeOK'
    BY <1>0, <1>1 DEF Flush, TypeOK, InsideSteps
  <1>3. OneWriter'
    BY DEF Flush, OneWriter, Inside, InsideSteps, TypeOK
  <1>4. (\A fs \in disk : Whole(fs))'
    BY DEF Flush, Whole
  <1>5. ASSUME NEW q \in Procs PROVE Underway(q)'
    <2>1. CASE q = p
      <3>1. Passed(p)
        BY DEF Flush, Underway
      <3>2. \A r : Check(r)' = Check(r) /\ Found(r)' = Found(r)
        BY CheckDepends DEF Flush
      <3>3. Passed(p)'
        BY <3>1, <3>2 DEF Flush, Passed, Present
      <3> QED BY <1>1, <2>1, <3>3
           DEF Flush, Underway, InsideSteps, TypeOK, Present
    <2>2. CASE q # p
      BY <1>1, <2>2, LeftAlone DEF Flush, TypeOK
    <2> QED BY <2>1, <2>2
  <1> QED BY <1>2, <1>3, <1>4, <1>5

\* The process that replaces a file is the only one inside, so nothing that
\* another has found out is changed under it.
LEMMA ReplaceIInv == ASSUME IInv, NEW p \in Procs, Replace(p) PROVE IInv'
  <1> USE DEF IInv
  <1> DEFINE r == request[p]
             t == target[p]
             gs == [files EXCEPT ![t] = r.value]
  <1>0. /\ temp[p] = [seen |-> r.value, stored |-> r.value]
        /\ Passed(p) /\ r \in CallsOn(aggregate) /\ r.value \in Values
        /\ r.doc \in DocsOf(aggregate) /\ aggregate \in Aggregates
        /\ files \in [FilesOf(aggregate) -> Stored] /\ Whole(files)
        /\ pc[p] = "replace" /\ t \in {r.doc, Mandate}
        /\ r.doc.kind = "score" => Present(files, Doc("outcome"))
    BY DEF Replace, Underway, TypeOK, CallsOn, Passed, InsideSteps
  <1>1. t \in FilesOf(aggregate)
    <2>1. CASE t = r.doc
      BY <1>0, <2>1 DEF FilesOf
    <2>2. CASE t = Mandate
      <3>1. r.doc.kind = "run"
        BY <1>0, <2>2 DEF Passed, Doc
      <3> QED BY <1>0, <2>2, <3>1, KindsOfDocs DEF FilesOf, RunKinds
    <2> QED BY <1>0, <2>1, <2>2
  <1>2. files' = gs /\ disk' = disk \union {gs}
    BY <1>0 DEF Replace
  <1>3. r.value # None
    BY <1>0, DocumentsAssumption DEF Values
  <1>4. gs \in [FilesOf(aggregate) -> Stored]
    BY <1>0, <1>1 DEF Stored
  <1>5. \A e \in Needs(t) : Present(files, e)
    <2>1. CASE t = r.doc
      BY <1>0, <2>1, CheckedNeeds DEF Passed
    <2>2. CASE t = Mandate
      BY <2>2 DEF Needs, Mandate, Doc
    <2> QED BY <1>0, <2>1, <2>2
  <1>6. Whole(gs)
    BY <1>0, <1>1, <1>3, <1>5, AddWhole DEF Passed
  <1>7. TypeOK'
    BY <1>0, <1>2, <1>4 DEF Replace, TypeOK, InsideSteps
  <1>8. OneWriter'
    BY <1>0 DEF Replace, OneWriter, Inside, InsideSteps, TypeOK
  <1>9. (\A fs \in disk : Whole(fs))'
    BY <1>2, <1>6 DEF Replace, Whole
  <1>10. \A d \in FilesOf(aggregate) : Present(files, d) => Present(files, d)'
    BY <1>0, <1>1, <1>2, <1>3 DEF Present
  <1>11. aggregate' = aggregate /\ request' = request /\ target' = target
         /\ pc' = [pc EXCEPT ![p] = "sync"] /\ temp' = [temp EXCEPT ![p] = None]
    BY DEF Replace
  <1>12. r.doc.kind = "score" => Doc("outcome") \in FilesOf(aggregate)
    BY <1>0, KindsOfDocs DEF FilesOf
  <1>13. ASSUME NEW q \in Procs PROVE Underway(q)'
    <2>1. CASE q = p
      <3>1. ASSUME t = Mandate PROVE Passed(p)' /\ Present(files, Mandate)'
        <4>1. r.doc = Doc("run") /\ r.add /\ Mandate # Doc("run")
          BY <1>0, <3>1 DEF Passed, Mandate, Doc
        <4>2. Check(r) = Once(r) /\ Check(r)' = Once(r)'
          BY <1>11, <4>1 DEF Check, CreateRun, Doc
        <4>3. Present(files, r.doc)' <=> Present(files, r.doc)
          BY <1>0, <1>2, <1>11, <3>1, <4>1 DEF Present
        <4>4. Check(r)' = "saved"
          BY <1>0, <4>2, <4>3 DEF Passed, Once, Exists
        <4>5. ~Found(r)'
          BY <1>11, <4>1 DEF Found, Doc
        <4>6. Present(files, Mandate)'
          BY <1>0, <1>1, <1>2, <1>3, <3>1 DEF Present
        <4> QED BY <1>0, <1>11, <3>1, <4>1, <4>4, <4>5, <4>6 DEF Passed
      <3>2. pc'[p] = "sync" /\ request'[p] = r /\ target'[p] = t
        BY <1>11 DEF TypeOK
      <3>3. r.doc.kind = "score" => Present(files, Doc("outcome"))'
        BY <1>0, <1>10, <1>12
      <3> QED BY <1>0, <2>1, <3>1, <3>2, <3>3 DEF Underway, InsideSteps
    <2>2. CASE q # p
      <3>1. ~Inside(q)
        BY <1>0, <2>2 DEF OneWriter, Inside, InsideSteps
      <3>2. pc'[q] = pc[q] /\ request'[q] = request[q]
        BY <1>11, <2>2 DEF TypeOK
      <3>3. pc[q] = "wait" /\ request[q].doc.kind = "score" =>
              Doc("outcome") \in FilesOf(aggregate)
        BY <1>0, KindsOfDocs DEF FilesOf, TypeOK, CallsOn
      <3>4. pc[q] = "wait" /\ request[q].doc.kind = "score" =>
              Present(files, Doc("outcome"))
        BY DEF Underway
      <3>5. pc'[q] = "wait" /\ request'[q].doc.kind = "score" =>
              Present(files, Doc("outcome"))'
        BY <1>10, <3>2, <3>3, <3>4
      <3> QED BY <3>1, <3>2, <3>5 DEF Underway, Inside, InsideSteps
    <2> QED BY <2>1, <2>2
  <1> QED BY <1>7, <1>8, <1>9, <1>13

\* Flushing the directory keeps the invariant: later power failures leave these files.
LEMMA SyncDirectoryIInv ==
  ASSUME IInv, NEW p \in Procs, SyncDirectory(p) PROVE IInv'
  <1> USE DEF IInv
  <1> DEFINE r == request[p]
  <1>0. /\ pc[p] = "sync" /\ r \in CallsOn(aggregate)
        /\ r.doc \in DocsOf(aggregate) /\ aggregate \in Aggregates
        /\ files \in disk /\ Whole(files)
        /\ files \in [FilesOf(aggregate) -> Stored]
        /\ target[p] \in {r.doc, Mandate}
        /\ r.doc.kind = "score" => Present(files, Doc("outcome"))
    BY DEF SyncDirectory, Underway, TypeOK, CallsOn, InsideSteps
  <1>1. r.doc \in FilesOf(aggregate)
    BY <1>0 DEF FilesOf
  <1>2. disk' \in {disk, {files}}
    BY DEF SyncDirectory
  <1>3. (\A fs \in disk : Whole(fs))'
    BY <1>0, <1>2 DEF SyncDirectory, Whole
  <1>4. CASE target[p] = r.doc
    <2>0. /\ pc' = [pc EXCEPT ![p] = "release"]
          /\ verdict' = [verdict EXCEPT ![p] = "saved"] /\ target' = target
          /\ UNCHANGED <<aggregate, files, holder, request, temp, answer, calls>>
      BY <1>4 DEF SyncDirectory
    <2>1. TypeOK'
      BY <1>0, <1>2, <2>0 DEF TypeOK, InsideSteps, Endings
    <2>2. OneWriter'
      BY <1>0, <2>0 DEF OneWriter, Inside, InsideSteps, TypeOK
    <2>3. ASSUME NEW q \in Procs PROVE Underway(q)'
      <3>1. CASE q = p
        BY <1>0, <2>0, <3>1 DEF Underway, InsideSteps, TypeOK, Present
      <3>2. CASE q # p
        BY <2>0, <3>2, LeftAlone DEF TypeOK
      <3> QED BY <3>1, <3>2
    <2> QED BY <1>3, <2>1, <2>2, <2>3
  <1>5. CASE target[p] # r.doc
    <2>0. /\ pc' = [pc EXCEPT ![p] = "stage"]
          /\ target' = [target EXCEPT ![p] = r.doc] /\ verdict' = verdict
          /\ UNCHANGED <<aggregate, files, holder, request, temp, answer, calls>>
      BY <1>5 DEF SyncDirectory
    <2>1. TypeOK'
      BY <1>0, <1>1, <1>2, <2>0 DEF TypeOK, InsideSteps
    <2>2. OneWriter'
      BY <1>0, <2>0 DEF OneWriter, Inside, InsideSteps, TypeOK
    <2>3. ASSUME NEW q \in Procs PROVE Underway(q)'
      <3>1. CASE q = p
        <4>1. Passed(p) /\ Present(files, Mandate)
          BY <1>0, <1>5 DEF Underway
        <4>2. \A x : Check(x)' = Check(x) /\ Found(x)' = Found(x)
          BY <2>0, CheckDepends
        <4>3. r.doc # Mandate
          BY <1>0, KindsOfDocs
        <4>4. target'[p] = r.doc /\ pc'[p] = "stage"
          BY <2>0 DEF TypeOK
        <4>5. Passed(p)'
          BY <2>0, <4>1, <4>2, <4>3, <4>4 DEF Passed, Present
        <4> QED BY <1>0, <2>0, <3>1, <4>4, <4>5
             DEF Underway, InsideSteps, TypeOK, Present
      <3>2. CASE q # p
        BY <2>0, <3>2, LeftAlone DEF TypeOK
      <3> QED BY <3>1, <3>2
    <2> QED BY <1>3, <2>1, <2>2, <2>3
  <1> QED BY <1>4, <1>5

\* The end of a call and the death of its process keep the invariant.
LEMMA LeaveIInv ==
  ASSUME IInv, NEW p \in Procs, NEW told \in Endings, Leave(p, told)
  PROVE  IInv'
  <1> USE DEF IInv
  <1>1. TypeOK'
    BY DEF Leave, TypeOK, InsideSteps, Endings
  <1>2. OneWriter'
    BY DocumentsAssumption DEF Leave, OneWriter, Inside, InsideSteps, TypeOK
  <1>3. (\A fs \in disk : Whole(fs))'
    BY DEF Leave, Whole
  <1>4. ASSUME NEW q \in Procs PROVE Underway(q)'
    <2>1. CASE q = p
      BY <2>1 DEF Leave, Underway, InsideSteps, TypeOK
    <2>2. CASE q # p
      BY <2>2, LeftAlone DEF Leave, TypeOK
    <2> QED BY <2>1, <2>2
  <1> QED BY <1>1, <1>2, <1>3, <1>4

\* A write that fails keeps the invariant.
LEMMA WriteFailsIInv ==
  ASSUME IInv, NEW p \in Procs, WriteFails(p) PROVE IInv'
  <1> USE DEF IInv
  <1>1. TypeOK'
    BY DEF WriteFails, TypeOK, InsideSteps, Endings
  <1>2. OneWriter'
    BY DEF WriteFails, OneWriter, Inside, InsideSteps, TypeOK
  <1>3. (\A fs \in disk : Whole(fs))'
    BY DEF WriteFails, Whole
  <1>4. ASSUME NEW q \in Procs PROVE Underway(q)'
    <2>1. CASE q = p
      BY <2>1 DEF WriteFails, Underway, InsideSteps, TypeOK, Present
    <2>2. CASE q # p
      BY <2>2, LeftAlone DEF WriteFails, TypeOK
    <2> QED BY <2>1, <2>2
  <1> QED BY <1>1, <1>2, <1>3, <1>4

\* A power failure keeps the invariant.
LEMMA PowerLossIInv == ASSUME IInv, PowerLoss PROVE IInv'
  <1> USE DEF IInv
  <1>1. TypeOK'
    BY DEF PowerLoss, TypeOK, InsideSteps, Endings
  <1>2. OneWriter'
    BY DocumentsAssumption DEF PowerLoss, OneWriter, Inside, InsideSteps
  <1>3. (\A fs \in disk : Whole(fs))'
    BY DEF PowerLoss, Whole
  <1>4. ASSUME NEW q \in Procs PROVE Underway(q)'
    BY DEF PowerLoss, Underway, InsideSteps
  <1> QED BY <1>1, <1>2, <1>3, <1>4

\* Every step keeps the invariant.
LEMMA NextIInv == IInv /\ [Next]_vars => IInv'
  <1> SUFFICES ASSUME IInv, [Next]_vars PROVE IInv'
    OBVIOUS
  <1>1. ASSUME NEW p \in Procs, Release(p) \/ Return(p) \/ Die(p) PROVE IInv'
    <2>1. verdict[p] \in Endings /\ "none" \in Endings
      BY DEF IInv, TypeOK, Endings
    <2> QED BY <1>1, <2>1, LeaveIInv DEF Release, Return, Die
  <1>2. CASE UNCHANGED vars
    <2>1. TypeOK'
      BY <1>2 DEF IInv, vars, TypeOK
    <2>2. OneWriter' /\ (\A fs \in disk : Whole(fs))'
      BY <1>2 DEF IInv, vars, OneWriter, Inside, Whole
    <2>3. ASSUME NEW q \in Procs PROVE Underway(q)'
      BY <1>2, LeftAlone DEF IInv, vars
    <2> QED BY <2>1, <2>2, <2>3 DEF IInv
  <1> QED
    BY <1>1, <1>2, AskIInv, LookIInv, AcquireIInv, DecideIInv, StageIInv,
       FlushIInv, ReplaceIInv, SyncDirectoryIInv, WriteFailsIInv, PowerLossIInv
    DEF Next, Step

\* The inductive invariant holds in every reachable state.
LEMMA Invariant == Spec => []IInv
  BY InitIInv, NextIInv, PTL DEF Spec

\* Every file is a whole document and every process knows its step, for every
\* number of processes, versions and calls.
THEOREM FileStoreTypeOK == Spec => []TypeOK
  BY Invariant, PTL DEF IInv

\* The lock of an aggregate (atomic_files.py) has one holder from its check to
\* its last write.
THEOREM FileStoreOneWriter == Spec => []OneWriter
  BY Invariant, PTL DEF IInv

\* What a file cannot be without is there, after kills and power failures too.
THEOREM FileStoreFilesClosed == Spec => []FilesClosed
  <1>1. IInv => FilesClosed
    BY DEF IInv, TypeOK, FilesClosed, Whole, Exists
  <1> QED BY <1>1, Invariant, PTL

-----------------------------------------------------------------------------
\* The state of the contract that a state of the files stands for.
Docs == WithoutMandate(files)
Kept == {WithoutMandate(fs) : fs \in disk}
Phases == [p \in Procs |-> Phase(p)]

\* How far a call has come for its caller.
LEMMA PhaseIs ==
  \A p :
    /\ Phase(p) = IF pc[p] = "idle" THEN "idle"
                  ELSE IF pc[p] \in {"release", "return"} THEN verdict[p]
                  ELSE IF pc[p] = "sync" /\ target[p] = request[p].doc
                       THEN "applied"
                  ELSE "asked"
    /\ Phase(p)' = IF pc'[p] = "idle" THEN "idle"
                   ELSE IF pc'[p] \in {"release", "return"} THEN verdict'[p]
                   ELSE IF pc'[p] = "sync" /\ target'[p] = request'[p].doc
                        THEN "applied"
                   ELSE "asked"
  BY DEF Phase

\* A step of p moves the phase of p alone.
LEMMA PhasesMove ==
  ASSUME NEW p \in Procs, NEW x, Phase(p)' = x,
         \A q \in Procs \ {p} :
           /\ pc'[q] = pc[q] /\ verdict'[q] = verdict[q]
           /\ target'[q] = target[q] /\ request'[q] = request[q]
  PROVE  Phases' = [Phases EXCEPT ![p] = x]
  <1>1. \A q \in Procs \ {p} : Phase(q)' = Phase(q)
    BY PhaseIs
  <1> QED BY <1>1 DEF Phases

\* A step that changes neither phase nor files stutters.
LEMMA PhasesStay ==
  ASSUME NEW p \in Procs, Phase(p)' = Phase(p),
         \A q \in Procs \ {p} :
           /\ pc'[q] = pc[q] /\ verdict'[q] = verdict[q]
           /\ target'[q] = target[q] /\ request'[q] = request[q]
  PROVE  Phases' = Phases
  <1>1. \A q \in Procs \ {p} : Phase(q)' = Phase(q)
    BY PhaseIs
  <1> QED BY <1>1 DEF Phases

\* Files that do not change are the same to a caller.
LEMMA FilesStay ==
  ASSUME aggregate' = aggregate, files' = files
  PROVE  Docs' = Docs /\ (disk' = disk => Kept' = Kept)
  BY DEF Docs, Kept, WithoutMandate

\* Initial states are initial states of the contract.
LEMMA InitRefines == Init => Contract!Init
  <1> SUFFICES ASSUME Init PROVE Contract!Init
    OBVIOUS
  <1>1. aggregate \in Aggregates /\ aggregate \in Contract!Aggregates
    BY DEF Init, Aggregates, Contract!Aggregates, Versioned, Contract!Versioned
  <1>2. files \in [FilesOf(aggregate) -> Old \union {None}]
    BY DEF Init
  <1>3. DocsOf(aggregate) \subseteq FilesOf(aggregate)
    BY DEF FilesOf
  <1>4. Docs \in [Contract!DocsOf(aggregate) -> Old \union {None}]
    BY <1>2, <1>3, SameDocuments DEF Docs, WithoutMandate
  <1>5. Contract!Closed(Docs)
    <2>1. \A d : Contract!Needs(d) = Needs(d)
      BY DEF Contract!Needs, Needs, Contract!Doc, Doc, Contract!Previous, Previous
    <2>2. \A d \in DocsOf(aggregate) : Needs(d) \subseteq DocsOf(aggregate)
      BY <1>1, <1>3, NeedsAreDocs
    <2>3. \A d \in DocsOf(aggregate) : Present(Docs, d) <=> Present(files, d)
      BY DEF Docs, WithoutMandate, Present
    <2>4. Closed(files) /\ DOMAIN files = FilesOf(aggregate)
          /\ DOMAIN Docs = DocsOf(aggregate)
      BY <1>2 DEF Init, Docs, WithoutMandate
    <2> QED BY <1>3, <2>1, <2>2, <2>3, <2>4, SameDocuments
         DEF Closed, Contract!Closed
  <1>6. Contract!Cardinality({d \in DOMAIN Docs : Contract!Present(Docs, d)})
          <= MaxOld
    <2>1. {d \in DOMAIN Docs : Contract!Present(Docs, d)}
            = {d \in DocsOf(aggregate) : Present(files, d)}
      BY SameDocuments DEF Docs, WithoutMandate, Present
    <2>2. \A S : Contract!Cardinality(S) = Cardinality(S)
      BY DEF Contract!Cardinality, Cardinality
    <2> QED BY <2>1, <2>2 DEF Init
  <1>7. Kept = {Docs}
    BY DEF Init, Kept, Docs
  <1>8. Phases = [p \in Procs |-> "idle"]
    BY PhaseIs DEF Init, Phases
  <1> QED BY <1>1, <1>4, <1>5, <1>6, <1>7, <1>8
       DEF Init, Contract!Init, Docs, Kept, Phases

\* Each action does what one action of the contract does, or nothing.
LEMMA AskRefines ==
  ASSUME IInv, NEW p \in Procs, Ask(p) PROVE Contract!Ask(p)
  <1>1. Phases' = [Phases EXCEPT ![p] = "asked"]
    <2>1. Phase(p)' = "asked"
      BY PhaseIs DEF Ask, IInv, TypeOK
    <2> QED BY <2>1, PhasesMove DEF Ask, IInv, TypeOK
  <1>2. Docs' = Docs /\ Kept' = Kept
    BY FilesStay DEF Ask
  <1>3. Phases[p] = "idle"
    BY PhaseIs DEF Ask, Phases
  <1>4. Contract!CallsOn(aggregate) = CallsOn(aggregate)
    BY SameDocuments
  <1> QED BY <1>1, <1>2, <1>3, <1>4
       DEF Ask, Contract!Ask, Docs, Kept, Phases

\* A call that has been judged against it is refused.
LEMMA RefuseRefines ==
  ASSUME NEW p \in Procs, NEW v \in {"conflict", "missing", "corrupt", "error"},
         Phase(p) = "asked", Phase(p)' = v,
         \/ v = "error"
         \/ v = "corrupt"
            /\ \E d \in DocsOf(aggregate) : Present(Docs, d) /\ ~Readable(Docs, d)
         \/ v = Contract!Verdict(Docs, request[p]),
         \A q \in Procs \ {p} :
           /\ pc'[q] = pc[q] /\ verdict'[q] = verdict[q]
           /\ target'[q] = target[q] /\ request'[q] = request[q],
         UNCHANGED <<aggregate, files, disk, request, answer, calls>>
  PROVE  \E refusal \in Contract!Refusals : Contract!Refuse(p, refusal)
  <1>1. Phases' = [Phases EXCEPT ![p] = v]
    BY PhasesMove
  <1>2. Phases[p] = "asked"
    BY DEF Phases
  <1>3. Docs' = Docs /\ Kept' = Kept
    BY FilesStay
  <1>4. DOMAIN Docs = DocsOf(aggregate)
    BY DEF Docs, WithoutMandate
  <1>5. v \in Contract!Refusals /\ v # "saved"
    BY DEF Contract!Refusals
  <1>6. Contract!Refuse(p, v)
    BY <1>1, <1>2, <1>3, <1>4, <1>5, SameDocuments
    DEF Contract!Refuse, Docs, Kept, Phases
  <1> QED BY <1>5, <1>6

\* Looking refuses the call, or nobody sees it.
LEMMA LookRefines ==
  ASSUME IInv, NEW p \in Procs, Look(p)
  PROVE  \/ UNCHANGED Contract!vars
         \/ \E refusal \in Contract!Refusals : Contract!Refuse(p, refusal)
  <1> DEFINE r == request[p]
             found == IF r.doc.kind = "score"
                      THEN Read(Doc("outcome")) ELSE "saved"
  <1>0. r \in CallsOn(aggregate) /\ aggregate \in Aggregates
        /\ r.doc \in DocsOf(aggregate)
    BY DEF Look, IInv, TypeOK, CallsOn
  <1>1. CASE found = "saved"
    <2>1. /\ pc' = [pc EXCEPT ![p] = "wait"]
          /\ UNCHANGED <<aggregate, files, disk, request, target, verdict, answer,
                         calls>>
      BY <1>1 DEF Look
    <2>2. Phase(p)' = Phase(p)
      BY <2>1, PhaseIs DEF Look, IInv, TypeOK
    <2>3. Phases' = Phases
      BY <2>1, <2>2, PhasesStay DEF IInv, TypeOK
    <2>4. Docs' = Docs /\ Kept' = Kept
      BY <2>1, FilesStay
    <2> QED BY <2>1, <2>3, <2>4 DEF Contract!vars, Docs, Kept, Phases
  <1>2. CASE found # "saved"
    <2>1. /\ pc' = [pc EXCEPT ![p] = "return"]
          /\ verdict' = [verdict EXCEPT ![p] = found]
          /\ UNCHANGED <<aggregate, files, disk, request, target, answer, calls>>
      BY <1>2 DEF Look
    <2>2. found \in {"missing", "corrupt"} /\ r.doc.kind = "score"
      BY <1>2, ReadIs
    <2>3. Phase(p) = "asked" /\ Phase(p)' = found
      BY <2>1, PhaseIs DEF Look, IInv, TypeOK
    <2>4. Doc("outcome") \in DocsOf(aggregate)
      BY <1>0, <2>2, KindsOfDocs
    <2>5. Docs[Doc("outcome")] = files[Doc("outcome")]
      BY <2>4 DEF Docs, WithoutMandate
    <2>6. CASE found = "corrupt"
      <3>1. Present(Docs, Doc("outcome")) /\ ~Readable(Docs, Doc("outcome"))
        BY <2>2, <2>5, <2>6, ReadIs DEF Exists, Present, Readable
      <3> QED BY <2>1, <2>3, <2>4, <2>6, <3>1, RefuseRefines DEF IInv, TypeOK
    <2>7. CASE found = "missing"
      <3>1. ~Present(Docs, Doc("outcome"))
        BY <2>2, <2>5, <2>7, ReadIs DEF Exists, Present, Readable
      <3>2. Contract!Verdict(Docs, r) = Contract!SaveScore(Docs, r)
        BY <2>2 DEF Contract!Verdict
      <3>3. Contract!Verdict(Docs, r) = "missing"
        BY <3>1, <3>2, SameDocuments DEF Contract!SaveScore
      <3> QED BY <2>1, <2>3, <2>7, <3>3, RefuseRefines DEF IInv, TypeOK
    <2> QED BY <2>2, <2>6, <2>7
  <1> QED BY <1>1, <1>2

\* Deciding finds the document saved, refuses the call, or nobody sees it.
LEMMA DecideRefines ==
  ASSUME IInv, NEW p \in Procs, Decide(p)
  PROVE  \/ UNCHANGED Contract!vars
         \/ Contract!Find(p)
         \/ \E refusal \in Contract!Refusals : Contract!Refuse(p, refusal)
  <1> DEFINE r == request[p]
  <1>0. /\ pc[p] = "check" /\ r \in CallsOn(aggregate)
        /\ aggregate \in Aggregates /\ r.doc \in DocsOf(aggregate)
        /\ files \in [FilesOf(aggregate) -> Stored]
        /\ r.doc.kind = "score" => Present(files, Doc("outcome"))
    BY DEF IInv, Decide, TypeOK, CallsOn, Underway, InsideSteps
  <1>1. Agrees(Docs, r)
    BY <1>0, VerdictsAgree DEF Docs
  <1>2. Docs' = Docs /\ Kept' = Kept
    BY FilesStay DEF Decide
  <1>3. Phase(p) = "asked"
    BY <1>0, PhaseIs
  <1>4. CASE Check(r) = "saved" /\ ~Found(r)
    <2>1. /\ pc' = [pc EXCEPT ![p] = "stage"] /\ verdict' = verdict
          /\ \A q \in Procs \ {p} : target'[q] = target[q]
          /\ UNCHANGED <<aggregate, files, disk, request, answer, calls>>
      BY <1>4 DEF Decide, IInv, TypeOK
    <2>2. Phase(p)' = "asked"
      BY <2>1, PhaseIs DEF IInv, TypeOK
    <2>3. Phases' = Phases
      BY <1>3, <2>1, <2>2, PhasesStay DEF IInv, TypeOK
    <2> QED BY <1>2, <2>1, <2>3 DEF Contract!vars, Docs, Kept, Phases
  <1>5. CASE ~(Check(r) = "saved" /\ ~Found(r))
    <2>1. /\ pc' = [pc EXCEPT ![p] = "release"]
          /\ verdict' = [verdict EXCEPT ![p] = Check(r)]
          /\ UNCHANGED <<aggregate, files, disk, request, target, answer, calls>>
      BY <1>5 DEF Decide
    <2>2. Phase(p)' = Check(r)
      BY <2>1, PhaseIs DEF IInv, TypeOK
    <2>3. CASE Check(r) = "saved"
      <3>1. Phases' = [Phases EXCEPT ![p] = "saved"]
        BY <2>1, <2>2, <2>3, PhasesMove DEF IInv, TypeOK
      <3>2. Docs[r.doc] = r.value /\ r.doc.kind = "plan"
        BY <1>1, <1>5, <2>3 DEF Agrees, Found
      <3>3. Phases[p] = "asked"
        BY <1>3 DEF Phases
      <3>4. Contract!Find(p)
        BY <1>2, <2>1, <3>1, <3>2, <3>3 DEF Contract!Find, Docs, Kept, Phases
      <3> QED BY <3>4
    <2>4. CASE Check(r) # "saved"
      <3>1. Check(r) \in {"conflict", "missing", "corrupt"}
        BY <1>1, <2>4 DEF Agrees
      <3>2. \/ Check(r) = "corrupt"
               /\ \E d \in DocsOf(aggregate) :
                     Present(Docs, d) /\ ~Readable(Docs, d)
            \/ Check(r) = Contract!Verdict(Docs, r)
        BY <1>1 DEF Agrees
      <3> QED BY <1>3, <2>1, <2>2, <3>1, <3>2, RefuseRefines DEF IInv, TypeOK
    <2> QED BY <2>3, <2>4
  <1> QED BY <1>4, <1>5

\* Waiting for the lock, and what is written beside a file, is not seen.
LEMMA UnseenRefines ==
  ASSUME IInv, NEW p \in Procs, Acquire(p) \/ Stage(p) \/ Flush(p)
  PROVE  UNCHANGED Contract!vars
  <1>1. /\ \A q \in Procs \ {p} : pc'[q] = pc[q]
        /\ UNCHANGED <<aggregate, files, disk, request, target, verdict, answer,
                       calls>>
    BY DEF Acquire, Stage, Flush, IInv, TypeOK
  <1>2. /\ pc[p] \in {"wait", "stage", "flush"}
        /\ pc'[p] \in {"check", "flush", "replace"}
    BY DEF Acquire, Stage, Flush, IInv, TypeOK
  <1>3. Phase(p)' = Phase(p)
    BY <1>1, <1>2, PhaseIs
  <1>4. Phases' = Phases
    BY <1>1, <1>3, PhasesStay
  <1>5. Docs' = Docs /\ Kept' = Kept
    BY <1>1, FilesStay
  <1> QED BY <1>1, <1>4, <1>5 DEF Contract!vars, Docs, Kept, Phases

\* The one step in which a call takes effect; mandate.md is not in the contract.
LEMMA ReplaceRefines ==
  ASSUME IInv, NEW p \in Procs, Replace(p)
  PROVE  UNCHANGED Contract!vars \/ Contract!Apply(p)
  <1> DEFINE r == request[p]
             t == target[p]
             gs == [files EXCEPT ![t] = r.value]
  <1>0. /\ temp[p] = [seen |-> r.value, stored |-> r.value]
        /\ Check(r) = "saved" /\ ~Found(r) /\ r \in CallsOn(aggregate)
        /\ r.doc \in DocsOf(aggregate) /\ aggregate \in Aggregates
        /\ files \in [FilesOf(aggregate) -> Stored] /\ files \in disk
        /\ pc[p] = "replace" /\ t \in {r.doc, Mandate}
        /\ r.doc.kind = "score" => Present(files, Doc("outcome"))
    BY DEF IInv, Replace, Underway, TypeOK, CallsOn, Passed, InsideSteps
  <1>1. /\ files' = gs /\ disk' = disk \union {gs}
        /\ pc' = [pc EXCEPT ![p] = "sync"]
        /\ UNCHANGED <<aggregate, request, target, verdict, answer, calls>>
    BY <1>0 DEF Replace
  <1>2. r.doc # Mandate
    BY <1>0, KindsOfDocs
  <1>3. DocsOf(aggregate) \subseteq FilesOf(aggregate)
    BY DEF FilesOf
  <1>4. Phase(p) = "asked" /\ pc'[p] = "sync"
    BY <1>0, <1>1, PhaseIs DEF IInv, TypeOK
  <1>5. Kept' = Kept \union {WithoutMandate(gs)} /\ Docs' = WithoutMandate(gs)
    <2>1. \A fs : WithoutMandate(fs)' = WithoutMandate(fs)
      BY <1>1 DEF WithoutMandate
    <2>2. Docs' = WithoutMandate(gs)
      BY <1>1 DEF Docs, WithoutMandate
    <2>3. Kept' = {WithoutMandate(fs) : fs \in disk'}
      BY <2>1 DEF Kept
    <2> QED BY <1>1, <2>2, <2>3 DEF Kept
  <1>6. \A q \in Procs \ {p} : pc'[q] = pc[q]
    BY <1>1 DEF IInv, TypeOK
  <1>7. CASE t = r.doc
    <2>1. WithoutMandate(gs) = [Docs EXCEPT ![r.doc] = r.value]
      BY <1>0, <1>3, <1>7 DEF Docs, WithoutMandate
    <2>2. Phase(p)' = "applied"
      BY <1>1, <1>4, <1>7, PhaseIs
    <2>3. Phases' = [Phases EXCEPT ![p] = "applied"]
      BY <1>1, <1>6, <2>2, PhasesMove
    <2>4. Contract!Verdict(Docs, r) = "saved"
      BY <1>0, VerdictsAgree DEF Docs, Agrees
    <2>5. Phases[p] = "asked"
      BY <1>4 DEF Phases
    <2>6. Contract!Apply(p)
      BY <1>1, <1>5, <2>1, <2>3, <2>4, <2>5
      DEF Contract!Apply, Docs, Kept, Phases
    <2> QED BY <2>6
  <1>8. CASE t = Mandate
    <2>1. \A d \in DocsOf(aggregate) : d # Mandate
      BY <1>0, KindsOfDocs
    <2>2. WithoutMandate(gs) = Docs
      BY <1>0, <1>3, <1>8, <2>1 DEF Docs, WithoutMandate
    <2>3. Docs \in Kept
      BY <1>0 DEF Docs, Kept
    <2>4. Phase(p)' = "asked"
      BY <1>1, <1>2, <1>4, <1>8, PhaseIs
    <2>5. Phases' = Phases
      BY <1>1, <1>4, <1>6, <2>4, PhasesStay
    <2>6. Docs' = Docs /\ Kept' = Kept
      BY <1>5, <2>2, <2>3
    <2> QED BY <1>1, <2>5, <2>6 DEF Contract!vars, Docs, Kept, Phases
  <1> QED BY <1>0, <1>7, <1>8

\* Flushing the directory settles the files.
LEMMA SyncDirectoryRefines ==
  ASSUME IInv, NEW p \in Procs, SyncDirectory(p)
  PROVE  UNCHANGED Contract!vars \/ Contract!Settle(p) \/ Contract!WriteBack
  <1>0. pc[p] = "sync" /\ Docs' = Docs
    BY FilesStay DEF SyncDirectory
  <1>1. Kept' = IF Syncs THEN {Docs} ELSE Kept
    BY DEF SyncDirectory, Kept, Docs, WithoutMandate
  <1>2. UNCHANGED <<aggregate, request, answer, calls>>
    BY DEF SyncDirectory
  <1>3. \A q \in Procs \ {p} :
          /\ pc'[q] = pc[q] /\ verdict'[q] = verdict[q]
          /\ target'[q] = target[q] /\ request'[q] = request[q]
    BY DEF SyncDirectory, IInv, TypeOK
  <1>4. CASE target[p] = request[p].doc
    <2>1. Phase(p) = "applied"
      BY <1>0, <1>4, PhaseIs
    <2>2. pc'[p] = "release" /\ verdict'[p] = "saved"
      BY <1>4 DEF SyncDirectory, IInv, TypeOK
    <2>3. Phase(p)' = "saved"
      BY <2>2, PhaseIs
    <2>4. Phases' = [Phases EXCEPT ![p] = "saved"]
      BY <1>3, <2>3, PhasesMove
    <2>5. Phases[p] = "applied"
      BY <2>1 DEF Phases
    <2>6. Contract!Settle(p)
      BY <1>0, <1>1, <1>2, <2>4, <2>5
      DEF Contract!Settle, Docs, Kept, Phases
    <2> QED BY <2>6
  <1>5. CASE target[p] # request[p].doc
    <2>1. Phase(p) = "asked"
      BY <1>0, <1>5, PhaseIs
    <2>2. pc'[p] = "stage"
      BY <1>5 DEF SyncDirectory, IInv, TypeOK
    <2>3. Phase(p)' = "asked"
      BY <2>2, PhaseIs
    <2>4. Phases' = Phases
      BY <1>3, <2>1, <2>3, PhasesStay
    <2>5. CASE Syncs
      <3>1. Contract!WriteBack
        BY <1>0, <1>1, <1>2, <2>4, <2>5
        DEF Contract!WriteBack, Docs, Kept, Phases
      <3> QED BY <3>1
    <2>6. CASE ~Syncs
      BY <1>0, <1>1, <1>2, <2>4, <2>6 DEF Contract!vars, Docs, Kept, Phases
    <2> QED BY <2>5, <2>6
  <1> QED BY <1>4, <1>5

\* A write that fails refuses the call.
LEMMA WriteFailsRefines ==
  ASSUME IInv, NEW p \in Procs, WriteFails(p)
  PROVE  \E refusal \in Contract!Refusals : Contract!Refuse(p, refusal)
  <1>1. /\ UNCHANGED <<aggregate, files, disk, request, answer, calls>>
        /\ \A q \in Procs \ {p} :
             /\ pc'[q] = pc[q] /\ verdict'[q] = verdict[q]
             /\ target'[q] = target[q] /\ request'[q] = request[q]
    BY DEF WriteFails, IInv, TypeOK
  <1>2. Phase(p) = "asked"
    BY PhaseIs DEF WriteFails
  <1>3. pc'[p] \in {"return", "release"} /\ verdict'[p] = "error"
    BY DEF WriteFails, IInv, TypeOK
  <1>4. Phase(p)' = "error"
    BY <1>3, PhaseIs
  <1> QED BY <1>1, <1>2, <1>4, RefuseRefines

\* Whoever leaves the call ends it for its caller.
LEMMA LeaveRefines ==
  ASSUME IInv, NEW p \in Procs, NEW told, Leave(p, told)
  PROVE  Contract!End(p, told)
  <1>1. Docs' = Docs /\ Kept' = Kept
    BY FilesStay DEF Leave
  <1>2. Phase(p)' = "idle"
    BY PhaseIs DEF Leave, IInv, TypeOK
  <1>3. Phases' = [Phases EXCEPT ![p] = "idle"]
    BY <1>2, PhasesMove DEF Leave, IInv, TypeOK
  <1> QED BY <1>1, <1>3 DEF Leave, Contract!End, Docs, Kept, Phases

\* An answer is one of the contract, and so is a death.
LEMMA EndRefines ==
  ASSUME IInv, NEW p \in Procs, Release(p) \/ Return(p) \/ Die(p)
  PROVE  Contract!Answer(p) \/ Contract!Die(p)
  <1>0. /\ verdict[p] \in Endings
        /\ verdict[p] # "none" <=> pc[p] \in {"release", "return"}
    BY DEF IInv, TypeOK
  <1>1. CASE Release(p) \/ Return(p)
    <2>1. Phase(p) = verdict[p]
      BY <1>1, PhaseIs DEF Release, Return
    <2>2. Phases[p] \in Contract!Refusals \union {"saved"} /\ Phases[p] = verdict[p]
      BY <1>0, <1>1, <2>1
      DEF Release, Return, Phases, Contract!Refusals, Endings
    <2>3. Contract!End(p, verdict[p])
      BY <1>1, LeaveRefines DEF Release, Return
    <2> QED BY <2>2, <2>3 DEF Contract!Answer, Phases
  <1>2. CASE Die(p)
    <2>1. Phase(p) # "idle"
      BY <1>0, <1>2, PhaseIs DEF Die, Endings
    <2>2. Contract!End(p, "none")
      BY <1>2, LeaveRefines DEF Die
    <2> QED BY <2>1, <2>2 DEF Contract!Die
  <1> QED BY <1>1, <1>2

\* A power failure is one of the contract.
LEMMA PowerLossRefines == ASSUME PowerLoss PROVE Contract!PowerLoss
  <1>1. Docs' \in Kept /\ Kept' = {Docs'}
    BY DEF PowerLoss, Docs, Kept, WithoutMandate
  <1>2. Phases' = [p \in Procs |-> "idle"]
    BY PhaseIs DEF PowerLoss, Phases
  <1> QED BY <1>1, <1>2
       DEF PowerLoss, Contract!PowerLoss, Docs, Kept, Phases

\* The Markdown repositories (markdown_*.py over atomic_files.py) implement
\* the contract of the in-memory ones: whatever calls run beside each other
\* and wherever they are cut short.
THEOREM FileStoreImplementsRepository == Spec => ImplementsRepository
  <1>1. ASSUME IInv, [Next]_vars PROVE [Contract!Next]_(Contract!vars)
    <2>1. CASE UNCHANGED vars
      <3>1. Docs' = Docs /\ Kept' = Kept
        BY <2>1, FilesStay DEF vars
      <3>2. Phases' = Phases
        BY <2>1, PhaseIs DEF vars, Phases
      <3> QED BY <2>1, <3>1, <3>2 DEF vars, Contract!vars, Docs, Kept, Phases
    <2>2. CASE PowerLoss
      BY <2>2, PowerLossRefines DEF Contract!Next
    <2>3. ASSUME NEW p \in Procs, Ask(p) \/ Step(p) \/ WriteFails(p) \/ Die(p)
          PROVE  [Contract!Next]_(Contract!vars)
      <3>1. \/ UNCHANGED Contract!vars
            \/ Contract!Ask(p) \/ Contract!Apply(p) \/ Contract!Settle(p)
            \/ Contract!Find(p) \/ Contract!Answer(p) \/ Contract!Die(p)
            \/ Contract!WriteBack
            \/ \E refusal \in Contract!Refusals : Contract!Refuse(p, refusal)
        BY <1>1, <2>3, AskRefines, LookRefines, DecideRefines, UnseenRefines,
           ReplaceRefines, SyncDirectoryRefines, WriteFailsRefines, EndRefines
        DEF Step
      <3> QED BY <3>1 DEF Contract!Next
    <2> QED BY <1>1, <2>1, <2>2, <2>3 DEF Next
  <1> QED
    BY <1>1, InitRefines, Invariant, PTL
    DEF Spec, ImplementsRepository, Contract!Spec
=============================================================================

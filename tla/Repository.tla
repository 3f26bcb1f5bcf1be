----------------------------- MODULE Repository -----------------------------
(***************************************************************************)
(* What the repository ports promise: an aggregate of named documents that *)
(* is changed by one call at a time, each call either taking effect as a   *)
(* whole or not at all, under the rules of the in-memory repositories      *)
(* (src/src/fra/adapters/in_memory/repositories.py).  They are the         *)
(* adapters the application's tests run on.  Calls may be cut short, and a *)
(* power failure may take back what no caller was told of.                 *)
(***************************************************************************)
EXTENDS Documents

VARIABLES aggregate, \* the aggregate this behaviour is about
          docs,      \* its documents, or None for those not there
          kept,      \* the states of docs that a power failure may leave
          request,   \* by process: the call under way, or None
          phase,     \* by process: how far it is
          answer,    \* by process: what the last call gave
          calls      \* how many calls were made

vars == <<aggregate, docs, kept, request, phase, answer, calls>>

Refusals == {"conflict", "missing", "corrupt", "error"}

-----------------------------------------------------------------------------
\* The rules, each a verdict on a call given the documents as they are.

Once(ds, r) == IF Present(ds, r.doc) THEN "conflict" ELSE "saved"

InRun(ds, verdict) == IF Present(ds, Doc("run")) THEN verdict ELSE "missing"

CreateRun(ds, r) == Once(ds, r)

SaveRun(ds, r) ==
  InRun(ds, IF r.value.mark < ds[r.doc].mark THEN "conflict" ELSE "saved")

SavePlan(ds, r) ==
  InRun(ds, IF ds[r.doc] \in {None, r.value} THEN "saved" ELSE "conflict")

AddArtifact(ds, r) == InRun(ds, Once(ds, r))

AddClaim(ds, r) == InRun(ds, Once(ds, r))

SaveClaim(ds, r) ==
  InRun(ds, IF Present(ds, r.doc) THEN "saved" ELSE "missing")

SaveVerification(ds, r) == InRun(ds, "saved")

SaveReport(ds, r) == InRun(ds, Once(ds, r))

SaveLimitation(ds, r) == InRun(ds, "saved")

Contiguous(ds, r, verdict) ==
  IF Present(ds, r.doc) \/ (r.doc.n > 1 /\ ~Present(ds, Previous(r.doc)))
  THEN "conflict" ELSE verdict

\* A signal also names the version it supersedes, the first one none (0).
SaveSignal(ds, r) ==
  Contiguous(ds, r, IF r.value.mark = r.doc.n - 1 THEN "saved" ELSE "conflict")

SaveForecast(ds, r) == Contiguous(ds, r, "saved")

SaveGraph(ds, r) == Contiguous(ds, r, "saved")

SavePortfolio(ds, r) == Contiguous(ds, r, "saved")

SaveProfile(ds, r) == Once(ds, r)

SaveOutcome(ds, r) == Once(ds, r)

SaveScore(ds, r) ==
  IF Present(ds, Doc("outcome")) THEN Once(ds, r) ELSE "missing"

SaveStatus(ds, r) ==
  IF Present(ds, r.doc) /\ r.value.mark < ds[r.doc].mark
  THEN "conflict" ELSE "saved"

SaveCache(ds, r) == "saved"

Verdict(ds, r) ==
  CASE r.doc.kind = "run" -> IF r.add THEN CreateRun(ds, r) ELSE SaveRun(ds, r)
    [] r.doc.kind = "plan" -> SavePlan(ds, r)
    [] r.doc.kind = "artifact" -> AddArtifact(ds, r)
    [] r.doc.kind = "claim" ->
         IF r.add THEN AddClaim(ds, r) ELSE SaveClaim(ds, r)
    [] r.doc.kind = "verification" -> SaveVerification(ds, r)
    [] r.doc.kind = "report" -> SaveReport(ds, r)
    [] r.doc.kind = "limitation" -> SaveLimitation(ds, r)
    [] r.doc.kind = "signal" -> SaveSignal(ds, r)
    [] r.doc.kind = "forecast" -> SaveForecast(ds, r)
    [] r.doc.kind = "graph" -> SaveGraph(ds, r)
    [] r.doc.kind = "portfolio" -> SavePortfolio(ds, r)
    [] r.doc.kind = "profile" -> SaveProfile(ds, r)
    [] r.doc.kind = "outcome" -> SaveOutcome(ds, r)
    [] r.doc.kind = "score" -> SaveScore(ds, r)
    [] r.doc.kind = "status" -> SaveStatus(ds, r)
    [] r.doc.kind = "cache" -> SaveCache(ds, r)

-----------------------------------------------------------------------------
Init ==
  /\ aggregate \in Aggregates
  /\ docs \in {ds \in [DocsOf(aggregate) -> Old \union {None}] :
               /\ Closed(ds)
               /\ Cardinality({d \in DOMAIN ds : Present(ds, d)}) <= MaxOld}
  /\ kept = {docs}
  /\ request = [p \in Procs |-> None]
  /\ phase = [p \in Procs |-> "idle"]
  /\ answer = [p \in Procs |-> "none"]
  /\ calls = 0

Ask(p) ==
  /\ phase[p] = "idle" /\ calls < MaxCalls
  /\ \E r \in CallsOn(aggregate) : request' = [request EXCEPT ![p] = r]
  /\ phase' = [phase EXCEPT ![p] = "asked"]
  /\ answer' = [answer EXCEPT ![p] = "none"]
  /\ calls' = calls + 1
  /\ UNCHANGED <<aggregate, docs, kept>>

\* The whole effect of a call that the rules accept.
Apply(p) ==
  /\ phase[p] = "asked" /\ Verdict(docs, request[p]) = "saved"
  /\ docs' = [docs EXCEPT ![request[p].doc] = request[p].value]
  /\ kept' = kept \union {docs'}
  /\ phase' = [phase EXCEPT ![p] = "applied"]
  /\ UNCHANGED <<aggregate, request, answer, calls>>

\* The disk catches up with what was written, whenever the system likes.
WriteBack ==
  /\ kept' = {docs}
  /\ UNCHANGED <<aggregate, docs, request, phase, answer, calls>>

\* Where the platform allows it, no power failure takes it back from here.
Settle(p) ==
  /\ phase[p] = "applied"
  /\ kept' = IF Syncs THEN {docs} ELSE kept
  /\ phase' = [phase EXCEPT ![p] = "saved"]
  /\ UNCHANGED <<aggregate, docs, request, answer, calls>>

\* A plan that is there already is saved by not touching it.
Find(p) ==
  /\ phase[p] = "asked" /\ request[p].doc.kind = "plan"
  /\ docs[request[p].doc] = request[p].value
  /\ phase' = [phase EXCEPT ![p] = "saved"]
  /\ UNCHANGED <<aggregate, docs, kept, request, answer, calls>>

\* A call can also be in the way of a document of another version of the
\* program, or meet an error of the file system; neither has an effect.
Refuse(p, refusal) ==
  /\ phase[p] = "asked"
  /\ \/ refusal = Verdict(docs, request[p]) /\ refusal # "saved"
     \/ refusal = "corrupt"
        /\ \E d \in DOMAIN docs : Present(docs, d) /\ ~Readable(docs, d)
     \/ refusal = "error"
  /\ phase' = [phase EXCEPT ![p] = refusal]
  /\ UNCHANGED <<aggregate, docs, kept, request, answer, calls>>

End(p, told) ==
  /\ answer' = [answer EXCEPT ![p] = told]
  /\ request' = [request EXCEPT ![p] = None]
  /\ phase' = [phase EXCEPT ![p] = "idle"]
  /\ UNCHANGED <<aggregate, docs, kept, calls>>

Answer(p) == phase[p] \in Refusals \union {"saved"} /\ End(p, phase[p])

\* The process is killed: its call has had its effect, or never will.
Die(p) == phase[p] # "idle" /\ End(p, "none")

PowerLoss ==
  /\ docs' \in kept /\ kept' = {docs'}
  /\ request' = [p \in Procs |-> None]
  /\ phase' = [p \in Procs |-> "idle"]
  /\ answer' = [p \in Procs |-> "none"]
  /\ UNCHANGED <<aggregate, calls>>

Next ==
  \/ \E p \in Procs :
        \/ Ask(p) \/ Apply(p) \/ Settle(p) \/ Find(p)
        \/ \E refusal \in Refusals : Refuse(p, refusal)
        \/ Answer(p) \/ Die(p)
  \/ WriteBack \/ PowerLoss

Spec == Init /\ [][Next]_vars
=============================================================================

----------------------------- MODULE Documents ------------------------------
(***************************************************************************)
(* The documents of a workspace and the calls that save them, as far as    *)
(* the rules of the repositories tell them apart                           *)
(* (src/src/fra/ports/repositories.py).                                    *)
(*                                                                         *)
(* A behaviour is about one aggregate: aggregates share no document and no *)
(* lock.  The mark of a document stands for the part of its content that a *)
(* rule looks at: the time stamp of a run or a status, the version that a  *)
(* signal supersedes, the text of a plan.                                  *)
(***************************************************************************)
EXTENDS Naturals, FiniteSets

CONSTANTS Procs,      \* the processes that call the repository
          MaxVersion, \* the number of versions tried of a versioned artifact
          Marks,      \* the marks written
          Old,        \* the contents of documents that are there at first
          MaxOld,     \* how many of them there are (a bound)
          MaxCalls,   \* the number of calls in a behaviour (a bound)
          Syncs,      \* whether the platform can flush a directory
          None        \* no document, no call, no process

ASSUME DocumentsAssumption ==
  /\ MaxVersion \in Nat /\ Marks \subseteq Nat /\ MaxCalls \in Nat
  /\ Old \subseteq [schema : {0, 1, 2}, mark : Marks] /\ MaxOld \in Nat
  /\ Syncs \in BOOLEAN
  /\ None \notin Procs \union [schema : {0, 1, 2, 3}, mark : Marks \union {0}]

Versioned == {"signal", "forecast", "graph", "portfolio"}

\* The documents of each kind of aggregate; n numbers the versions.
DocsOf(a) ==
  CASE a = "run" -> [kind : {"run", "plan", "artifact", "claim", "verification",
                             "report", "limitation"}, n : {0}]
    [] a = "outcome" -> [kind : {"outcome", "score"}, n : {0}]
    [] a \in Versioned -> [kind : {a}, n : 1 .. MaxVersion]
    [] OTHER -> [kind : {a}, n : {0}]

Aggregates == {"run", "outcome", "status", "cache", "profile"} \union Versioned

Doc(kind) == [kind |-> kind, n |-> 0]
Previous(d) == [d EXCEPT !.n = @ - 1]

\* Schema 1 is what this version writes and reads; older and newer documents
\* may be there from other versions of the program.
Values == [schema : {1}, mark : Marks]

Present(ds, d) == ds[d] # None
Readable(ds, d) == Present(ds, d) /\ ds[d].schema = 1

\* The calls there are, by the document they write; a run and a claim have
\* one call that adds them and one that replaces them.
CallsOn(a) ==
  {r \in [add : BOOLEAN, doc : DocsOf(a), value : Values] :
     r.add => r.doc.kind \in {"run", "claim"}}

\* What a document cannot be without.
Needs(d) ==
  CASE d.kind = "score" -> {Doc("outcome")}
    [] d.kind \in {"plan", "artifact", "claim", "verification", "report",
                   "limitation"} -> {Doc("run")}
    [] d.n > 1 -> {Previous(d)}
    [] OTHER -> {}

\* No version without the one before it, no score without its outcome and
\* nothing of a run without run.md.
Closed(ds) ==
  \A d \in DOMAIN ds : Present(ds, d) => \A e \in Needs(d) : Present(ds, e)
=============================================================================

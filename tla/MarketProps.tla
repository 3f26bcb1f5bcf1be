----------------------------- MODULE MarketProps -----------------------------
(***************************************************************************)
(* What is expected of routed market research and of the checks beside it. *)
(***************************************************************************)
EXTENDS MarketResearch

ValuesWith(role) == {i \in DOMAIN job.values : job.values[i].role = role}

Group(i) == registry[job.values[i].source].group

\* Sources that corroborate each other do not copy from one another: no two
\* of the values of an asset that came as primary or cross-check are from one
\* independence group.
CrossChecksIndependent ==
  \A i, j \in ValuesWith("primary") \union ValuesWith("cross_check") :
    i # j => Group(i) # Group(j)

Spent == job.phase = "fetching" /\ Candidates = <<>>

\* A fallback answers only for a primary that did not, and alone; an asset
\* goes without primary and fallback only when every fallback failed, and a
\* run goes without evidence only when every selected source failed.
FallbackSpent ==
  /\ ValuesWith("fallback") # {} =>
       ValuesWith("primary") = {} /\ Cardinality(ValuesWith("fallback")) = 1
  /\ Spent /\ ValuesWith("primary") \union ValuesWith("fallback") = {} =>
       {p \in Selected(job.decision) : job.decision[p] = "fallback"} \subseteq job.failures
  /\ Spent /\ ~AnyValue => Selected(job.decision) = job.failures

\* The crypto workflow never trips over its own clock: a collection is not
\* refused for evidence that came while it ran, and what it rests on was
\* observed at most two days before a cutoff that no later asset precedes,
\* and was there at the cutoff, which is over when a signal is issued.
CryptoCutoffSound ==
  job.workflow = "crypto" =>
    /\ job.failure # "look_ahead"
    /\ \A k \in DOMAIN job.collections :
         LET basis == job.collections[k].basis
         IN \A i \in DOMAIN basis :
              /\ basis[i].available <= basis[i].cutoff
              /\ basis[i].cutoff - basis[i].observed <= StaleAfter
              /\ \A j \in 1..i - 1 : basis[j].cutoff <= basis[i].available
              /\ job.signal # None => basis[i].cutoff <= job.signal.issued

\* The proposed weights add up to what is not cash, none is above the cap, a
\* candidate nearer to the target has no less than one further away, and the
\* loss under stress is tolerated.
CapsKept ==
  job.workflow = "allocation" =>
    \A k \in DOMAIN job.collections :
      LET proposal == job.collections[k].proposal
          basis == job.collections[k].basis
          near == [i \in DOMAIN basis |-> Distance(basis[i].risk, job.profile.tolerance)]
      IN /\ Total(proposal.weights, DOMAIN basis) = Available(job.profile) * proposal.unit
         /\ \A i \in DOMAIN basis : proposal.weights[i] \in 0..job.profile.cap * proposal.unit
         /\ \A i, j \in DOMAIN basis :
              near[i] <= near[j] => proposal.weights[i] >= proposal.weights[j]
         /\ Total([i \in DOMAIN basis |-> proposal.weights[i] * StressLoss(basis[i].risk)], DOMAIN basis)
              <= job.profile.maximumLoss * 100 * proposal.unit

\* After `fra source check` returned, each source it covered has a status no
\* older than the check, whatever other checks saved in between.
ChecksNewest ==
  \A c \in Checkers : checks[c].phase = "returned" =>
    \A p \in checks[c].covered : statuses[p] # None /\ statuses[p].at >= checks[c].began
=============================================================================

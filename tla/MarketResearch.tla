--------------------------- MODULE MarketResearch ----------------------------
(***************************************************************************)
(* The two workflows over market prices: CryptoMarketTimingWorkflow        *)
(* (src/src/fra/application/crypto_market_timing.py) and                   *)
(* AllocationResearchWorkflow (allocation_research.py), with the router    *)
(* that asks the sources (SourceRouter.execute) and beside checks of the   *)
(* sources.  A run collects one price history per asset, from every source *)
(* that was selected, and rests on the first that came; later it is        *)
(* finalized from its collect checkpoint.                                  *)
(*                                                                         *)
(* What comes between collecting and finalizing belongs to Orchestrator;   *)
(* here it is time that passes, and a verification that may send the run   *)
(* back to collecting.                                                     *)
(***************************************************************************)
EXTENDS SourceChecks, Allocation

CONSTANTS Series,         \* price histories that a source may answer
          Requests,       \* workflow, inputs given and, for an allocation, the profile
          StaleAfter      \* two days

VARIABLE job \* the run

vars == <<checkVars, job>>

Workflows == {"crypto", "allocation"}

ASSUME SeriesAssumption == Series \subseteq [lag : Nat, count : Nat, trend : Int, risk : Nat]

ASSUME RequestsAssumption == \A request \in Requests : request.workflow \in Workflows

ASSUME AgeAssumption == StaleAfter \in Nat

ASSUME NoProblemAssumption == None \notin {"stale", "look_ahead", "invalid"}

AssetCount == [crypto |-> 2, allocation |-> 3]

\* The inputs without which a request is sent back to the user.
CryptoInputs == {"horizon", "risk_tolerance"}
AllocationInputs ==
  {"horizon", "risk_tolerance", "maximum_loss", "liquidity_need", "tax_jurisdiction",
   "investment_objective", "risk_capacity"}

MissingInputs(workflow, given) ==
  (IF workflow = "crypto" THEN CryptoInputs ELSE AllocationInputs) \ given

\* A profile that is complete keeps what InvestorProfile asks of its numbers.
ASSUME ProfileAssumption ==
  \A request \in Requests :
    request.workflow = "allocation" /\ MissingInputs("allocation", request.given) = {} =>
      /\ request.tolerance \in DOMAIN Target /\ request.cap \in 1..100
      /\ request.cash \in 0..100 /\ request.maximumLoss \in 0..100

\* The EvidenceRequirement of each workflow.  A year of history is asked for,
\* and every source of these has one.
CommonRequirement ==
  [kind |-> "market_data", profile |-> "local_personal_research", raw |-> FALSE,
   pointInTime |-> FALSE, resolution |-> {"daily"}, start |-> {0}]

CryptoRequirement ==
  [authority |-> "aggregator", scope |-> {"CRYPTO"}, age |-> {1},
   fields |-> {"price", "market_cap", "volume"}] @@ CommonRequirement

AllocationRequirement ==
  [authority |-> "secondary", scope |-> {}, age |-> {}, fields |-> {"adjusted_close"}]
    @@ CommonRequirement

Requirement == IF job.workflow = "crypto" THEN CryptoRequirement ELSE AllocationRequirement

NoRun == [phase |-> "new", workflow |-> None, profile |-> None, collections |-> <<>>,
          failure |-> None, signal |-> None,
          decision |-> None, regular |-> <<>>, fallbacks |-> <<>>, values |-> <<>>,
          failures |-> {}, basis |-> <<>>, requested |-> 0]

Init == CheckInit /\ job = NoRun

\* The run without what a collection leaves that does not come to its checkpoint.
Cleared == [job EXCEPT !.decision = None, !.regular = <<>>, !.fallbacks = <<>>,
                       !.values = <<>>, !.failures = {}, !.basis = <<>>, !.requested = 0]

Become(next) == job' = next /\ UNCHANGED checkVars

Commanded(next) ==
  job' = next /\ Command /\ UNCHANGED <<clock, registry, statuses, checks>>

Started(request) ==
  /\ job.phase = "new"
  /\ Commanded([job EXCEPT !.phase = IF MissingInputs(request.workflow, request.given) = {}
                                     THEN "ready" ELSE "asked",
                           !.workflow = request.workflow, !.profile = request])

\* fra research crypto, fra research allocation.
StartCrypto(request) == request.workflow = "crypto" /\ Started(request)
StartAllocation(request) == request.workflow = "allocation" /\ Started(request)

\* collect begins: the end of the requested window is now.
Collect ==
  /\ job.phase = "ready"
  /\ Become([job EXCEPT !.phase = "routing", !.requested = clock, !.basis = <<>>])

-----------------------------------------------------------------------------
\* SourceRouter.execute, once per asset.

\* The decision rests on the statuses that are saved at this moment.
RouteAsset ==
  LET decision == Route(registry, statuses, Requirement)
  IN /\ job.phase = "routing"
     /\ Become([job EXCEPT !.phase = "fetching", !.decision = decision,
                           !.regular = Regular(decision), !.fallbacks = Fallbacks(decision),
                           !.values = <<>>, !.failures = {}])

AnyValue == job.values # <<>>

PrimarySucceeded == \E i \in DOMAIN job.values : job.values[i].role = "primary"

\* The fallbacks are left out as soon as there is any value.
CandidatesUnlessAny ==
  IF job.regular # <<>> THEN job.regular ELSE IF AnyValue THEN <<>> ELSE job.fallbacks

\* The sources still to be asked, the next one first.
Candidates ==
  IF job.regular # <<>> THEN job.regular
  ELSE IF PrimarySucceeded THEN <<>> ELSE job.fallbacks

NextCandidate == Head(Candidates)
Asks == job.phase = "fetching" /\ Candidates # <<>>

\* The next candidate was asked: a value of a fallback ends the fallbacks.
Advanced(valued) ==
  IF job.regular # <<>> THEN [job EXCEPT !.regular = Tail(@)]
  ELSE [job EXCEPT !.fallbacks = IF valued THEN <<>> ELSE Tail(@)]

CandidateFails == job' = [Advanced(FALSE) EXCEPT !.failures = @ \union {NextCandidate}]

SourceUnbuilt ==
  /\ Asks /\ ~registry[NextCandidate].built
  /\ CandidateFails /\ UNCHANGED checkVars

\* An expected error of the adapter, or an asset it resolves to none or many.
SourceFails ==
  /\ Asks /\ registry[NextCandidate].built
  /\ CandidateFails /\ UNCHANGED checkVars

\* The adapter stamps the history with the time at which it has it.
Envelope(series) ==
  [source |-> NextCandidate, role |-> job.decision[NextCandidate],
   observed |-> clock - series.lag, available |-> clock, count |-> series.count,
   trend |-> series.trend, risk |-> series.risk]

SourceAnswers(series) ==
  /\ Asks /\ registry[NextCandidate].built
  /\ Become([Advanced(TRUE) EXCEPT !.values = Append(@, Envelope(series))])

\* What was not saved is lost; the run stays as it was saved.
Stop == Become([Cleared EXCEPT !.phase = "interrupted"])

\* Any other error of the adapter ends the command.
SourceEscapes ==
  /\ Asks /\ registry[NextCandidate].built /\ Stop

\* The run is saved as failed.
Fail(failure) == Become([Cleared EXCEPT !.phase = "failed", !.failure = failure])

NoValue ==
  /\ job.phase = "fetching" /\ Candidates = <<>> /\ ~AnyValue
  /\ Fail("no_evidence")

-----------------------------------------------------------------------------
\* The values of an asset become evidence, and the first of them its basis.

\* Both workflows take the end of the requested window.
CutoffRequested == job.requested

\* The crypto workflow reads the clock again, the allocation workflow does not.
Cutoff == IF job.workflow = "crypto" THEN clock ELSE job.requested

IsStale(v) == job.workflow = "crypto" /\ Cutoff - v.observed > StaleAfter

\* The metrics want two prices.
TooShort(v) == v.count < 2

\* What is wrong with the i-th value, None when it is used.
Problem(i) ==
  LET v == job.values[i]
  IN CASE IsStale(v) -> "stale"
       [] ~IsStale(v) /\ v.available > Cutoff -> "look_ahead"
       [] ~IsStale(v) /\ v.available <= Cutoff /\ i = 1 /\ TooShort(v) -> "invalid"
       [] OTHER -> None

\* The allocation workflow computes the metrics after all evidence was made.
FirstProblem ==
  LET wrong == {i \in DOMAIN job.values : Problem(i) # None}
      first == CHOOSE i \in wrong : \A j \in wrong : i <= j
  IN CASE wrong = {} -> None
       [] job.workflow = "allocation" /\ \E i \in wrong : Problem(i) = "look_ahead" -> "look_ahead"
       [] OTHER -> Problem(first)

Fetched == job.phase = "fetching" /\ Candidates = <<>> /\ AnyValue

\* What later steps read of the first value.
CryptoBasis(v) ==
  [observed |-> v.observed, available |-> v.available, cutoff |-> Cutoff, count |-> v.count,
   trend |-> v.trend]

AllocationBasis(v) == [risk |-> Smaller(100, v.risk)]

Kept(v) == IF job.workflow = "crypto" THEN CryptoBasis(v) ELSE AllocationBasis(v)

Judge ==
  /\ Fetched /\ FirstProblem = None
  /\ LET basis == Append(job.basis, Kept(job.values[1]))
     IN Become([job EXCEPT
                  !.basis = basis, !.decision = None, !.values = <<>>, !.failures = {},
                  !.phase = CASE Len(basis) < AssetCount[job.workflow] -> "routing"
                              [] Len(basis) = AssetCount[job.workflow] /\ job.workflow = "crypto" -> "collecting"
                              [] OTHER -> "proposing"])

Reject == Fetched /\ FirstProblem # None /\ Fail(FirstProblem)

InputsComplete == MissingInputs(job.workflow, job.profile.given) = {}

\* A run that was resumed without its inputs ends with a KeyError, where they
\* are looked up: that is no failure that is saved.
InputLacking == job.phase \in {"collecting", "proposing"} /\ ~InputsComplete /\ Stop

\* The collect checkpoint is saved, with the evidence.
Checkpoint(proposal) ==
  Become([Cleared EXCEPT
            !.phase = "collected",
            !.collections = Append(@, [basis |-> job.basis, proposal |-> proposal])])

CryptoCollected == job.phase = "collecting" /\ InputsComplete /\ Checkpoint(None)

Risks == [i \in DOMAIN job.basis |-> job.basis[i].risk]

Proposed ==
  LET proposal == Propose(job.profile, Risks)
  IN /\ job.phase = "proposing" /\ InputsComplete /\ Feasible(job.profile, Risks)
     /\ ~StressExceeds(job.profile, Risks, proposal)
     /\ Checkpoint(proposal)

ProposalRefused ==
  /\ job.phase = "proposing" /\ InputsComplete
  /\ \/ ~Feasible(job.profile, Risks)
     \/ StressExceeds(job.profile, Risks, Propose(job.profile, Risks))
  /\ Fail("invalid")

\* Verification sends the run back to collecting.  This is within a command,
\* and bounded as if it were one.
CollectMore == job.phase = "collected" /\ Commanded([job EXCEPT !.phase = "ready"])

-----------------------------------------------------------------------------
\* finalize reads the first collect checkpoint of the run.
Finalized == job.collections[1]

\* The mean return of the two assets, doubled.
Trend(basis) == basis[1].trend + basis[2].trend

Stance(basis) ==
  CASE Trend(basis) > 20 -> "bullish" [] Trend(basis) < -20 -> "bearish" [] OTHER -> "mixed"

Strength(basis) ==
  LET size == IF Trend(basis) < 0 THEN -Trend(basis) ELSE Trend(basis)
  IN CASE size >= 40 -> "strong" [] size >= 10 /\ size < 40 -> "moderate" [] OTHER -> "weak"

Confidence(basis) ==
  IF \A i \in DOMAIN basis : basis[i].count >= 30 THEN "medium" ELSE "low"

FinalizeCrypto ==
  LET basis == Finalized.basis
  IN /\ job.phase = "collected" /\ job.workflow = "crypto"
     /\ Become([job EXCEPT
                  !.phase = "finalized",
                  !.signal = [issued |-> clock, stance |-> Stance(basis),
                              strength |-> Strength(basis), confidence |-> Confidence(basis)]])

FinalizeAllocation ==
  /\ job.phase = "collected" /\ job.workflow = "allocation"
  /\ Become([job EXCEPT !.phase = "finalized",
                        !.signal = [issued |-> clock, stance |-> "neutral",
                                    strength |-> "moderate", confidence |-> "medium"]])

\* Weights that were rounded to 34 digits are added with 28.  When three were
\* rounded the sum can miss one in the last place, and Portfolio refuses it.
WeightsRefused ==
  /\ job.phase = "collected" /\ job.workflow = "allocation"
  /\ Cardinality(Finalized.proposal.shared) > 2
  /\ Become([job EXCEPT !.phase = "refused", !.failure = "invalid"])

\* The process stops, or fails, between two steps of collecting.
Interrupt ==
  /\ job.phase \in {"ready", "routing", "fetching", "collecting", "proposing"}
  /\ Stop

\* fra research resume: a run that was collecting collects anew, one whose
\* finalization failed is finalized anew.  One that was sent back for its inputs
\* collects too: they are not looked for again.
Resume ==
  \/ /\ job.phase \in {"interrupted", "failed", "asked"}
     /\ Commanded([job EXCEPT !.phase = "ready", !.failure = None])
  \/ job.phase = "refused" /\ Commanded([job EXCEPT !.phase = "collected", !.failure = None])

Run ==
  \/ \E request \in Requests : StartCrypto(request) \/ StartAllocation(request)
  \/ Collect \/ RouteAsset
  \/ SourceUnbuilt \/ SourceFails \/ \E series \in Series : SourceAnswers(series)
  \/ SourceEscapes \/ NoValue \/ Judge \/ Reject
  \/ CryptoCollected \/ Proposed \/ ProposalRefused \/ InputLacking \/ CollectMore
  \/ FinalizeCrypto \/ FinalizeAllocation \/ WeightsRefused \/ Interrupt \/ Resume

Next ==
  \/ Run
  \/ (Tick \/ \E c \in Checkers : Check(c)) /\ UNCHANGED job

Spec == Init /\ [][Next]_vars
=============================================================================

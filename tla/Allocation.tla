----------------------------- MODULE Allocation ------------------------------
(***************************************************************************)
(* propose_allocation and _capped_weights                                  *)
(* (src/src/fra/domain/portfolio.py): weights for the candidates of an     *)
(* allocation, in proportion to how near their risk is to the target, none *)
(* above a cap.  Risks, weights and losses are whole percents; a weight is *)
(* kept exactly, as a multiple of 1/unit percent, where the code rounds a  *)
(* quotient to 34 digits.                                                  *)
(***************************************************************************)
EXTENDS Integers, FiniteSets, Functions

Target == [low |-> 25, medium |-> 50, high |-> 75]

Smaller(a, b) == IF a < b THEN a ELSE b

\* AllocationCandidate: twice the risk is lost under stress, at most 80%.
StressLoss(risk) == Smaller(80, 2 * risk)

\* The score of a candidate is one over this.
Distance(risk, tolerance) ==
  (IF risk > Target[tolerance] THEN risk - Target[tolerance] ELSE Target[tolerance] - risk) + 10

Product(f, S) == FoldFunctionOnSet(LAMBDA a, b : a * b, 1, f, S)
Total(f, S) == FoldFunctionOnSet(LAMBDA a, b : a + b, 0, f, S)

\* The scores, all multiplied by the product of the distances.
Scores(risks, tolerance) ==
  LET distances == [i \in DOMAIN risks |-> Distance(risks[i], tolerance)]
  IN [i \in DOMAIN risks |-> Product(distances, DOMAIN risks \ {i})]

\* What is left when the cap of those that have it is not taken off.
RemainingUnreduced(scores, total, cap, active) == total

\* What is left to share out once all but the active candidates have the cap.
Remaining(scores, total, cap, active) ==
  total - cap * Cardinality(DOMAIN scores \ active)

OverCap(scores, total, cap, active) ==
  {i \in active : Remaining(scores, total, cap, active) * scores[i] > cap * Total(scores, active)}

\* The candidates that are below the cap in the end.
Uncapped(scores, total, cap) ==
  LET settled[active \in SUBSET DOMAIN scores] ==
        LET over == OverCap(scores, total, cap, active)
        IN IF over = {} THEN active ELSE settled[active \ over]
  IN settled[DOMAIN scores]

\* The weights; those of the shared candidates are quotients.
CappedWeights(scores, total, cap) ==
  LET active == Uncapped(scores, total, cap)
      unit == IF active = {} THEN 1 ELSE Total(scores, active)
  IN [unit |-> unit, shared |-> active,
      weights |-> [i \in DOMAIN scores |->
                     IF i \in active THEN Remaining(scores, total, cap, active) * scores[i]
                     ELSE cap * unit]]

Available(profile) == 100 - profile.cash

Feasible(profile, risks) == Available(profile) <= profile.cap * Cardinality(DOMAIN risks)

Propose(profile, risks) ==
  CappedWeights(Scores(risks, profile.tolerance), Available(profile), profile.cap)

\* The loss of the whole portfolio under stress is more than is tolerated.
StressExceeds(profile, risks, proposal) ==
  Total([i \in DOMAIN risks |-> proposal.weights[i] * StressLoss(risks[i])], DOMAIN risks)
    > profile.maximumLoss * 100 * proposal.unit
=============================================================================

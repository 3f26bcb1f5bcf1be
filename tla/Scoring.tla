------------------------------ MODULE Scoring ------------------------------
(***************************************************************************)
(* The score of a forecast: the Brier score of a probability, in units of  *)
(* 1/Scale, under the value a forecast was resolved to.                    *)
(***************************************************************************)
EXTENDS Integers

CONSTANTS
    Scale,          \* probabilities are multiples of 1/Scale
    None            \* an ambiguous outcome has no score

ASSUME ScaleAssumption == Scale \in Nat /\ None \notin Nat

Values == {"true", "false", "ambiguous"}

\* Mutant: the difference is not squared.
BrierUnsquared(probability, value) ==
    CASE value = "true"      -> probability - Scale
      [] value = "false"     -> probability
      [] value = "ambiguous" -> None

\* ScoreForecast.score, in units of 1/Scale^2.
Brier(probability, value) ==
    CASE value = "true"      -> (Scale - probability) * (Scale - probability)
      [] value = "false"     -> probability * probability
      [] value = "ambiguous" -> None
=============================================================================

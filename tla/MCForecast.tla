----------------------------- MODULE MCForecast -----------------------------
(***************************************************************************)
(* Small instances of ForecastLedger for TLC.                              *)
(***************************************************************************)
EXTENDS ForecastProps, TLC

VintageRequest == <<"vintage">>
MixedRequests == <<"live", "vintage", "filing">>

Symmetry == Permutations(Procs)
=============================================================================

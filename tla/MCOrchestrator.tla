--------------------------- MODULE MCOrchestrator ---------------------------
(***************************************************************************)
(* Small instances of Orchestrator for TLC.  Everything a collection or an *)
(* analysis brings is drawn from these few values; each distinguishes one  *)
(* branch of the deterministic verification.                               *)
(***************************************************************************)
EXTENDS OrchestratorRefinement

evidence    == [kind |-> "evidence", discovery |-> FALSE, late |-> FALSE]
discovered  == [kind |-> "evidence", discovery |-> TRUE, late |-> FALSE]
lateItem    == [kind |-> "evidence", discovery |-> FALSE, late |-> TRUE]
calculation == [kind |-> "calculation", discovery |-> FALSE, late |-> FALSE]

Claim(materiality, cites) ==
    [kind |-> "claim", materiality |-> materiality, cites |-> cites]
scenario == [kind |-> "scenario", materiality |-> "low", cites |-> {1}]

\* Every branch of _verify_claim: sound, discovery-only and late evidence, a
\* calculation, a citation of nothing there, a low claim without citation, a
\* material one without; and an analysis that is rejected after its first claim was written.
MCCollections == {<<evidence>>, <<discovered, lateItem, calculation>>}
MCAnalyses ==
    {<<Claim("low", {}), Claim("high", {1})>>, <<Claim("medium", {2}), scenario>>,
     <<Claim("medium", {3}), Claim("high", {})>>}

\* One sound artifact; one supported claim, or one citing nothing.
PlainCollections == {<<evidence>>}
PlainAnalyses == {<<Claim("high", {1}), scenario>>, <<Claim("medium", {})>>}

\* The same without a choice, for two processes.
OneCollection == {<<evidence>>}
OneAnalysis == {<<Claim("high", {1})>>}

CryptoOutputs == <<"signal">>
CrisisOutputs == <<"signal", "forecast", "graph">>
AllocationOutputs == <<"signal", "profile", "portfolio">>
=============================================================================

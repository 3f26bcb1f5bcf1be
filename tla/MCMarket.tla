------------------------------ MODULE MCMarket -------------------------------
(* Values of the constants of MarketResearch for TLC. *)
EXTENDS MarketProps, TLC

\* A source for every market, of which an adapter is there.
Source(id, roles) ==
  [group |-> id, scopes |-> {"GLOBAL"}, resolutions |-> {}, age |-> {}, fields |-> {}]
    @@ Manifest(roles)

AllRoles == {"primary", "cross_check", "fallback"}

\* Two sources that copy one another beside an official one; a source for
\* discovery that comes first, and fallbacks of which one is not built; and
\* the sources that the program brings along for the two workflows.
Corroborating ==
  <<Source("a", AllRoles), Source("a", AllRoles), [Source("b", AllRoles) EXCEPT !.authority = "official"]>>
Discovering ==
  <<Source("a", {"discovery"}), [Source("b", {"fallback"}) EXCEPT !.built = FALSE],
    Source("c", {"primary", "fallback"})>>
BuiltIn ==
  <<CoinGecko({"primary", "cross_check"}), YFinance({"fallback"}),
    [Source("plugin", {"cross_check", "fallback"}) EXCEPT !.authority = "secondary"]>>
SomeRegistries == {Corroborating, Discovering, BuiltIn}

SomeSeries ==
  {[lag |-> 0, count |-> 30, trend |-> 20, risk |-> 25],
   [lag |-> 2, count |-> 29, trend |-> -20, risk |-> 70],
   [lag |-> 0, count |-> 1, trend |-> 0, risk |-> 0]}

Crypto == [workflow |-> "crypto", given |-> CryptoInputs]
Cautious ==
  [workflow |-> "allocation", given |-> AllocationInputs, tolerance |-> "high",
   cap |-> 33, cash |-> 10, maximumLoss |-> 70]
SomeRequests ==
  {Crypto, [Crypto EXCEPT !.given = {"horizon"}], Cautious}

Three == 1..3
OneOrAll == {{2}, Three}
Alike == Permutations(Checkers)
=============================================================================

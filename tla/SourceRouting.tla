---------------------------- MODULE SourceRouting ----------------------------
(***************************************************************************)
(* SourceRegistry and SourceRouter.route                                   *)
(* (src/src/fra/application/source_platform.py): which of the registered   *)
(* sources may answer a requirement, in which role, and in which order     *)
(* they are asked.  The statuses that `fra source check` saved take part.  *)
(*                                                                         *)
(* An optional value is a set of at most one.                              *)
(***************************************************************************)
EXTENDS Naturals, FiniteSets, Sequences, TLC

CONSTANTS Providers,  \* the provider IDs, as numbers in the order of the IDs
          None        \* no role, no status

ASSUME ProvidersAssumption == Providers \subseteq Nat /\ IsFiniteSet(Providers)

SourceRoles == {"primary", "fallback", "cross_check", "discovery"}

ASSUME NoRoleAssumption == None \notin SourceRoles

AuthorityClasses ==
  <<"discovery", "secondary", "aggregator", "primary", "regulated", "official">>

Authority(d) == CHOOSE i \in DOMAIN AuthorityClasses : AuthorityClasses[i] = d.authority

\* The market sources that come with FRA, as their manifests declare them and
\* the configuration gives them roles; ages are in hours.
Manifest(roles) ==
  [kinds |-> {"market_data"}, capable |-> {"market_data"},
   profiles |-> {"local_personal_research"}, raw |-> FALSE, pointInTime |-> FALSE,
   authority |-> "aggregator", history |-> {}, discoveryOnly |-> FALSE, built |-> TRUE,
   roles |-> roles]

CoinGecko(roles) ==
  [group |-> "coingecko", scopes |-> {"GLOBAL", "CRYPTO"}, resolutions |-> {"daily", "hourly"},
   age |-> {1}, fields |-> {"price", "market_cap", "volume"}] @@ Manifest(roles)

YFinance(roles) ==
  [group |-> "yahoo-finance-unofficial", scopes |-> {"US"},
   resolutions |-> {"daily", "weekly", "monthly"}, age |-> {}, fields |-> {}] @@ Manifest(roles)

\* What register_descriptor asks of a source: a role, and an adapter with the
\* capabilities of every kind that is declared.
Registrable(d) == d.roles # {} /\ d.roles \subseteq SourceRoles /\ d.kinds \subseteq d.capable

\* The limits of a source that do not change.
Suits(d, r) ==
  /\ r.kind \in d.kinds
  /\ r.profile \in d.profiles
  /\ r.raw => d.raw
  /\ r.pointInTime => d.pointInTime
  /\ Authority(d) >= Authority(r)
  /\ d.scopes = {} \/ "GLOBAL" \in d.scopes \/ r.scope \subseteq d.scopes
  /\ d.resolutions = {} \/ r.resolution \subseteq d.resolutions
  /\ \A first \in d.history, start \in r.start : start >= first
  /\ \A usual \in d.age, most \in r.age : usual <= most
  /\ d.fields = {} \/ r.fields \subseteq d.fields

\* The status last saved does not speak against the source, however old it is.
Reachable(status) ==
  \/ status = None
  \/ status.failure # "quota_exceeded" /\ status.state # "unavailable"

Eligible(registry, statuses, r) ==
  {p \in Providers : Suits(registry[p], r) /\ Reachable(statuses[p])}

\* Sources by their rank, those of one rank by their IDs.
InOrder(rank, sources) ==
  CHOOSE s \in [1..Cardinality(sources) -> sources] :
    \A i, j \in DOMAIN s :
      i < j => \/ rank[s[i]] < rank[s[j]]
               \/ rank[s[i]] = rank[s[j]] /\ s[i] < s[j]

\* The order in which roles are given: the highest authority first.
ByAuthority(registry, eligible) ==
  InOrder([p \in eligible |-> Len(AuthorityClasses) - Authority(registry[p])], eligible)

RoleFor(d, index, groups) ==
  CASE d.discoveryOnly \/ "discovery" \in d.roles -> "discovery"
    [] index = 1 /\ "primary" \in d.roles -> "primary"
    [] d.group \notin groups /\ "cross_check" \in d.roles -> "cross_check"
    [] "fallback" \in d.roles -> "fallback"
    [] OTHER -> None

\* Only the group of the primary source counts as taken.
GroupsOfPrimary(registry, order, i, given) ==
  {registry[order[j]].group : j \in {k \in 1..i - 1 : given[k] = "primary"}}

\* The groups that the sources before position i were selected for.
GroupsTaken(registry, order, i, given) ==
  {registry[order[j]].group : j \in {k \in 1..i - 1 : given[k] # None}}

\* The roles along the order: each depends on those before it.
RolesGiven(registry, order) ==
  LET along[i \in 0..Len(order)] ==
        IF i = 0 THEN <<>>
        ELSE Append(along[i - 1],
                    RoleFor(registry[order[i]], i,
                            GroupsTaken(registry, order, i, along[i - 1])))
  IN along[Len(order)]

\* RoutingDecision: the role of every registered source, None when excluded.
Route(registry, statuses, r) ==
  LET order == ByAuthority(registry, Eligible(registry, statuses, r))
      given == RolesGiven(registry, order)
  IN [p \in Providers |->
        IF \E i \in DOMAIN order : order[i] = p
        THEN given[CHOOSE i \in DOMAIN order : order[i] = p] ELSE None]

Selected(decision) == {p \in Providers : decision[p] # None}

ExecutionOrder(role) ==
  CASE role = "primary" -> 0 [] role = "cross_check" -> 1
    [] role = "discovery" -> 2 [] role = "fallback" -> 3

\* The selected sources in the order they are asked: the fallbacks are kept
\* for later.
Asked(decision, sources) ==
  InOrder([p \in sources |-> ExecutionOrder(decision[p])], sources)

Regular(decision) ==
  Asked(decision, {p \in Selected(decision) : decision[p] # "fallback"})

Fallbacks(decision) ==
  Asked(decision, {p \in Selected(decision) : decision[p] = "fallback"})
=============================================================================

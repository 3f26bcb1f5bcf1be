---------------------------- MODULE MarketProofs -----------------------------
(***************************************************************************)
(* TLAPS proofs about MarketResearch: for any registry of sources, any     *)
(* answers and any number of processes that check sources.                 *)
(***************************************************************************)
EXTENDS MarketProps, FiniteSetTheorems, FunctionTheorems, TLAPS

Members(seq) == {seq[i] : i \in DOMAIN seq}

-----------------------------------------------------------------------------
(* Sorting.                                                                *)

\* Every set of numbers has a least member.
LEMMA Least ==
  ASSUME NEW T \in SUBSET Nat, T # {}
  PROVE  \E m \in T : \A n \in T : m <= n
  <1> DEFINE R == OpToRel(<, Nat)
  <1>1. \E m \in T : \A n \in T : <<n, m>> \notin R
    <2>1. IsWellFoundedOn(R, Nat)
      BY NatLessThanWellFounded
    <2> HIDE DEF R
    <2> QED
      BY <2>1, WFMin
  <1>2. \A m, n \in Nat : <<n, m>> \notin R => m <= n
    BY DEF OpToRel
  <1> HIDE DEF R
  <1> QED
    BY <1>1, <1>2

\* p comes before q in the order of sort(key = (rank, ID)).
Precedes(rank, p, q) ==
  \/ rank[p] < rank[q]
  \/ rank[p] = rank[q] /\ p < q

\* There is a sequence of the sources by their rank and IDs: each stands at the
\* place that counts those up to it.
LEMMA Sortable ==
  ASSUME NEW S \in SUBSET Nat, IsFiniteSet(S), NEW rank \in [S -> Nat]
  PROVE  \E s \in [1..Cardinality(S) -> S] :
           \A i, j \in DOMAIN s : i < j => Precedes(rank, s[i], s[j])
  <1> DEFINE n == Cardinality(S)
             Upto(p) == {q \in S : q = p \/ Precedes(rank, q, p)}
             place == [p \in S |-> Cardinality(Upto(p))]
  <1>1. n \in Nat /\ IsFiniteSet(1..n) /\ Cardinality(1..n) = n
    <2>1. n \in Nat
      BY FS_CardinalityType
    <2> HIDE DEF n
    <2> QED
      BY <2>1, FS_Interval
  <1>2. ASSUME NEW p \in S
        PROVE  /\ IsFiniteSet(Upto(p)) /\ Upto(p) \in SUBSET S /\ p \in Upto(p)
               /\ Cardinality(Upto(p)) \in 1..n
    <2>1. IsFiniteSet(Upto(p)) /\ Cardinality(Upto(p)) <= n
      BY FS_Subset
    <2>2. Cardinality(Upto(p)) # 0 /\ Cardinality(Upto(p)) \in Nat
      BY <2>1, FS_EmptySet, FS_CardinalityType
    <2> QED
      BY <1>1, <2>1, <2>2
  <1>3. ASSUME NEW p \in S, NEW q \in S, Precedes(rank, p, q)
        PROVE  place[p] < place[q]
    <2>0. ~Precedes(rank, q, p) /\ q # p
      BY <1>3 DEF Precedes
    <2>1. Upto(p) \in SUBSET Upto(q) /\ q \notin Upto(p)
      <3>1. ASSUME NEW x \in S, Precedes(rank, x, p) PROVE Precedes(rank, x, q)
        BY <1>3, <3>1 DEF Precedes
      <3> QED
        BY <1>3, <2>0, <3>1
    <2>2. Upto(p) # Upto(q)
      BY <1>2, <2>1
    <2> HIDE DEF Upto
    <2>3. Cardinality(Upto(p)) <= Cardinality(Upto(q))
      BY <1>2, <2>1, FS_Subset
    <2>4. Cardinality(Upto(p)) # Cardinality(Upto(q))
      BY <1>2, <2>1, <2>2, FS_Subset
    <2> QED
      BY <1>1, <1>2, <2>3, <2>4
  <1>4. \A p, q \in S : p = q \/ Precedes(rank, p, q) \/ Precedes(rank, q, p)
    BY DEF Precedes
  <1>5. place \in [S -> 1..n]
    BY <1>2
  <1> HIDE DEF place, n
  <1>6. place \in Injection(S, 1..n)
    <2>1. \A p, q \in S : place[p] = place[q] => p = q
      BY <1>1, <1>3, <1>4, <1>5
    <2> QED
      BY <1>5, <2>1, Fun_IsInj
  <1>7. \A i \in 1..n : \E p \in S : place[p] = i
    <2>1. place \in Surjection(S, 1..n)
      BY <1>1, <1>6, FS_Injection DEF n
    <2> QED
      BY <2>1, Fun_SurjectionProperties
  <1> DEFINE s == [i \in 1..n |-> CHOOSE p \in S : place[p] = i]
  <1>8. s \in [1..n -> S] /\ \A i \in 1..n : place[s[i]] = i
    BY <1>7
  <1> HIDE DEF s
  <1>9. ASSUME NEW i \in 1..n, NEW j \in 1..n, i < j
        PROVE  Precedes(rank, s[i], s[j])
    <2>1. s[i] \in S /\ s[j] \in S /\ place[s[i]] < place[s[j]] /\ ~(place[s[j]] < place[s[i]])
      BY <1>1, <1>8, <1>9
    <2>2. s[i] # s[j]
      BY <1>1, <1>5, <2>1
    <2> QED
      BY <1>3, <1>4, <2>1, <2>2
  <1> QED
    BY <1>8, <1>9 DEF n

\* The sequence that is chosen lists each source once (SourceRouter: sort, sorted).
LEMMA InOrderIs ==
  ASSUME NEW S \in SUBSET Nat, IsFiniteSet(S), NEW rank \in [S -> Nat]
  PROVE  /\ InOrder(rank, S) \in Seq(S)
         /\ Members(InOrder(rank, S)) = S
         /\ \A i, j \in DOMAIN InOrder(rank, S) :
              i # j => InOrder(rank, S)[i] # InOrder(rank, S)[j]
  <1> DEFINE n == Cardinality(S)
             s == InOrder(rank, S)
  <1>0. \A p \in S : ~Precedes(rank, p, p)
    BY DEF Precedes
  <1>1. s \in [1..n -> S] /\ \A i, j \in DOMAIN s : i < j => Precedes(rank, s[i], s[j])
    <2> DEFINE Sorted(t) ==
            \A i, j \in DOMAIN t :
              i < j => \/ rank[t[i]] < rank[t[j]]
                       \/ rank[t[i]] = rank[t[j]] /\ t[i] < t[j]
    <2>1. \E t \in [1..n -> S] : Sorted(t)
      BY Sortable DEF Precedes
    <2>2. s = CHOOSE t \in [1..n -> S] : Sorted(t)
      BY DEF InOrder
    <2> HIDE DEF s
    <2>3. s \in [1..n -> S] /\ Sorted(s)
      <3> HIDE DEF Sorted
      <3> QED
        BY <2>1, <2>2
    <2> QED
      BY <2>3 DEF Precedes
  <1>2. n \in Nat /\ IsFiniteSet(1..n) /\ Cardinality(1..n) = n
    <2>1. n \in Nat
      BY FS_CardinalityType
    <2> HIDE DEF n
    <2> QED
      BY <2>1, FS_Interval
  <1> HIDE DEF s
  <1>3. \A i, j \in 1..n : s[i] = s[j] => i = j
    <2>1. ASSUME NEW i \in 1..n, NEW j \in 1..n, i < j PROVE s[i] # s[j]
      <3>1. DOMAIN s = 1..n /\ s[i] \in S /\ s[j] \in S
        BY <1>1
      <3>2. Precedes(rank, s[i], s[j])
        BY <1>1, <2>1, <3>1
      <3> QED
        BY <1>0, <3>1, <3>2
    <2> QED
      BY <1>2, <2>1
  <1> HIDE DEF n
  <1>4. s \in Injection(1..n, S)
    BY <1>1, <1>3, Fun_IsInj
  <1>5. s \in Surjection(1..n, S)
    <2>1. Cardinality(1..n) = Cardinality(S)
      BY <1>2 DEF n
    <2> QED
      BY <1>4, <2>1, FS_Injection
  <1>6. \A p \in S : \E i \in 1..n : s[i] = p
    BY <1>5 DEF Surjection
  <1>7. Members(s) = S
    BY <1>1, <1>6 DEF Members
  <1>8. s \in Seq(S)
    BY <1>1, <1>2
  <1> QED
    BY <1>1, <1>3, <1>7, <1>8 DEF s

-----------------------------------------------------------------------------
(* Routing.                                                                *)

Given == SourceRoles \union {None}

\* The place of a source in the order depends on its authority.
LEMMA AuthorityKnown ==
  ASSUME NEW d, \E i \in DOMAIN AuthorityClasses : AuthorityClasses[i] = d.authority
  PROVE  Len(AuthorityClasses) - Authority(d) \in Nat
  <1>1. Len(AuthorityClasses) = 6 /\ DOMAIN AuthorityClasses = 1..6
    BY DEF AuthorityClasses
  <1>2. Authority(d) \in DOMAIN AuthorityClasses
    BY DEF Authority
  <1> QED
    BY <1>1, <1>2

\* The sources that route() keeps are put in an order that lists each once.
LEMMA ByAuthorityIs ==
  ASSUME NEW reg \in Registries, NEW S \in SUBSET Providers
  PROVE  /\ ByAuthority(reg, S) \in Seq(S)
         /\ Members(ByAuthority(reg, S)) = S
         /\ \A i, j \in DOMAIN ByAuthority(reg, S) :
              i # j => ByAuthority(reg, S)[i] # ByAuthority(reg, S)[j]
  <1>1. S \in SUBSET Nat /\ IsFiniteSet(S)
    BY ProvidersAssumption, FS_Subset
  <1>2. [p \in S |-> Len(AuthorityClasses) - Authority(reg[p])] \in [S -> Nat]
    BY RegistriesAssumption, AuthorityKnown
  <1> QED
    BY <1>1, <1>2, InOrderIs DEF ByAuthority

\* Every role that is given is one of the roles, or none.
LEMMA RoleForGiven ==
  ASSUME NEW d, NEW i, NEW groups
  PROVE  RoleFor(d, i, groups) \in Given
  BY DEF RoleFor, Given, SourceRoles

\* The roles up to i, from those up to i - 1.
RolesUpto(reg, order, upto, i) ==
  IF i = 0 THEN <<>>
  ELSE Append(upto[i - 1],
              RoleFor(reg[order[i]], i, GroupsTaken(reg, order, i, upto[i - 1])))

\* There are such roles along every order.
LEMMA RolesExist ==
  ASSUME NEW reg, NEW order
  PROVE  \A n \in Nat : \E upto : upto = [i \in 0..n |-> RolesUpto(reg, order, upto, i)]
  <1> DEFINE Bad == {n \in Nat : ~ \E upto : upto = [i \in 0..n |-> RolesUpto(reg, order, upto, i)]}
  <1> SUFFICES ASSUME Bad # {} PROVE FALSE
    OBVIOUS
  <1>1. PICK m \in Bad : \A n \in Bad : m <= n
    BY Least
  <1>2. CASE m = 0
    <2>1. [i \in 0..0 |-> <<>>] = [i \in 0..0 |-> RolesUpto(reg, order, [k \in 0..0 |-> <<>>], i)]
      BY DEF RolesUpto
    <2> QED
      BY <1>1, <1>2, <2>1
  <1>3. CASE m # 0
    <2>1. m - 1 \in Nat /\ m - 1 \notin Bad
      BY <1>1, <1>3
    <2>2. PICK f : f = [i \in 0..m - 1 |-> RolesUpto(reg, order, f, i)]
      BY <2>1
    <2> DEFINE g == [i \in 0..m |-> IF i = m THEN RolesUpto(reg, order, f, m) ELSE f[i]]
    <2>3. \A i \in 0..m : g[i] = RolesUpto(reg, order, f, i)
      BY <2>1, <2>2
    <2>4. \A i \in 0..m : RolesUpto(reg, order, f, i) = RolesUpto(reg, order, g, i)
      <3>1. \A i \in 0..m : i # 0 => i - 1 \in 0..m /\ i - 1 # m
        BY <1>1
      <3>2. \A i \in 0..m : i # 0 => g[i - 1] = f[i - 1]
        BY <3>1
      <3> QED
        BY <3>2 DEF RolesUpto
    <2>5. g = [i \in 0..m |-> RolesUpto(reg, order, g, i)]
      <3> HIDE DEF Bad
      <3>1. g = [i \in 0..m |-> g[i]]
        OBVIOUS
      <3> HIDE DEF g
      <3> QED
        BY <2>3, <2>4, <3>1
    <2> QED
      BY <1>1, <2>5
  <1> QED
    BY <1>2, <1>3

\* The roles as the loop of route() gives them: one for each source of the
\* order, each from the roles before it.
LEMMA RolesGivenAre ==
  ASSUME NEW reg, NEW order \in Seq(Providers)
  PROVE  LET given == RolesGiven(reg, order)
         IN /\ given \in [1..Len(order) -> Given]
            /\ \A i \in 1..Len(order) :
                 given[i] = RoleFor(reg[order[i]], i, GroupsTaken(reg, order, i, given))
  <1> DEFINE n == Len(order)
             upto == CHOOSE f : f = [i \in 0..n |-> RolesUpto(reg, order, f, i)]
  <1>1. n \in Nat
    OBVIOUS
  <1>2. upto = [i \in 0..n |-> RolesUpto(reg, order, upto, i)]
    BY <1>1, RolesExist
  <1>3. RolesGiven(reg, order) = upto[n]
    BY DEF RolesGiven, RolesUpto
  <1> HIDE DEF upto, n
  <1>4. upto[0] = <<>>
    BY <1>1, <1>2 DEF RolesUpto
  <1>5. ASSUME NEW i \in 1..n
        PROVE  upto[i] = Append(upto[i - 1], RoleFor(reg[order[i]], i, GroupsTaken(reg, order, i, upto[i - 1])))
    <2>1. i \in 0..n /\ i # 0
      BY <1>1
    <2>2. upto[i] = RolesUpto(reg, order, upto, i)
      BY <1>2, <2>1
    <2> QED
      BY <2>1, <2>2 DEF RolesUpto
  <1> DEFINE Good(i) ==
        /\ upto[i] \in Seq(Given) /\ Len(upto[i]) = i
        /\ \A k \in 1..i : upto[i][k] = RoleFor(reg[order[k]], k, GroupsTaken(reg, order, k, upto[i]))
  <1>6. ASSUME NEW i \in 1..n, Good(i - 1)
        PROVE  Good(i)
    <2> DEFINE r == RoleFor(reg[order[i]], i, GroupsTaken(reg, order, i, upto[i - 1]))
    <2>1. r \in Given
      BY RoleForGiven
    <2>2. upto[i] = Append(upto[i - 1], r) /\ upto[i - 1] \in Seq(Given) /\ Len(upto[i - 1]) = i - 1
      BY <1>5, <1>6
    <2>3. upto[i] \in Seq(Given) /\ Len(upto[i]) = i
      <3> HIDE DEF r
      <3> QED
        BY <1>1, <2>1, <2>2
    <2>4. upto[i][i] = r /\ \A k \in 1..i - 1 : upto[i][k] = upto[i - 1][k]
      <3> HIDE DEF r
      <3> QED
        BY <1>1, <2>1, <2>2
    <2>5. \A k \in 1..i : GroupsTaken(reg, order, k, upto[i]) = GroupsTaken(reg, order, k, upto[i - 1])
      <3>1. ASSUME NEW k \in 1..i
            PROVE  {j \in 1..k - 1 : upto[i][j] # None} = {j \in 1..k - 1 : upto[i - 1][j] # None}
        <4>1. \A j \in 1..k - 1 : j \in 1..i - 1
          BY <1>1
        <4> QED
          BY <2>4, <4>1
      <3> QED
        BY <3>1 DEF GroupsTaken
    <2>6. ASSUME NEW k \in 1..i
          PROVE  upto[i][k] = RoleFor(reg[order[k]], k, GroupsTaken(reg, order, k, upto[i]))
      <3>1. CASE k = i
        BY <2>4, <2>5, <3>1
      <3>2. CASE k # i
        <4>1. k \in 1..i - 1
          BY <1>1, <3>2
        <4> QED
          BY <1>6, <2>4, <2>5, <4>1
      <3> QED
        BY <3>1, <3>2
    <2> QED
      BY <2>3, <2>6
  <1>7. Good(0)
    BY <1>4
  <1> DEFINE Bad == {i \in 0..n : ~Good(i)}
  <1>8. Bad = {}
    <2> SUFFICES ASSUME Bad # {} PROVE FALSE
      OBVIOUS
    <2>0. Bad \in SUBSET Nat
      BY <1>1
    <2>1. PICK m \in Bad : \A i \in Bad : m <= i
      BY <2>0, Least
    <2>2. m \in 0..n /\ ~Good(m)
      OBVIOUS
    <2>3. m # 0
      BY <1>7, <2>2
    <2>4. m \in 1..n /\ m - 1 \in 0..n
      BY <1>1, <2>2, <2>3
    <2>5. m - 1 \notin Bad
      <3> HIDE DEF Bad
      <3> QED
        BY <2>1, <2>4
    <2>6. Good(m - 1)
      BY <2>4, <2>5
    <2> HIDE DEF Good
    <2> QED
      BY <1>6, <2>2, <2>4, <2>6
  <1>9. Good(n)
    <2>1. n \in 0..n
      BY <1>1
    <2> HIDE DEF Good
    <2> QED
      BY <1>8, <2>1
  <1> QED
    BY <1>1, <1>3, <1>9 DEF n

\* What a decision of route() is for whoever acts on it: each selected source
\* has one of the roles, and two sources of one independence group are not
\* both selected as primary or cross-check.
Corroborates == {"primary", "cross_check"}

Decides(reg, decision) ==
  /\ decision \in [Providers -> Given]
  /\ \A p, q \in Providers :
       p # q /\ decision[p] \in Corroborates /\ decision[q] \in Corroborates
         => reg[p].group # reg[q].group

\* SourceRouter.route decides so, whatever the statuses and the requirement.
LEMMA RouteDecides ==
  ASSUME NEW reg \in Registries, NEW saved, NEW r
  PROVE  Decides(reg, Route(reg, saved, r))
  <1> DEFINE S == Eligible(reg, saved, r)
             order == ByAuthority(reg, S)
             given == RolesGiven(reg, order)
             at(p) == CHOOSE i \in DOMAIN order : order[i] = p
             decision == Route(reg, saved, r)
  <1>1. S \in SUBSET Providers
    BY DEF Eligible
  <1>2. /\ order \in Seq(S) /\ Members(order) = S
        /\ \A i, j \in DOMAIN order : i # j => order[i] # order[j]
    BY <1>1, ByAuthorityIs
  <1> HIDE DEF S, order
  <1>3. order \in Seq(Providers) /\ DOMAIN order = 1..Len(order) /\ Len(order) \in Nat
    BY <1>1, <1>2
  <1>4. /\ given \in [1..Len(order) -> Given]
        /\ \A i \in 1..Len(order) :
             given[i] = RoleFor(reg[order[i]], i, GroupsTaken(reg, order, i, given))
    BY <1>3, RolesGivenAre
  <1>5. decision = [p \in Providers |->
                      IF \E i \in DOMAIN order : order[i] = p THEN given[at(p)] ELSE None]
    BY DEF Route, order, S
  <1> HIDE DEF given, decision
  <1>6. ASSUME NEW p \in Providers, \E i \in DOMAIN order : order[i] = p
        PROVE  at(p) \in DOMAIN order /\ order[at(p)] = p
    BY <1>6
  <1>7. decision \in [Providers -> Given]
    <2>1. None \in Given
      BY DEF Given
    <2> HIDE DEF at
    <2> QED
      BY <1>3, <1>4, <1>5, <1>6, <2>1
  <1> HIDE DEF at
  <1>8. ASSUME NEW i \in DOMAIN order, NEW j \in DOMAIN order, i < j,
               given[i] \in Corroborates, given[j] \in Corroborates
        PROVE  reg[order[i]].group # reg[order[j]].group
    <2>1. j # 1 /\ i \in 1..j - 1
      BY <1>3, <1>8
    <2>2. given[i] # None
      BY <1>8, NoRoleAssumption DEF Corroborates, SourceRoles
    <2>3. reg[order[i]].group \in GroupsTaken(reg, order, j, given)
      BY <2>1, <2>2 DEF GroupsTaken
    <2>4. given[j] = RoleFor(reg[order[j]], j, GroupsTaken(reg, order, j, given))
      BY <1>3, <1>4
    <2>5. reg[order[j]].group \notin GroupsTaken(reg, order, j, given)
      BY <1>8, <2>1, <2>4, NoRoleAssumption DEF RoleFor, Corroborates, SourceRoles
    <2> QED
      BY <2>3, <2>5
  <1>9. ASSUME NEW p \in Providers, NEW q \in Providers, p # q,
               decision[p] \in Corroborates, decision[q] \in Corroborates
        PROVE  reg[p].group # reg[q].group
    <2>1. None \notin Corroborates
      BY NoRoleAssumption DEF Corroborates, SourceRoles
    <2>2. /\ \E i \in DOMAIN order : order[i] = p
          /\ \E i \in DOMAIN order : order[i] = q
      BY <1>5, <1>9, <2>1
    <2>3. /\ at(p) \in DOMAIN order /\ order[at(p)] = p /\ decision[p] = given[at(p)]
          /\ at(q) \in DOMAIN order /\ order[at(q)] = q /\ decision[q] = given[at(q)]
      BY <1>5, <1>6, <2>2
    <2>4. at(p) < at(q) \/ at(q) < at(p)
      <3>1. at(p) \in Nat /\ at(q) \in Nat /\ at(p) # at(q)
        BY <1>3, <1>9, <2>3
      <3> QED
        BY <3>1
    <2> QED
      BY <1>8, <1>9, <2>3, <2>4
  <1> QED
    BY <1>7, <1>9 DEF Decides, decision

\* The selected sources of some roles, as they are asked (SourceRouter.execute).
LEMMA AskedIs ==
  ASSUME NEW decision \in [Providers -> Given],
         NEW S \in SUBSET Selected(decision)
  PROVE  /\ Asked(decision, S) \in Seq(S)
         /\ Members(Asked(decision, S)) = S
         /\ \A i, j \in DOMAIN Asked(decision, S) :
              i # j => Asked(decision, S)[i] # Asked(decision, S)[j]
  <1>1. S \in SUBSET Nat /\ IsFiniteSet(S)
    BY ProvidersAssumption, FS_Subset DEF Selected
  <1>2. \A role \in SourceRoles : ExecutionOrder(role) \in Nat
    BY DEF SourceRoles, ExecutionOrder
  <1>3. \A p \in S : decision[p] \in SourceRoles
    BY DEF Selected, Given
  <1>4. [p \in S |-> ExecutionOrder(decision[p])] \in [S -> Nat]
    BY <1>2, <1>3
  <1> QED
    BY <1>1, <1>4, InOrderIs DEF Asked

-----------------------------------------------------------------------------
(* The invariants.                                                         *)

Values ==
  [source : Providers, role : SourceRoles, observed : Int, available : Nat,
   count : Nat, trend : Int, risk : Nat]

\* The values of an asset are kept only while it is fetched.
Typed ==
  /\ clock \in 0..MaxClock
  /\ registry \in Registries
  /\ DOMAIN job = DOMAIN NoRun
  /\ job.phase = "new" => job = NoRun
  /\ job.values \in Seq(Values)
  /\ job.phase # "fetching" => job.values = <<>>

Distinct(seq) == \A i, j \in DOMAIN seq : i # j => seq[i] # seq[j]

Sources == {job.values[i].source : i \in DOMAIN job.values}

SelectedAs(decision, fallback) ==
  {p \in Selected(decision) : (decision[p] = "fallback") = fallback}

\* What is asked was selected, and in its turn; a source answers once, in the
\* role it was selected for.
InTurn ==
  /\ Decides(registry, job.decision)
  /\ job.regular \in Seq(SelectedAs(job.decision, FALSE)) /\ Distinct(job.regular)
  /\ job.fallbacks \in Seq(SelectedAs(job.decision, TRUE))
  /\ \A i \in DOMAIN job.values :
       /\ job.values[i].source \in Selected(job.decision)
       /\ job.values[i].role = job.decision[job.values[i].source]
  /\ Sources \cap Members(job.regular) = {}
  /\ \A i, j \in DOMAIN job.values :
       i # j /\ job.values[i].role # "fallback" => job.values[i].source # job.values[j].source

\* No selected source is passed over, unless a value of a fallback is there:
\* then it is the only one, nothing is asked after it, and no primary answered.
Accounted ==
  /\ job.failures \in SUBSET Selected(job.decision)
  /\ \A p \in SelectedAs(job.decision, FALSE) :
       p \in Members(job.regular) \union job.failures \union Sources
  /\ ValuesWith("fallback") = {} =>
       SelectedAs(job.decision, TRUE) \subseteq Members(job.fallbacks) \union job.failures
  /\ ValuesWith("fallback") # {} =>
       /\ job.regular = <<>> /\ job.fallbacks = <<>>
       /\ ValuesWith("primary") = {}
       /\ \A i, j \in ValuesWith("fallback") : i = j

FetchInv == Typed /\ (job.phase = "fetching" => InTurn /\ Accounted)

CryptoBases == [observed : Int, available : Nat, cutoff : Nat, count : Nat, trend : Int]

\* A basis is judged at a cutoff that is over, and no cutoff comes before one
\* of an earlier asset.
Timely(basis) ==
  /\ basis \in Seq(CryptoBases)
  /\ \A i \in DOMAIN basis :
       /\ basis[i].available <= basis[i].cutoff /\ basis[i].cutoff <= clock
       /\ basis[i].cutoff - basis[i].observed <= StaleAfter
       /\ \A j \in 1..i - 1 : basis[j].cutoff <= basis[i].available

CutoffInv ==
  /\ Typed
  /\ job.signal # None => job.phase = "finalized"
  /\ \A i \in DOMAIN job.values : job.values[i].available <= clock
  /\ job.workflow = "crypto" =>
       /\ job.failure # "look_ahead"
       /\ job.phase # "proposing"
       /\ job.phase \in {"routing", "fetching"} => Len(job.basis) < 2
       /\ Timely(job.basis)
       /\ \A j \in DOMAIN job.basis, i \in DOMAIN job.values :
            job.basis[j].cutoff <= job.values[i].available
       /\ job.collections \in Seq([basis : Seq(CryptoBases), proposal : {None}])
       /\ \A k \in DOMAIN job.collections :
            /\ Timely(job.collections[k].basis)
            /\ job.signal # None =>
                 \A i \in DOMAIN job.collections[k].basis :
                   job.collections[k].basis[i].cutoff <= job.signal.issued

\* A status that is saved is never older than the one it replaces, so each
\* source that a check has passed has one that is no older than the check.
Statuses ==
  [state : {"healthy", "unavailable"}, failure : FailureKinds \union {None}, at : 0..MaxClock]

SavedSince(p, at) == statuses[p] # None /\ statuses[p].at >= at

CheckTyped(c) ==
  /\ DOMAIN checks[c] = DOMAIN Unstarted
  /\ checks[c].began \in 0..clock
  /\ checks[c].covered \in SUBSET Providers
  /\ checks[c].todo \in Seq(checks[c].covered)
  /\ checks[c].phase = "saving" =>
       checks[c].todo # <<>> /\ checks[c].health \in Statuses
         /\ checks[c].health.at \in checks[c].began..clock

Passed(c) ==
  checks[c].phase \in {"asking", "saving", "returned"} =>
    \A p \in checks[c].covered :
      \/ p \in Members(checks[c].todo) /\ checks[c].phase # "returned"
      \/ SavedSince(p, checks[c].began)

ChecksInv ==
  /\ clock \in 0..MaxClock
  /\ statuses \in [Providers -> Statuses \union {None}]
  /\ DOMAIN checks = Checkers
  /\ \A c \in Checkers : CheckTyped(c) /\ Passed(c)

-----------------------------------------------------------------------------
(* Sequences that are worked off from their head.                          *)

\* What is worked off is the head, and the tail is what is left of the others.
LEMMA HeadAndTail ==
  ASSUME NEW S, NEW seq \in Seq(S), seq # <<>>
  PROVE  /\ Head(seq) \in S /\ Tail(seq) \in Seq(S)
         /\ Members(seq) = {Head(seq)} \union Members(Tail(seq))
         /\ Distinct(seq) => Distinct(Tail(seq)) /\ Head(seq) \notin Members(Tail(seq))
  <1>1. Len(seq) \in Nat /\ DOMAIN seq = 1..Len(seq) /\ Len(seq) # 0
    OBVIOUS
  <1>2. /\ Head(seq) = seq[1] /\ seq[1] \in S /\ Tail(seq) \in Seq(S)
        /\ DOMAIN Tail(seq) = 1..Len(seq) - 1
        /\ \A i \in 1..Len(seq) - 1 : Tail(seq)[i] = seq[i + 1] /\ i + 1 \in 1..Len(seq)
    BY <1>1
  <1>4. Members(seq) = {Head(seq)} \union Members(Tail(seq))
    <2>1. Members(seq) \subseteq {Head(seq)} \union Members(Tail(seq))
      <3>1. ASSUME NEW i \in 1..Len(seq)
            PROVE  seq[i] \in {Head(seq)} \union Members(Tail(seq))
        <4>1. CASE i = 1
          BY <1>2, <4>1
        <4>2. CASE i # 1
          <5>1. i - 1 \in 1..Len(seq) - 1 /\ (i - 1) + 1 = i
            BY <1>1, <4>2
          <5>2. i - 1 \in DOMAIN Tail(seq) /\ Tail(seq)[i - 1] = seq[i]
            BY <1>2, <5>1
          <5> QED
            BY <5>2 DEF Members
        <4> QED
          BY <4>1, <4>2
      <3> QED
        BY <1>1, <3>1 DEF Members
    <2>2. {Head(seq)} \union Members(Tail(seq)) \subseteq Members(seq)
      BY <1>1, <1>2 DEF Members
    <2> QED
      BY <2>1, <2>2
  <1>5. ASSUME Distinct(seq)
        PROVE  Distinct(Tail(seq)) /\ Head(seq) \notin Members(Tail(seq))
    <2>1. \A i, j \in 1..Len(seq) - 1 : i # j => i + 1 # j + 1
      BY <1>1
    <2>2. Distinct(Tail(seq))
      BY <1>1, <1>2, <1>5, <2>1 DEF Distinct
    <2>3. \A i \in 1..Len(seq) - 1 : i + 1 # 1 /\ 1 \in 1..Len(seq)
      BY <1>1
    <2>4. Head(seq) \notin Members(Tail(seq))
      BY <1>1, <1>2, <1>5, <2>3 DEF Distinct, Members
    <2> QED
      BY <2>2, <2>4
  <1> QED
    BY <1>2, <1>4, <1>5

\* An entry is added behind the others.
LEMMA Appended ==
  ASSUME NEW S, NEW seq \in Seq(S), NEW e \in S
  PROVE  /\ Append(seq, e) \in Seq(S)
         /\ DOMAIN Append(seq, e) = DOMAIN seq \union {Len(seq) + 1}
         /\ Len(seq) + 1 \notin DOMAIN seq
         /\ Append(seq, e)[Len(seq) + 1] = e
         /\ \A i \in DOMAIN seq : Append(seq, e)[i] = seq[i]
  OBVIOUS

-----------------------------------------------------------------------------
(* The checks of the sources.                                              *)

\* A run leaves the clock, the sources and what checks do alone.
LEMMA RunApart ==
  Run => UNCHANGED <<clock, registry, statuses, checks>>
  BY DEF Run, StartCrypto, StartAllocation, Started, Collect, RouteAsset, SourceUnbuilt,
         SourceFails, SourceAnswers, SourceEscapes, NoValue, Judge, Reject, CryptoCollected,
         Proposed, ProposalRefused, InputLacking, CollectMore, FinalizeCrypto, FinalizeAllocation,
         WeightsRefused, Interrupt, Resume, Commanded, Become, Stop, Fail, Checkpoint, checkVars

\* The health that a check asks for is known now.
LEMMA HealthNow ==
  ASSUME clock \in 0..MaxClock
  PROVE  /\ Healthy \in Statuses /\ Healthy.at = clock
         /\ \A kind \in FailureKinds : Failed(kind) \in Statuses /\ Failed(kind).at = clock
  BY DEF Healthy, Failed, Statuses

\* A check keeps the type of its state, and every source behind it has a
\* status since it began.
LEMMA CheckKeeps ==
  ASSUME ChecksInv, NEW c \in Checkers, Check(c)
  PROVE  ChecksInv'
  <1>1. /\ clock \in 0..MaxClock /\ statuses \in [Providers -> Statuses \union {None}]
        /\ DOMAIN checks = Checkers /\ CheckTyped(c) /\ Passed(c)
    BY DEF ChecksInv
  <1>2. DOMAIN checks[c] = {"phase", "todo", "began", "covered", "health"}
    BY <1>1 DEF CheckTyped, Unstarted
  <1>3. ASSUME NEW next, checks' = [checks EXCEPT ![c] = next], UNCHANGED <<clock, registry>>,
               CheckTyped(c)', Passed(c)', statuses' \in [Providers -> Statuses \union {None}],
               \A p \in Providers, at \in Nat : SavedSince(p, at) => SavedSince(p, at)'
        PROVE  ChecksInv'
    <2>1. ASSUME NEW o \in Checkers, o # c
          PROVE  CheckTyped(o)' /\ Passed(o)'
      <3>1. checks'[o] = checks[o] /\ CheckTyped(o) /\ Passed(o)
        BY <1>1, <1>3, <2>1 DEF ChecksInv
      <3>2. CheckTyped(o)'
        BY <1>3, <3>1 DEF CheckTyped
      <3>3. Passed(o)'
        <4>1. checks[o].began \in Nat /\ checks[o].covered \in SUBSET Providers
          BY <1>1, <3>1 DEF CheckTyped
        <4> QED
          BY <1>3, <3>1, <4>1 DEF Passed
      <3> QED
        BY <3>2, <3>3
    <2> QED
      BY <1>1, <1>3, <2>1 DEF ChecksInv
  <1>4. ASSUME NEW sources \in Targets, BeginCheck(c, sources)
        PROVE  ChecksInv'
    <2> DEFINE todo == InOrder([p \in sources |-> 0], sources)
    <2>1. sources \in SUBSET Providers /\ todo \in Seq(sources) /\ Members(todo) = sources
      <3>0. sources \in SUBSET Providers
        BY TargetsAssumption
      <3>1. sources \in SUBSET Nat /\ IsFiniteSet(sources)
        <4>1. sources \in SUBSET Nat /\ IsFiniteSet(Providers)
          BY <3>0, ProvidersAssumption
        <4> QED
          BY <3>0, <4>1, FS_Subset
      <3>2. [p \in sources |-> 0] \in [sources -> Nat]
        OBVIOUS
      <3> QED
        BY <3>0, <3>1, <3>2, InOrderIs
    <2> HIDE DEF todo
    <2>2. /\ checks' = [checks EXCEPT ![c] = checks'[c]]
          /\ checks'[c] = [checks[c] EXCEPT !.phase = "asking", !.began = clock,
                                            !.covered = sources, !.todo = todo]
          /\ UNCHANGED <<clock, registry, statuses>>
      BY <1>1, <1>4 DEF BeginCheck, Change, todo
    <2>3. /\ checks'[c].phase = "asking" /\ checks'[c].began = clock
          /\ checks'[c].covered = sources /\ checks'[c].todo = todo
          /\ DOMAIN checks'[c] = DOMAIN checks[c]
      BY <1>2, <2>2
    <2>4. CheckTyped(c)'
      BY <1>1, <2>1, <2>2, <2>3 DEF CheckTyped
    <2>5. Passed(c)'
      BY <2>1, <2>3 DEF Passed
    <2> QED
      BY <1>1, <1>3, <2>2, <2>4, <2>5 DEF SavedSince
  <1>5. ASSUME NEW next, Change(c, next), UNCHANGED statuses, next.phase = "raised" \/
               (next.phase = "returned" /\ checks[c].phase = "asking" /\ checks[c].todo = <<>>),
               DOMAIN next = DOMAIN checks[c], next.began = checks[c].began,
               next.covered = checks[c].covered, next.todo = checks[c].todo
        PROVE  ChecksInv'
    <2>1. checks' = [checks EXCEPT ![c] = next] /\ checks'[c] = next /\ UNCHANGED <<clock, registry>>
      BY <1>1, <1>5 DEF Change
    <2>2. CheckTyped(c)'
      BY <1>1, <1>5, <2>1 DEF CheckTyped
    <2>3. Passed(c)'
      BY <1>1, <1>5, <2>1 DEF Passed, Members, SavedSince
    <2> QED
      BY <1>1, <1>3, <1>5, <2>1, <2>2, <2>3 DEF SavedSince
  <1>6. ASSUME NEW health \in Statuses, health.at = clock, HealthKnown(c, health)
        PROVE  ChecksInv'
    <2>1. /\ checks' = [checks EXCEPT ![c] = checks'[c]]
          /\ checks'[c] = [checks[c] EXCEPT !.phase = "saving", !.health = health]
          /\ UNCHANGED <<clock, registry, statuses>>
          /\ checks[c].phase = "asking" /\ checks[c].todo # <<>>
      BY <1>1, <1>6 DEF HealthKnown, Asking, Step, Change
    <2>2. /\ checks'[c].phase = "saving" /\ checks'[c].health = health
          /\ checks'[c].began = checks[c].began /\ checks'[c].covered = checks[c].covered
          /\ checks'[c].todo = checks[c].todo /\ DOMAIN checks'[c] = DOMAIN checks[c]
      BY <1>2, <2>1
    <2>3. CheckTyped(c)'
      BY <1>1, <1>6, <2>1, <2>2 DEF CheckTyped
    <2>4. Passed(c)'
      BY <1>1, <2>1, <2>2 DEF Passed, SavedSince
    <2> QED
      BY <1>1, <1>3, <2>1, <2>3, <2>4 DEF SavedSince
  <1>7. CASE SaveStatus(c)
    <2> DEFINE p == Head(checks[c].todo)
               health == checks[c].health
    <2>1. /\ checks' = [checks EXCEPT ![c] = checks'[c]]
          /\ checks'[c] = [checks[c] EXCEPT !.phase = "asking", !.todo = Tail(@), !.health = None]
          /\ UNCHANGED <<clock, registry>> /\ statuses' = [statuses EXCEPT ![p] = health]
          /\ checks[c].phase = "saving" /\ ~Stale(p, health)
      BY <1>1, <1>7 DEF SaveStatus, Step, Change
    <2>2. /\ checks'[c].phase = "asking" /\ checks'[c].todo = Tail(checks[c].todo)
          /\ checks'[c].began = checks[c].began /\ checks'[c].covered = checks[c].covered
          /\ DOMAIN checks'[c] = DOMAIN checks[c]
      BY <1>2, <2>1
    <2>3. /\ checks[c].todo \in Seq(checks[c].covered) /\ checks[c].todo # <<>>
          /\ checks[c].covered \in SUBSET Providers
          /\ health \in Statuses /\ health.at \in checks[c].began..clock
      BY <1>1, <2>1 DEF CheckTyped
    <2>4. /\ p \in checks[c].covered /\ Tail(checks[c].todo) \in Seq(checks[c].covered)
          /\ Members(checks[c].todo) = {p} \union Members(Tail(checks[c].todo))
      BY <2>3, HeadAndTail
    <2> HIDE DEF p, health
    <2>5. health # None
      BY <2>3, StatusAssumption DEF Statuses
    <2>6. statuses' \in [Providers -> Statuses \union {None}]
      BY <1>1, <2>1, <2>3, <2>4
    <2>7. ASSUME NEW q \in Providers, NEW at \in Nat, SavedSince(q, at)
          PROVE  SavedSince(q, at)'
      <3>1. CASE q = p
        <4>1. statuses[q] \in Statuses /\ statuses[q].at \in Nat
          BY <1>1, <2>7, ClockAssumption DEF SavedSince, Statuses
        <4>2. health.at \in Nat /\ health.at >= statuses[q].at
          BY <2>1, <2>3, <2>7, <3>1, <4>1, ClockAssumption DEF Stale, SavedSince, Statuses
        <4>3. statuses'[q] = health
          BY <1>1, <2>1, <3>1
        <4> QED
          BY <2>5, <2>7, <4>1, <4>2, <4>3 DEF SavedSince
      <3>2. CASE q # p
        BY <1>1, <2>1, <2>7, <3>2 DEF SavedSince
      <3> QED
        BY <3>1, <3>2
    <2>8. ASSUME NEW q \in Providers, q = p
          PROVE  SavedSince(q, checks[c].began)'
      <3>1. statuses'[q] = health /\ (checks[c].began)' = checks[c].began
        BY <1>1, <2>1, <2>2, <2>3, <2>4, <2>8
      <3> QED
        BY <1>1, <2>1, <2>2, <2>3, <2>5, <3>1 DEF SavedSince, CheckTyped
    <2>9. CheckTyped(c)'
      BY <1>1, <2>1, <2>2, <2>4 DEF CheckTyped
    <2>10. Passed(c)'
      <3>1. checks[c].began \in Nat
        BY <1>1 DEF CheckTyped
      <3>2. ASSUME NEW q \in checks[c].covered
            PROVE  q \in Members(Tail(checks[c].todo)) \/ SavedSince(q, checks[c].began)'
        <4>1. q \in Members(checks[c].todo) \/ SavedSince(q, checks[c].began)
          BY <1>1, <2>1 DEF Passed
        <4>2. SavedSince(q, checks[c].began) => SavedSince(q, checks[c].began)'
          BY <2>2, <2>3, <2>7, <3>1
        <4> QED
          BY <2>3, <2>4, <2>8, <4>1, <4>2
      <3> QED
        BY <2>2, <3>2 DEF Passed
    <2> QED
      BY <1>3, <2>1, <2>6, <2>7, <2>9, <2>10
  <1>8. CASE NotConstructed(c) \/ HealthEscapes(c) \/ SaveRefused(c) \/ CheckReturns(c)
    <2>1. \E next : /\ Change(c, next) /\ UNCHANGED statuses
                    /\ \/ next.phase = "raised"
                       \/ next.phase = "returned" /\ checks[c].phase = "asking" /\ checks[c].todo = <<>>
                    /\ DOMAIN next = DOMAIN checks[c] /\ next.began = checks[c].began
                    /\ next.covered = checks[c].covered /\ next.todo = checks[c].todo
      <3>1. CASE NotConstructed(c) \/ HealthEscapes(c)
        <4>1. WITNESS [checks[c] EXCEPT !.phase = "raised"]
        <4> QED
          BY <1>2, <3>1 DEF NotConstructed, HealthEscapes, Step
      <3>2. CASE SaveRefused(c)
        <4>1. WITNESS [checks[c] EXCEPT !.phase = "raised", !.health = None]
        <4> QED
          BY <1>2, <3>2 DEF SaveRefused, Step
      <3>3. CASE CheckReturns(c)
        <4>1. WITNESS [checks[c] EXCEPT !.phase = "returned"]
        <4> QED
          BY <1>2, <3>3 DEF CheckReturns, Step
      <3> QED
        BY <1>8, <3>1, <3>2, <3>3
    <2> QED
      BY <1>5, <2>1
  <1>9. CASE HealthAnswers(c)
    BY <1>1, <1>6, <1>9, HealthNow DEF HealthAnswers
  <1>10. CASE HealthFails(c)
    BY <1>1, <1>6, <1>10, HealthNow DEF HealthFails
  <1> QED
    BY <1>4, <1>7, <1>8, <1>9, <1>10 DEF Check

\* No check has begun at first.
LEMMA ChecksInit ==
  Init => ChecksInv
  <1> SUFFICES ASSUME Init PROVE ChecksInv
    OBVIOUS
  <1>1. /\ clock = 0 /\ statuses = [p \in Providers |-> None]
        /\ checks = [c \in Checkers |-> Unstarted]
    BY DEF Init, CheckInit
  <1>2. ASSUME NEW c \in Checkers
        PROVE  CheckTyped(c) /\ Passed(c)
    <2>1. /\ checks[c] = Unstarted /\ checks[c].phase = "idle" /\ checks[c].todo = <<>>
          /\ checks[c].began = 0 /\ checks[c].covered = {} /\ clock = 0
      BY <1>1 DEF Unstarted
    <2>2. CheckTyped(c)
      BY <2>1 DEF CheckTyped
    <2> QED
      BY <2>1, <2>2 DEF Passed
  <1> QED
    BY <1>1, <1>2, ClockAssumption DEF ChecksInv

\* Time passes, and a run goes on, without a change to what checks saved.
LEMMA ChecksNext ==
  ChecksInv /\ [Next]_vars => ChecksInv'
  <1> SUFFICES ASSUME ChecksInv, [Next]_vars PROVE ChecksInv'
    OBVIOUS
  <1>1. ASSUME UNCHANGED <<statuses, checks>>, clock' \in 0..MaxClock, clock <= clock'
        PROVE  ChecksInv'
    <2>1. ASSUME NEW c \in Checkers
          PROVE  CheckTyped(c)' /\ Passed(c)'
      <3>1. CheckTyped(c) /\ Passed(c) /\ clock \in Nat
        BY ClockAssumption DEF ChecksInv
      <3>2. \A n : n \in 0..clock => n \in 0..clock'
        BY <1>1, <3>1, ClockAssumption
      <3>3. checks[c].began \in 0..clock
        BY <3>1 DEF CheckTyped
      <3>4. \A n : n \in checks[c].began..clock => n \in checks[c].began..clock'
        BY <1>1, <3>1, <3>3, ClockAssumption
      <3>5. CheckTyped(c)'
        BY <1>1, <3>1, <3>2, <3>4 DEF CheckTyped
      <3>6. Passed(c)'
        BY <1>1, <3>1 DEF Passed, SavedSince
      <3> QED
        BY <3>5, <3>6
    <2> QED
      BY <1>1, <2>1 DEF ChecksInv
  <1>2. clock \in 0..MaxClock
    BY DEF ChecksInv
  <1>3. CASE Run
    BY <1>1, <1>2, <1>3, RunApart, ClockAssumption
  <1>4. CASE Tick
    BY <1>1, <1>2, <1>4, ClockAssumption DEF Tick
  <1>5. CASE \E c \in Checkers : Check(c)
    BY <1>5, CheckKeeps
  <1>6. CASE UNCHANGED vars
    BY <1>1, <1>2, <1>6, ClockAssumption DEF vars, checkVars
  <1> QED
    BY <1>3, <1>4, <1>5, <1>6 DEF Next

\* After a check of the sources returned, each source it covered has a status
\* no older than the check, however many other processes check and save
\* beside it (SourceService.check, the repository's refusal of older statuses).
THEOREM MarketChecksNewest == Spec => []ChecksNewest
  <1>1. ChecksInv => ChecksNewest
    <2> SUFFICES ASSUME ChecksInv, NEW c \in Checkers, checks[c].phase = "returned",
                        NEW p \in checks[c].covered
                 PROVE  SavedSince(p, checks[c].began)
      BY DEF ChecksNewest, SavedSince
    <2> QED
      BY DEF ChecksInv, Passed
  <1> QED
    BY <1>1, ChecksInit, ChecksNext, PTL DEF Spec

-----------------------------------------------------------------------------
(* The collection of an asset.                                             *)

\* A step that leaves no asset half fetched.
Settles ==
  /\ job'.phase \notin {"fetching", "new"} /\ job'.values = <<>>
  /\ DOMAIN job' = DOMAIN NoRun

\* What a run does, for whoever looks at the asset that it fetches.
LEMMA RunSteps ==
  ASSUME Typed, Run
  PROVE  \/ Settles
         \/ RouteAsset \/ SourceUnbuilt \/ SourceFails
         \/ \E series \in Series : SourceAnswers(series)
  <1> DEFINE Fields == DOMAIN NoRun
  <1>1. /\ DOMAIN job = Fields /\ Fields = {"phase", "workflow", "profile", "collections",
             "failure", "signal", "decision", "regular", "fallbacks", "values", "failures",
             "basis", "requested"}
    BY DEF Typed, NoRun
  <1>2. job.phase # "fetching" => job.values = <<>>
    BY DEF Typed
  <1> HIDE DEF Fields
  <1>3. DOMAIN Cleared = Fields /\ Cleared.values = <<>>
    BY <1>1 DEF Cleared
  <1>4. CASE \E request \in Requests : StartCrypto(request) \/ StartAllocation(request)
    BY <1>1, <1>2, <1>4, ZenonT(60) DEF StartCrypto, StartAllocation, Started, Commanded, Settles, Fields
  <1>5. CASE Collect
    BY <1>1, <1>2, <1>5 DEF Collect, Become, Settles, Fields
  <1>6. CASE SourceEscapes \/ InputLacking \/ Interrupt
    BY <1>1, <1>3, <1>6 DEF SourceEscapes, InputLacking, Interrupt, Stop, Become, Settles, Fields
  <1>7. CASE NoValue \/ Reject \/ ProposalRefused
    BY <1>1, <1>3, <1>7 DEF NoValue, Reject, ProposalRefused, Fail, Become, Settles, Fields
  <1>8. CASE Judge
    BY <1>1, <1>8 DEF Judge, Become, Settles, Fields
  <1>9. CASE CryptoCollected \/ Proposed
    BY <1>1, <1>3, <1>9 DEF CryptoCollected, Proposed, Checkpoint, Become, Settles, Fields
  <1>10. CASE CollectMore
    BY <1>1, <1>2, <1>10 DEF CollectMore, Commanded, Settles, Fields
  <1>11. CASE FinalizeCrypto \/ FinalizeAllocation \/ WeightsRefused
    BY <1>1, <1>2, <1>11 DEF FinalizeCrypto, FinalizeAllocation, WeightsRefused, Become, Settles, Fields
  <1>12. CASE Resume
    BY <1>1, <1>2, <1>12 DEF Resume, Commanded, Settles, Fields
  <1> QED
    BY <1>4, <1>5, <1>6, <1>7, <1>8, <1>9, <1>10, <1>11, <1>12 DEF Run

FieldsAre ==
  DOMAIN job = {"phase", "workflow", "profile", "collections", "failure", "signal",
                "decision", "regular", "fallbacks", "values", "failures", "basis", "requested"}

\* The fields of a run, by name.
LEMMA FieldsOfTyped ==
  DOMAIN job = DOMAIN NoRun <=> FieldsAre
  BY DEF NoRun, FieldsAre

\* Routing selects sources that are then to be asked in their turn.
LEMMA RouteFetches ==
  ASSUME Typed, RouteAsset
  PROVE  FetchInv'
  <1> DEFINE d == Route(registry, statuses, Requirement)
  <1>1. FieldsAre /\ clock \in 0..MaxClock /\ registry \in Registries
    BY FieldsOfTyped DEF Typed
  <1>2. /\ job' = [job EXCEPT !.phase = "fetching", !.decision = d, !.regular = Regular(d),
                              !.fallbacks = Fallbacks(d), !.values = <<>>, !.failures = {}]
        /\ UNCHANGED <<clock, registry>>
    BY DEF RouteAsset, Become, checkVars
  <1>3. Decides(registry, d)
    BY <1>1, RouteDecides
  <1> HIDE DEF d
  <1>4. d \in [Providers -> Given]
    BY <1>3 DEF Decides
  <1>5. /\ job'.phase = "fetching" /\ job'.decision = d /\ job'.regular = Regular(d)
        /\ job'.fallbacks = Fallbacks(d) /\ job'.values = <<>> /\ job'.failures = {}
        /\ DOMAIN job' = DOMAIN job
    BY <1>1, <1>2 DEF FieldsAre
  <1>6. /\ Regular(d) = Asked(d, SelectedAs(d, FALSE))
        /\ Fallbacks(d) = Asked(d, SelectedAs(d, TRUE))
        /\ SelectedAs(d, FALSE) \in SUBSET Selected(d)
        /\ SelectedAs(d, TRUE) \in SUBSET Selected(d)
    <2>1. /\ {p \in Selected(d) : d[p] # "fallback"} = SelectedAs(d, FALSE)
          /\ {p \in Selected(d) : d[p] = "fallback"} = SelectedAs(d, TRUE)
      BY DEF SelectedAs
    <2>2. SelectedAs(d, FALSE) \in SUBSET Selected(d) /\ SelectedAs(d, TRUE) \in SUBSET Selected(d)
      BY DEF SelectedAs
    <2> QED
      BY <2>1, <2>2 DEF Regular, Fallbacks
  <1>7. /\ Regular(d) \in Seq(SelectedAs(d, FALSE)) /\ Distinct(Regular(d))
        /\ Members(Regular(d)) = SelectedAs(d, FALSE)
        /\ Fallbacks(d) \in Seq(SelectedAs(d, TRUE))
        /\ Members(Fallbacks(d)) = SelectedAs(d, TRUE)
    BY <1>4, <1>6, AskedIs DEF Distinct
  <1>8. Typed'
    BY <1>1, <1>2, <1>5 DEF Typed
  <1>9. Sources' = {} /\ ValuesWith("fallback")' = {}
    BY <1>5 DEF Sources, ValuesWith
  <1>10. InTurn'
    <2>1. DOMAIN job'.values = {}
      BY <1>5
    <2>2. /\ Decides(registry, job.decision)' /\ Distinct(job.regular)'
          /\ (job.regular \in Seq(SelectedAs(job.decision, FALSE)))'
          /\ (job.fallbacks \in Seq(SelectedAs(job.decision, TRUE)))'
      BY <1>2, <1>3, <1>5, <1>7
    <2> QED
      BY <1>9, <2>1, <2>2 DEF InTurn
  <1>11. Accounted'
    BY <1>5, <1>7, <1>9 DEF Accounted
  <1> QED
    BY <1>8, <1>10, <1>11 DEF FetchInv

\* The next source that is asked, and what is left after it.
LEMMA CandidateIs ==
  ASSUME FetchInv, Asks
  PROVE  /\ InTurn /\ Accounted /\ job.phase = "fetching" /\ FieldsAre
         /\ \/ /\ job.regular # <<>> /\ NextCandidate = Head(job.regular)
               /\ NextCandidate \in SelectedAs(job.decision, FALSE)
               /\ Tail(job.regular) \in Seq(SelectedAs(job.decision, FALSE))
               /\ Distinct(Tail(job.regular))
               /\ Members(job.regular) = {NextCandidate} \union Members(Tail(job.regular))
               /\ NextCandidate \notin Members(Tail(job.regular))
               /\ NextCandidate \notin Sources
            \/ /\ job.regular = <<>> /\ ~PrimarySucceeded /\ job.fallbacks # <<>>
               /\ NextCandidate = Head(job.fallbacks)
               /\ NextCandidate \in SelectedAs(job.decision, TRUE)
               /\ Tail(job.fallbacks) \in Seq(SelectedAs(job.decision, TRUE))
               /\ Members(job.fallbacks) = {NextCandidate} \union Members(Tail(job.fallbacks))
  <1>1. InTurn /\ Accounted /\ job.phase = "fetching" /\ FieldsAre /\ Candidates # <<>>
    BY FieldsOfTyped DEF FetchInv, Asks, Typed
  <1>2. CASE job.regular # <<>>
    <2>1. NextCandidate = Head(job.regular)
      BY <1>2 DEF NextCandidate, Candidates
    <2>2. job.regular \in Seq(SelectedAs(job.decision, FALSE)) /\ Distinct(job.regular)
          /\ Sources \cap Members(job.regular) = {}
      BY <1>1 DEF InTurn
    <2>3. /\ Head(job.regular) \in SelectedAs(job.decision, FALSE)
          /\ Tail(job.regular) \in Seq(SelectedAs(job.decision, FALSE))
          /\ Distinct(Tail(job.regular))
          /\ Members(job.regular) = {Head(job.regular)} \union Members(Tail(job.regular))
          /\ Head(job.regular) \notin Members(Tail(job.regular))
      BY <1>2, <2>2, HeadAndTail
    <2> QED
      BY <1>1, <1>2, <2>1, <2>2, <2>3
  <1>3. CASE job.regular = <<>>
    <2>1. ~PrimarySucceeded /\ job.fallbacks # <<>> /\ NextCandidate = Head(job.fallbacks)
      BY <1>1, <1>3 DEF NextCandidate, Candidates
    <2>2. job.fallbacks \in Seq(SelectedAs(job.decision, TRUE))
      BY <1>1 DEF InTurn
    <2> QED
      BY <1>1, <1>3, <2>1, <2>2, HeadAndTail
  <1> QED
    BY <1>2, <1>3

\* A source that fails is one of the failures, and not asked again.
LEMMA FailFetches ==
  ASSUME FetchInv, SourceUnbuilt \/ SourceFails
  PROVE  FetchInv'
  <1>1. Asks /\ CandidateFails /\ UNCHANGED checkVars
    BY DEF SourceUnbuilt, SourceFails
  <1>2. /\ InTurn /\ Accounted /\ job.phase = "fetching" /\ FieldsAre /\ Typed
        /\ UNCHANGED <<clock, registry>>
    BY <1>1, CandidateIs DEF FetchInv, checkVars
  <1>3. /\ DOMAIN job' = DOMAIN job /\ job'.phase = "fetching" /\ job'.values = job.values
        /\ job'.decision = job.decision
        /\ job'.failures = job.failures \union {NextCandidate}
        /\ job.regular # <<>> => job'.regular = Tail(job.regular) /\ job'.fallbacks = job.fallbacks
        /\ job.regular = <<>> => job'.regular = <<>> /\ job'.fallbacks = Tail(job.fallbacks)
    BY <1>1, <1>2 DEF CandidateFails, Advanced, FieldsAre
  <1>4. Typed'
    BY <1>2, <1>3 DEF Typed
  <1>5. Sources' = Sources /\ \A role : ValuesWith(role)' = ValuesWith(role)
    BY <1>3 DEF Sources, ValuesWith
  <1>6. NextCandidate \in Selected(job.decision)
    BY <1>1, CandidateIs DEF SelectedAs
  <1>7. CASE job.regular # <<>>
    <2>1. /\ NextCandidate \in SelectedAs(job.decision, FALSE)
          /\ Tail(job.regular) \in Seq(SelectedAs(job.decision, FALSE))
          /\ Distinct(Tail(job.regular))
          /\ Members(job.regular) = {NextCandidate} \union Members(Tail(job.regular))
      BY <1>1, <1>7, CandidateIs
    <2>2. InTurn'
      BY <1>2, <1>3, <1>5, <1>7, <2>1, ZenonT(60) DEF InTurn
    <2>3. Accounted'
      BY <1>2, <1>3, <1>5, <1>6, <1>7, <2>1 DEF Accounted
    <2> QED
      BY <1>4, <2>2, <2>3 DEF FetchInv
  <1>8. CASE job.regular = <<>>
    <2>1. /\ NextCandidate \in SelectedAs(job.decision, TRUE) /\ job.fallbacks # <<>>
          /\ Tail(job.fallbacks) \in Seq(SelectedAs(job.decision, TRUE))
          /\ Members(job.fallbacks) = {NextCandidate} \union Members(Tail(job.fallbacks))
      BY <1>1, <1>8, CandidateIs
    <2>2. InTurn'
      BY <1>2, <1>3, <1>5, <1>8, <2>1, ZenonT(60) DEF InTurn
    <2>3. Accounted'
      BY <1>2, <1>3, <1>5, <1>6, <1>8, <2>1 DEF Accounted
    <2> QED
      BY <1>4, <2>2, <2>3 DEF FetchInv
  <1> QED
    BY <1>7, <1>8

\* What an adapter answers becomes a value, available from now on.
LEMMA EnvelopeIs ==
  ASSUME FetchInv, Asks, NEW series \in Series
  PROVE  LET v == Envelope(series)
         IN /\ v \in Values /\ v.source = NextCandidate
            /\ v.role = job.decision[NextCandidate] /\ v.available = clock
  <1>1. series \in [lag : Nat, count : Nat, trend : Int, risk : Nat]
    BY SeriesAssumption
  <1>2. clock \in Nat
    BY ClockAssumption DEF FetchInv, Typed
  <1>3. NextCandidate \in Selected(job.decision)
    BY CandidateIs DEF SelectedAs
  <1>4. NextCandidate \in Providers /\ job.decision[NextCandidate] \in SourceRoles
    <2>1. job.decision \in [Providers -> Given]
      BY CandidateIs DEF InTurn, Decides
    <2> QED
      BY <1>3, <2>1 DEF Selected, Given
  <1> QED
    BY <1>1, <1>2, <1>4 DEF Envelope, Values

\* A source that answers adds a value; a fallback ends what is asked.
LEMMA AnswerFetches ==
  ASSUME FetchInv, NEW series \in Series, SourceAnswers(series)
  PROVE  FetchInv'
  <1> DEFINE v == Envelope(series)
             n == Len(job.values) + 1
  <1>1. Asks /\ job' = [Advanced(TRUE) EXCEPT !.values = Append(@, v)] /\ UNCHANGED <<clock, registry>>
    BY DEF SourceAnswers, Become, checkVars
  <1>2. InTurn /\ Accounted /\ job.phase = "fetching" /\ FieldsAre /\ Typed
    BY <1>1, CandidateIs DEF FetchInv
  <1>3. /\ v \in Values /\ v.source = NextCandidate
        /\ v.role = job.decision[NextCandidate] /\ v.available = clock
    BY <1>1, EnvelopeIs
  <1> HIDE DEF v
  <1>4. /\ DOMAIN job' = DOMAIN job /\ job'.phase = "fetching"
        /\ job'.values = Append(job.values, v)
        /\ job'.decision = job.decision /\ job'.failures = job.failures
        /\ job.regular # <<>> => job'.regular = Tail(job.regular) /\ job'.fallbacks = job.fallbacks
        /\ job.regular = <<>> => job'.regular = <<>> /\ job'.fallbacks = <<>>
    BY <1>1, <1>2 DEF Advanced, FieldsAre
  <1>5. /\ job'.values \in Seq(Values) /\ DOMAIN job'.values = DOMAIN job.values \union {n}
        /\ n \notin DOMAIN job.values /\ job'.values[n] = v
        /\ \A i \in DOMAIN job.values : job'.values[i] = job.values[i]
    <2>1. job.values \in Seq(Values)
      BY <1>2 DEF Typed
    <2> QED
      BY <1>3, <1>4, <2>1, Appended
  <1> HIDE DEF n
  <1>6. Typed'
    BY <1>1, <1>2, <1>4, <1>5 DEF Typed
  <1>7. Sources' = Sources \union {NextCandidate}
    BY <1>3, <1>5 DEF Sources
  <1>8. /\ \A role : ValuesWith(role) \subseteq ValuesWith(role)'
        /\ \A role : ValuesWith(role)' \subseteq ValuesWith(role) \union {n}
        /\ \A role : n \in ValuesWith(role)' <=> v.role = role
    BY <1>5 DEF ValuesWith
  <1>9. NextCandidate \in Selected(job.decision)
    BY <1>1, CandidateIs DEF SelectedAs
  <1>10. CASE job.regular # <<>>
    <2>1. /\ NextCandidate \in SelectedAs(job.decision, FALSE)
          /\ Tail(job.regular) \in Seq(SelectedAs(job.decision, FALSE))
          /\ Distinct(Tail(job.regular))
          /\ Members(job.regular) = {NextCandidate} \union Members(Tail(job.regular))
          /\ NextCandidate \notin Members(Tail(job.regular))
          /\ NextCandidate \notin Sources
      BY <1>1, <1>10, CandidateIs
    <2>2. v.role # "fallback"
      BY <1>3, <2>1 DEF SelectedAs
    <2>3. \A i \in DOMAIN job'.values :
            /\ job'.values[i].source \in Selected(job.decision)
            /\ job'.values[i].role = job.decision[job'.values[i].source]
      BY <1>2, <1>3, <1>5, <1>9 DEF InTurn
    <2>4. \A i, j \in DOMAIN job'.values :
            i # j /\ job'.values[i].role # "fallback" => job'.values[i].source # job'.values[j].source
      <3>1. \A i \in DOMAIN job.values : job.values[i].source # v.source
        BY <1>3, <2>1 DEF Sources
      <3>2. \A i, j \in DOMAIN job.values :
              i # j /\ job.values[i].role # "fallback" => job.values[i].source # job.values[j].source
        BY <1>2 DEF InTurn
      <3> QED
        BY <1>5, <3>1, <3>2
    <2>5. InTurn'
      <3>1. Sources' \cap Members(Tail(job.regular)) = {}
        BY <1>2, <1>7, <2>1 DEF InTurn
      <3>2. Members(job.regular)' = Members(Tail(job.regular))
        BY <1>4, <1>10 DEF Members
      <3> QED
        BY <1>1, <1>2, <1>4, <1>10, <2>1, <2>3, <2>4, <3>1, <3>2 DEF InTurn
    <2>6. ValuesWith("fallback") = {} /\ ValuesWith("fallback")' = {}
      <3>1. ValuesWith("fallback") = {}
        BY <1>2, <1>10 DEF Accounted
      <3> QED
        BY <1>8, <2>2, <3>1
    <2>7. Accounted'
      BY <1>2, <1>4, <1>7, <1>10, <2>1, <2>6 DEF Accounted
    <2> QED
      BY <1>6, <2>5, <2>7 DEF FetchInv
  <1>11. CASE job.regular = <<>>
    <2>1. NextCandidate \in SelectedAs(job.decision, TRUE) /\ job.fallbacks # <<>> /\ ~PrimarySucceeded
      BY <1>1, <1>11, CandidateIs
    <2>2. v.role = "fallback"
      BY <1>3, <2>1 DEF SelectedAs
    <2>3. \A i \in DOMAIN job'.values :
            /\ job'.values[i].source \in Selected(job.decision)
            /\ job'.values[i].role = job.decision[job'.values[i].source]
      BY <1>2, <1>3, <1>5, <1>9 DEF InTurn
    <2>4. \A i, j \in DOMAIN job'.values :
            i # j /\ job'.values[i].role # "fallback" => job'.values[i].source # job'.values[j].source
      <3>1. ASSUME NEW i \in DOMAIN job.values, job.values[i].role # "fallback"
            PROVE  job.values[i].source # v.source
        <4>1. job.values[i].role = job.decision[job.values[i].source]
          BY <1>2 DEF InTurn
        <4> QED
          BY <1>3, <2>2, <3>1, <4>1
      <3>2. \A i, j \in DOMAIN job.values :
              i # j /\ job.values[i].role # "fallback" => job.values[i].source # job.values[j].source
        BY <1>2 DEF InTurn
      <3> QED
        BY <1>5, <2>2, <3>1, <3>2
    <2>5. InTurn'
      <3>1. <<>> \in Seq(SelectedAs(job.decision, FALSE)) /\ <<>> \in Seq(SelectedAs(job.decision, TRUE))
            /\ Distinct(<<>>) /\ Members(<<>>) = {}
        BY DEF Distinct, Members
      <3> QED
        BY <1>1, <1>2, <1>4, <1>11, <2>3, <2>4, <3>1 DEF InTurn
    <2>6. ValuesWith("fallback") = {} /\ ValuesWith("primary") = {}
      <3>1. ValuesWith("primary") = {}
        BY <2>1 DEF PrimarySucceeded, ValuesWith
      <3> QED
        BY <1>2, <2>1, <3>1 DEF Accounted
    <2>7. ValuesWith("fallback")' = {n} /\ ValuesWith("primary")' = {}
      <3>1. v.role # "primary"
        BY <2>2
      <3> QED
        BY <1>8, <2>2, <2>6, <3>1
    <2>8. \A p \in SelectedAs(job.decision, FALSE) : p \in job.failures \union Sources
      <3>1. Members(job.regular) = {}
        BY <1>11 DEF Members
      <3> QED
        BY <1>2, <3>1 DEF Accounted
    <2>9. Accounted'
      BY <1>2, <1>4, <1>7, <1>11, <2>7, <2>8 DEF Accounted
    <2> QED
      BY <1>6, <2>5, <2>9 DEF FetchInv
  <1> QED
    BY <1>10, <1>11

\* At first no run was started.
LEMMA TypedInit ==
  Init => Typed /\ job.phase = "new"
  <1> SUFFICES ASSUME Init PROVE Typed /\ job.phase = "new"
    OBVIOUS
  <1>1. clock = 0 /\ registry \in Registries /\ job = NoRun
    BY DEF Init, CheckInit
  <1>2. job.phase = "new" /\ job.values = <<>>
    BY <1>1 DEF NoRun
  <1> QED
    BY <1>1, <1>2, ClockAssumption DEF Typed

\* What is no step of the run leaves the run alone, and the registry.
LEMMA Beside ==
  ASSUME clock \in 0..MaxClock, [Next]_vars
  PROVE  /\ UNCHANGED registry /\ clock' \in 0..MaxClock /\ clock <= clock'
         /\ (Run /\ UNCHANGED clock) \/ UNCHANGED job
  <1>1. clock \in Nat /\ MaxClock \in Nat
    BY ClockAssumption
  <1>2. CASE Run
    BY <1>1, <1>2, RunApart
  <1>3. CASE Tick /\ UNCHANGED job
    BY <1>1, <1>3 DEF Tick
  <1>4. CASE (\E c \in Checkers : Check(c)) /\ UNCHANGED job
    <2>1. ASSUME NEW c \in Checkers, Check(c)
          PROVE  UNCHANGED <<clock, registry>>
      BY <2>1 DEF Check, BeginCheck, NotConstructed, HealthAnswers, HealthFails,
           HealthKnown, HealthEscapes, SaveStatus, SaveRefused, CheckReturns, Step, Change
    <2> QED
      BY <1>1, <1>4, <2>1
  <1>5. CASE UNCHANGED vars
    BY <1>1, <1>5 DEF vars, checkVars
  <1> QED
    BY <1>2, <1>3, <1>4, <1>5 DEF Next

\* What holds of the sources asked goes on to hold.
LEMMA FetchNext ==
  FetchInv /\ [Next]_vars => FetchInv'
  <1> SUFFICES ASSUME FetchInv, [Next]_vars PROVE FetchInv'
    OBVIOUS
  <1>1. Typed
    BY DEF FetchInv
  <1>2. /\ UNCHANGED registry /\ clock' \in 0..MaxClock
        /\ Run \/ UNCHANGED job
    BY <1>1, Beside DEF Typed
  <1>3. CASE UNCHANGED job
    <2>1. Typed'
      BY <1>1, <1>2, <1>3 DEF Typed
    <2>2. Sources' = Sources /\ \A role : ValuesWith(role)' = ValuesWith(role)
      BY <1>3 DEF Sources, ValuesWith
    <2>3. InTurn => InTurn'
      BY <1>2, <1>3, <2>2 DEF InTurn
    <2>4. Accounted => Accounted'
      BY <1>3, <2>2 DEF Accounted
    <2> QED
      BY <1>3, <2>1, <2>3, <2>4 DEF FetchInv
  <1>4. CASE Run /\ Settles
    BY <1>1, <1>2, <1>4 DEF Settles, Typed, FetchInv
  <1>5. CASE Run /\ ~Settles
    BY <1>1, <1>5, RunSteps, RouteFetches, FailFetches, AnswerFetches
  <1> QED
    BY <1>2, <1>3, <1>4, <1>5

\* Sources that corroborate each other are from different independence groups,
\* however the registry, the saved statuses and the answers are
\* (SourceRouter.route and execute).
THEOREM MarketCrossChecksIndependent == Spec => []CrossChecksIndependent
  <1>1. Init => FetchInv
    BY TypedInit DEF FetchInv
  <1>2. FetchInv => CrossChecksIndependent
    <2> SUFFICES ASSUME FetchInv,
                        NEW i \in ValuesWith("primary") \union ValuesWith("cross_check"),
                        NEW j \in ValuesWith("primary") \union ValuesWith("cross_check"),
                        i # j
                 PROVE  Group(i) # Group(j)
      BY DEF CrossChecksIndependent
    <2>1. /\ i \in DOMAIN job.values /\ job.values[i].role \in Corroborates
          /\ j \in DOMAIN job.values /\ job.values[j].role \in Corroborates
      BY DEF ValuesWith, Corroborates
    <2>2. job.phase = "fetching"
      <3>1. job.values # <<>>
        BY <2>1
      <3> QED
        BY <3>1 DEF FetchInv, Typed
    <2>3. InTurn
      BY <2>2 DEF FetchInv
    <2>4. job.values[i].role # "fallback"
      BY <2>1 DEF Corroborates
    <2>5. /\ job.values[i].source # job.values[j].source
          /\ job.values[i].source \in Providers /\ job.values[j].source \in Providers
          /\ job.decision[job.values[i].source] \in Corroborates
          /\ job.decision[job.values[j].source] \in Corroborates
      BY <2>1, <2>3, <2>4 DEF InTurn, Selected
    <2> QED
      BY <2>3, <2>5 DEF InTurn, Decides, Group
  <1> QED
    BY <1>1, <1>2, FetchNext, PTL DEF Spec

\* A fallback answers only for a primary that did not, and alone; an asset is
\* without primary and fallback only after every fallback failed, and without
\* any value only after all that was selected failed (SourceRouter.execute).
THEOREM MarketFallbackSpent == Spec => []FallbackSpent
  <1>1. Init => FetchInv
    BY TypedInit DEF FetchInv
  <1>2. FetchInv => FallbackSpent
    <2> SUFFICES ASSUME FetchInv PROVE FallbackSpent
      OBVIOUS
    <2>1. CASE job.phase # "fetching"
      <3>1. job.values = <<>>
        BY <2>1 DEF FetchInv, Typed
      <3>2. ValuesWith("fallback") = {}
        BY <3>1 DEF ValuesWith
      <3> QED
        BY <2>1, <3>2 DEF FallbackSpent, Spent
    <2>2. CASE job.phase = "fetching"
      <3>1. InTurn /\ Accounted
        BY <2>2 DEF FetchInv
      <3>2. ASSUME ValuesWith("fallback") # {}
            PROVE  ValuesWith("primary") = {} /\ Cardinality(ValuesWith("fallback")) = 1
        <4>1. PICK i \in ValuesWith("fallback") : TRUE
          BY <3>2
        <4>2. ValuesWith("fallback") = {i}
          BY <3>1, <4>1 DEF Accounted
        <4>3. Cardinality({i}) = 1
          BY FS_Singleton
        <4> QED
          BY <3>1, <3>2, <4>2, <4>3 DEF Accounted
      <3>3. ASSUME Spent, ValuesWith("primary") = {}
            PROVE  Members(job.regular) = {} /\ Members(job.fallbacks) = {}
        <4>1. ~PrimarySucceeded
          BY <3>3 DEF ValuesWith, PrimarySucceeded
        <4>2. job.regular = <<>> /\ job.fallbacks = <<>>
          BY <3>3, <4>1 DEF Spent, Candidates
        <4> QED
          BY <4>2 DEF Members
      <3>4. ASSUME Spent, ValuesWith("primary") \union ValuesWith("fallback") = {}
            PROVE  {p \in Selected(job.decision) : job.decision[p] = "fallback"} \subseteq job.failures
        <4>1. ValuesWith("primary") = {} /\ ValuesWith("fallback") = {}
          BY <3>4
        <4>2. SelectedAs(job.decision, TRUE) \subseteq job.failures
          BY <3>1, <3>3, <3>4, <4>1 DEF Accounted
        <4> QED
          BY <4>2 DEF SelectedAs
      <3>5. ASSUME Spent, ~AnyValue
            PROVE  Selected(job.decision) = job.failures
        <4>1. job.values = <<>>
          BY <3>5 DEF AnyValue
        <4>2. ValuesWith("primary") = {} /\ ValuesWith("fallback") = {} /\ Sources = {}
          BY <4>1 DEF ValuesWith, Sources
        <4>3. /\ SelectedAs(job.decision, TRUE) \subseteq job.failures
              /\ SelectedAs(job.decision, FALSE) \subseteq job.failures
          BY <3>1, <3>3, <3>5, <4>2 DEF Accounted
        <4>4. Selected(job.decision) \subseteq job.failures
          BY <4>3 DEF SelectedAs
        <4> QED
          BY <3>1, <4>4 DEF Accounted
      <3> QED
        BY <3>2, <3>4, <3>5 DEF FallbackSpent
    <2> QED
      BY <2>1, <2>2
  <1> QED
    BY <1>1, <1>2, FetchNext, PTL DEF Spec

-----------------------------------------------------------------------------
(* The cutoffs of the crypto workflow.                                     *)

\* A basis stays timely as time passes.
LEMMA StaysTimely ==
  ASSUME NEW basis, Timely(basis), clock \in Nat, clock' \in Nat, clock <= clock'
  PROVE  Timely(basis)'
  <1> SUFFICES ASSUME NEW b, Timely(b)
               PROVE  /\ b \in Seq(CryptoBases)
                      /\ \A i \in DOMAIN b :
                           /\ b[i].available <= b[i].cutoff /\ b[i].cutoff <= clock'
                           /\ b[i].cutoff - b[i].observed <= StaleAfter
                           /\ \A j \in 1..i - 1 : b[j].cutoff <= b[i].available
    BY DEF Timely
  <1>1. ASSUME NEW i \in DOMAIN b
        PROVE  b[i].cutoff <= clock'
    <2>1. b[i] \in CryptoBases /\ b[i].cutoff <= clock
      BY DEF Timely
    <2> QED
      BY <2>1 DEF CryptoBases
  <1> QED
    BY <1>1 DEF Timely

\* What a crypto collection may find wrong is no evidence from the future: the
\* cutoff is read after the last source has answered.
LEMMA NoLookAhead ==
  ASSUME Typed, \A i \in DOMAIN job.values : job.values[i].available <= clock,
         job.workflow = "crypto"
  PROVE  /\ FirstProblem # "look_ahead"
         /\ FirstProblem = None /\ AnyValue =>
              clock - job.values[1].observed <= StaleAfter
  <1> DEFINE wrong == {i \in DOMAIN job.values : Problem(i) # None}
             first == CHOOSE i \in wrong : \A j \in wrong : i <= j
  <1>1. /\ clock \in Nat /\ job.values \in Seq(Values) /\ Cutoff = clock
        /\ DOMAIN job.values \in SUBSET Nat
    <2>1. job.values \in Seq(Values)
      BY DEF Typed
    <2>2. DOMAIN job.values \in SUBSET Nat
      BY <2>1
    <2> QED
      BY <2>1, <2>2, ClockAssumption DEF Typed, Cutoff
  <1>2. ASSUME NEW i \in DOMAIN job.values
        PROVE  /\ Problem(i) # "look_ahead"
               /\ Problem(i) = None => clock - job.values[i].observed <= StaleAfter
    <2>1. job.values[i] \in Values /\ job.values[i].available <= Cutoff
      BY <1>1
    <2>2. job.values[i].observed \in Int /\ job.values[i].available \in Nat
      BY <2>1 DEF Values
    <2>3. ~IsStale(job.values[i]) => clock - job.values[i].observed <= StaleAfter
      BY <1>1, <2>2, AgeAssumption DEF IsStale
    <2>4. ~(job.values[i].available > Cutoff)
      BY <1>1, <2>1, <2>2
    <2>5. "stale" # None /\ "look_ahead" # None /\ "invalid" # None
      BY NoProblemAssumption
    <2>6. IsStale(job.values[i]) => Problem(i) = "stale"
      BY DEF Problem
    <2>7. ~IsStale(job.values[i]) => Problem(i) \in {"invalid", None}
      BY <2>4 DEF Problem
    <2> QED
      BY <2>3, <2>5, <2>6, <2>7
  <1>3. wrong # {} => first \in wrong
    <2>1. wrong \in SUBSET Nat
      BY <1>1
    <2>2. wrong # {} => \E m \in wrong : \A j \in wrong : m <= j
      BY <2>1, Least
    <2> HIDE DEF wrong
    <2> QED
      BY <2>2
  <1>4. FirstProblem = IF wrong = {} THEN None ELSE Problem(first)
    <2>1. job.workflow # "allocation"
      OBVIOUS
    <2> QED
      BY <2>1 DEF FirstProblem
  <1> HIDE DEF first
  <1>5. FirstProblem # "look_ahead"
    BY <1>2, <1>3, <1>4, NoProblemAssumption
  <1>6. FirstProblem = None => wrong = {}
    BY <1>3, <1>4
  <1>7. AnyValue => 1 \in DOMAIN job.values
    BY <1>1 DEF AnyValue
  <1> QED
    BY <1>2, <1>5, <1>6, <1>7

\* Steps that add neither a value nor a basis, and issue no signal.
Keeps ==
  /\ job'.workflow = job.workflow /\ job'.collections = job.collections
  /\ job'.profile = job.profile /\ job'.signal = job.signal
  /\ job.phase \notin {"new", "finalized"}
  /\ job'.basis \in {job.basis, <<>>} /\ job'.values \in {job.values, <<>>}
  /\ job'.failure \in {job.failure, None, "no_evidence", "invalid"}
  /\ job'.phase \notin {"asked", "collecting", "proposing"}
  /\ job'.phase \in {"routing", "fetching"} =>
       \/ job'.basis = <<>>
       \/ job'.basis = job.basis /\ job.phase \in {"routing", "fetching"}

\* The steps of a run that matter to its basis, its collections and its signal.
LEMMA RunKeeps ==
  ASSUME Typed, Run
  PROVE  \/ Keeps
         \/ \E request \in Requests : Started(request)
         \/ \E series \in Series : SourceAnswers(series)
         \/ Judge \/ Reject \/ CryptoCollected \/ Proposed
         \/ FinalizeCrypto \/ FinalizeAllocation
  <1>1. FieldsAre
    BY FieldsOfTyped DEF Typed
  <1>2. /\ DOMAIN Cleared = DOMAIN job /\ Cleared.values = <<>> /\ Cleared.basis = <<>>
        /\ Cleared.workflow = job.workflow /\ Cleared.collections = job.collections
        /\ Cleared.signal = job.signal /\ Cleared.failure = job.failure
        /\ Cleared.profile = job.profile
    BY <1>1 DEF Cleared, FieldsAre
  <1>3. CASE Collect
    <2>1. job.phase = "ready" /\ job'.phase = "routing" /\ job'.basis = <<>>
      BY <1>1, <1>3 DEF Collect, Become, FieldsAre
    <2>2. /\ job'.workflow = job.workflow /\ job'.collections = job.collections
          /\ job'.signal = job.signal /\ job'.values = job.values /\ job'.failure = job.failure
          /\ job'.profile = job.profile
      BY <1>1, <1>3 DEF Collect, Become, FieldsAre
    <2> QED
      BY <2>1, <2>2 DEF Keeps
  <1>4. CASE RouteAsset
    <2>1. ASSUME NEW d, job' = [job EXCEPT !.phase = "fetching", !.decision = d,
                   !.regular = Regular(d), !.fallbacks = Fallbacks(d), !.values = <<>>, !.failures = {}],
                 job.phase = "routing"
          PROVE  Keeps
      BY <1>1, <2>1 DEF Keeps, FieldsAre
    <2> QED
      BY <1>4, <2>1 DEF RouteAsset, Become
  <1>5. CASE SourceUnbuilt \/ SourceFails
    BY <1>1, <1>5 DEF SourceUnbuilt, SourceFails, CandidateFails, Advanced, Asks, Keeps, FieldsAre
  <1>6. CASE SourceEscapes \/ InputLacking \/ Interrupt
    BY <1>1, <1>2, <1>6 DEF SourceEscapes, InputLacking, Interrupt, Stop, Become, Asks, Keeps, FieldsAre
  <1>7. CASE NoValue \/ ProposalRefused
    BY <1>1, <1>2, <1>7, ZenonT(60) DEF NoValue, ProposalRefused, Fail, Become, Keeps, FieldsAre
  <1>8. CASE CollectMore \/ WeightsRefused
    BY <1>1, <1>8 DEF CollectMore, WeightsRefused, Become, Commanded, Keeps, FieldsAre
  <1>9. CASE Resume
    BY <1>1, <1>9 DEF Resume, Commanded, Keeps, FieldsAre
  <1> QED
    BY <1>3, <1>4, <1>5, <1>6, <1>7, <1>8, <1>9 DEF Run, StartCrypto, StartAllocation

\* A basis that is judged now is timely after those judged before.
LEMMA JudgedTimely ==
  ASSUME NEW basis, Timely(basis), clock \in Nat, NEW b \in CryptoBases,
         b.cutoff = clock, b.available <= clock, clock - b.observed <= StaleAfter,
         \A j \in DOMAIN basis : basis[j].cutoff <= b.available
  PROVE  Timely(Append(basis, b))
  <1> DEFINE next == Append(basis, b)
             n == Len(basis) + 1
  <1>1. basis \in Seq(CryptoBases)
    BY DEF Timely
  <1>2. /\ next \in Seq(CryptoBases) /\ DOMAIN next = DOMAIN basis \union {n}
        /\ next[n] = b /\ \A i \in DOMAIN basis : next[i] = basis[i]
        /\ DOMAIN basis = 1..Len(basis) /\ Len(basis) \in Nat
    BY <1>1, Appended
  <1> HIDE DEF next
  <1>3. ASSUME NEW i \in DOMAIN next
        PROVE  /\ next[i].available <= next[i].cutoff /\ next[i].cutoff <= clock
               /\ next[i].cutoff - next[i].observed <= StaleAfter
               /\ \A j \in 1..i - 1 : next[j].cutoff <= next[i].available
    <2>1. CASE i = n
      <3>1. \A j \in 1..i - 1 : j \in DOMAIN basis
        BY <1>2, <2>1
      <3> QED
        BY <1>2, <2>1, <3>1
    <2>2. CASE i \in DOMAIN basis
      <3>1. \A j \in 1..i - 1 : j \in DOMAIN basis
        BY <1>2, <2>2
      <3>2. /\ basis[i].available <= basis[i].cutoff /\ basis[i].cutoff <= clock
            /\ basis[i].cutoff - basis[i].observed <= StaleAfter
            /\ \A j \in 1..i - 1 : basis[j].cutoff <= basis[i].available
        BY <2>2 DEF Timely
      <3> HIDE DEF n
      <3> QED
        BY <1>2, <2>2, <3>1, <3>2
    <2> QED
      BY <1>2, <2>1, <2>2
  <1> QED
    BY <1>2, <1>3 DEF Timely, next

\* What the crypto workflow holds about its cutoffs goes on to hold.
LEMMA CutoffNext ==
  FetchInv /\ CutoffInv /\ [Next]_vars => CutoffInv'
  <1> SUFFICES ASSUME FetchInv, CutoffInv, [Next]_vars PROVE CutoffInv'
    OBVIOUS
  <1>1. Typed /\ Typed' /\ FieldsAre
    <2>1. FetchInv'
      BY FetchNext
    <2>2. Typed /\ Typed'
      BY <2>1 DEF FetchInv
    <2>3. FieldsAre
      BY <2>2, FieldsOfTyped DEF Typed
    <2> QED
      BY <2>2, <2>3
  <1>2. /\ clock \in Nat /\ clock' \in Nat /\ clock <= clock'
        /\ (Run /\ clock' = clock) \/ UNCHANGED job
    BY <1>1, Beside, ClockAssumption DEF Typed
  <1>3. /\ job.signal # None => job.phase = "finalized"
        /\ \A i \in DOMAIN job.values :
             job.values[i].available \in Nat /\ job.values[i].available <= clock
    <2>1. job.values \in Seq(Values)
      BY <1>1 DEF Typed
    <2>2. \A i \in DOMAIN job.values : job.values[i] \in Values
      BY <2>1
    <2> QED
      BY <2>2 DEF CutoffInv, Values
  <1>4. \A basis : Timely(basis) => Timely(basis)'
    BY <1>2, StaysTimely
  <1>5. Timely(<<>>)
    BY DEF Timely
  <1>6. CASE UNCHANGED job
    <2>1. \A i \in DOMAIN job.values : job.values[i].available <= clock'
      BY <1>2, <1>3
    <2> QED
      BY <1>1, <1>4, <1>6, <2>1 DEF CutoffInv
  <1>7. ASSUME clock' = clock, Keeps
        PROVE  CutoffInv'
    <2>1. job.signal = None /\ job'.signal = None
      BY <1>3, <1>7 DEF Keeps
    <2>2. \A i \in DOMAIN job'.values : job'.values[i].available <= clock'
      <3>1. CASE job'.values = job.values
        BY <1>3, <1>7, <3>1
      <3>2. CASE job'.values = <<>>
        BY <3>2
      <3> QED
        BY <1>7, <3>1, <3>2 DEF Keeps
    <2>3. ASSUME job.workflow = "crypto"
          PROVE  /\ job'.failure # "look_ahead"
                 /\ job'.phase # "proposing"
                 /\ job'.phase \in {"routing", "fetching"} => Len(job'.basis) < 2
                 /\ Timely(job.basis)'
                 /\ \A j \in DOMAIN job'.basis, i \in DOMAIN job'.values :
                      job'.basis[j].cutoff <= job'.values[i].available
                 /\ job.collections \in Seq([basis : Seq(CryptoBases), proposal : {None}])
                 /\ \A k \in DOMAIN job.collections : Timely(job.collections[k].basis)
      <3>1. /\ job.failure # "look_ahead" /\ Timely(job.basis)
            /\ job.phase \in {"routing", "fetching"} => Len(job.basis) < 2
            /\ \A j \in DOMAIN job.basis, i \in DOMAIN job.values :
                 job.basis[j].cutoff <= job.values[i].available
            /\ job.collections \in Seq([basis : Seq(CryptoBases), proposal : {None}])
            /\ \A k \in DOMAIN job.collections : Timely(job.collections[k].basis)
        BY <2>3 DEF CutoffInv
      <3>2. job'.failure # "look_ahead" /\ job'.phase # "proposing"
        BY <1>7, <3>1, NoProblemAssumption DEF Keeps
      <3>3. job'.phase \in {"routing", "fetching"} => Len(job'.basis) < 2
        BY <1>7, <3>1 DEF Keeps
      <3>4. Timely(job'.basis)
        BY <1>5, <1>7, <3>1 DEF Keeps
      <3>5. Timely(job.basis)'
        BY <1>7, <3>4 DEF Timely
      <3>6. \A j \in DOMAIN job'.basis, i \in DOMAIN job'.values :
              job'.basis[j].cutoff <= job'.values[i].available
        <4>1. CASE job'.basis = <<>> \/ job'.values = <<>>
          BY <4>1
        <4>2. CASE job'.basis = job.basis /\ job'.values = job.values
          BY <3>1, <4>2
        <4> QED
          BY <1>7, <4>1, <4>2 DEF Keeps
      <3> QED
        BY <3>1, <3>2, <3>3, <3>5, <3>6
    <2>4. job'.workflow = job.workflow /\ job'.collections = job.collections
      BY <1>7 DEF Keeps
    <2> QED
      BY <1>1, <1>4, <2>1, <2>2, <2>3, <2>4 DEF CutoffInv
  <1>8. ASSUME NEW request \in Requests, Started(request)
        PROVE  CutoffInv'
    <2>1. job = NoRun
      BY <1>1, <1>8 DEF Started, Typed
    <2>2. /\ job'.phase \in {"ready", "asked"} /\ job'.values = <<>> /\ job'.signal = None
          /\ job'.failure = None /\ job'.basis = <<>> /\ job'.collections = <<>>
      BY <1>8, <2>1 DEF Started, Commanded, NoRun
    <2>3. Timely(job.basis)'
      BY <2>2 DEF Timely
    <2> QED
      BY <1>1, <2>2, <2>3, NoProblemAssumption DEF CutoffInv
  <1>9. ASSUME clock' = clock, NEW series \in Series, SourceAnswers(series)
        PROVE  CutoffInv'
    <2> DEFINE v == Envelope(series)
               n == Len(job.values) + 1
    <2>1. Asks /\ job' = [Advanced(TRUE) EXCEPT !.values = Append(@, v)]
      BY <1>9 DEF SourceAnswers, Become
    <2>2. v \in Values /\ v.available = clock
      BY <2>1, EnvelopeIs
    <2> HIDE DEF v
    <2>3. /\ job'.values = Append(job.values, v) /\ job'.phase = job.phase
          /\ job'.workflow = job.workflow /\ job'.collections = job.collections
          /\ job'.signal = job.signal /\ job'.failure = job.failure /\ job'.basis = job.basis
      BY <1>1, <2>1 DEF Advanced, FieldsAre
    <2>4. /\ DOMAIN job'.values = DOMAIN job.values \union {n} /\ job'.values[n] = v
          /\ \A i \in DOMAIN job.values : job'.values[i] = job.values[i]
      <3>1. job.values \in Seq(Values)
        BY <1>1 DEF Typed
      <3> QED
        BY <2>2, <2>3, <3>1, Appended
    <2> HIDE DEF n
    <2>5. \A i \in DOMAIN job'.values : job'.values[i].available <= clock'
      BY <1>2, <1>3, <1>9, <2>2, <2>4
    <2>6. ASSUME job.workflow = "crypto"
          PROVE  \A j \in DOMAIN job.basis, i \in DOMAIN job'.values :
                   job.basis[j].cutoff <= job'.values[i].available
      <3>1. \A j \in DOMAIN job.basis : job.basis[j].cutoff <= clock
        BY <2>6 DEF CutoffInv, Timely
      <3>2. \A j \in DOMAIN job.basis, i \in DOMAIN job.values :
              job.basis[j].cutoff <= job.values[i].available
        BY <2>6 DEF CutoffInv
      <3> QED
        BY <2>2, <2>4, <3>1, <3>2
    <2> QED
      BY <1>1, <1>4, <2>3, <2>5, <2>6 DEF CutoffInv
  <1>10. ASSUME clock' = clock, Judge
         PROVE  CutoffInv'
    <2> DEFINE b == CryptoBasis(job.values[1])
               m == IF job.workflow = "crypto" THEN 2 ELSE 3
    <2>1. /\ Fetched /\ FirstProblem = None /\ job.phase = "fetching" /\ AnyValue
          /\ job'.basis = Append(job.basis, Kept(job.values[1])) /\ job'.values = <<>>
          /\ job'.workflow = job.workflow /\ job'.collections = job.collections
          /\ job'.signal = job.signal /\ job'.failure = job.failure
          /\ job'.phase = CASE Len(job'.basis) < AssetCount[job.workflow] -> "routing"
                             [] Len(job'.basis) = AssetCount[job.workflow] /\ job.workflow = "crypto" -> "collecting"
                             [] OTHER -> "proposing"
      BY <1>1, <1>10 DEF Judge, Fetched, Become, FieldsAre
    <2>2. job.signal = None
      BY <1>3, <2>1
    <2>3. ASSUME job.workflow = "crypto"
          PROVE  /\ Timely(job.basis)' /\ job'.phase # "proposing"
                 /\ job'.phase \in {"routing", "fetching"} => Len(job'.basis) < 2
      <3>1. AssetCount[job.workflow] = 2 /\ Kept(job.values[1]) = b /\ Cutoff = clock
        BY <2>3 DEF AssetCount, Kept, Cutoff
      <3>2. /\ job.basis \in Seq(CryptoBases) /\ Len(job.basis) < 2 /\ Timely(job.basis)
            /\ \A j \in DOMAIN job.basis, i \in DOMAIN job.values :
                 job.basis[j].cutoff <= job.values[i].available
        BY <2>1, <2>3 DEF CutoffInv, Timely
      <3>3. 1 \in DOMAIN job.values /\ job.values[1] \in Values
        <4>1. job.values \in Seq(Values) /\ job.values # <<>>
          BY <1>1, <2>1 DEF Typed, AnyValue
        <4> QED
          BY <4>1
      <3>4. clock - job.values[1].observed <= StaleAfter
        BY <1>1, <1>3, <2>1, <2>3, NoLookAhead
      <3>5. /\ b \in CryptoBases /\ b.cutoff = clock /\ b.available = job.values[1].available
            /\ b.observed = job.values[1].observed
        BY <1>2, <3>1, <3>3 DEF CryptoBasis, CryptoBases, Values
      <3> HIDE DEF b
      <3>6. Timely(Append(job.basis, b))
        BY <1>2, <1>3, <3>2, <3>3, <3>4, <3>5, JudgedTimely
      <3>7. job'.basis = Append(job.basis, b) /\ Len(job'.basis) = Len(job.basis) + 1 /\ Len(job.basis) \in Nat
        BY <2>1, <3>1, <3>2, <3>5
      <3>8. Timely(job.basis)'
        BY <1>10, <3>6, <3>7 DEF Timely
      <3>9. /\ Len(job'.basis) < 2 \/ Len(job'.basis) = 2
            /\ Len(job'.basis) < 2 => job'.phase = "routing"
            /\ Len(job'.basis) = 2 => job'.phase = "collecting"
        BY <2>1, <2>3, <3>1, <3>2, <3>7
      <3> QED
        BY <3>8, <3>9
    <2> QED
      BY <1>1, <1>4, <2>1, <2>2, <2>3 DEF CutoffInv
  <1>11. ASSUME clock' = clock, Reject
         PROVE  CutoffInv'
    <2>1. /\ job.phase = "fetching" /\ job'.phase = "failed" /\ job'.failure = FirstProblem
          /\ job'.values = <<>> /\ job'.basis = <<>> /\ job'.workflow = job.workflow
          /\ job'.collections = job.collections /\ job'.signal = job.signal
      BY <1>1, <1>11 DEF Reject, Fetched, Fail, Cleared, Become, FieldsAre
    <2>2. job.workflow = "crypto" => job'.failure # "look_ahead"
      BY <1>1, <1>3, <2>1, NoLookAhead
    <2>3. job.signal = None /\ Timely(job.basis)'
      BY <1>3, <2>1 DEF Timely
    <2> QED
      BY <1>1, <1>4, <2>1, <2>2, <2>3 DEF CutoffInv
  <1>12. ASSUME clock' = clock, NEW proposal, Checkpoint(proposal),
                job.phase \in {"collecting", "proposing"},
                job.workflow = "crypto" => proposal = None
         PROVE  CutoffInv'
    <2> DEFINE entry == [basis |-> job.basis, proposal |-> proposal]
    <2>1. /\ job'.phase = "collected" /\ job'.failure = job.failure
          /\ job'.values = <<>> /\ job'.basis = <<>> /\ job'.workflow = job.workflow
          /\ job'.collections = Append(job.collections, entry) /\ job'.signal = job.signal
      BY <1>1, <1>12 DEF Checkpoint, Cleared, Become, FieldsAre
    <2>2. job.signal = None /\ Timely(job.basis)'
      BY <1>3, <1>12, <2>1 DEF Timely
    <2>3. ASSUME job.workflow = "crypto"
          PROVE  /\ job'.failure # "look_ahead"
                 /\ job'.collections \in Seq([basis : Seq(CryptoBases), proposal : {None}])
                 /\ \A k \in DOMAIN job'.collections : Timely(job'.collections[k].basis)
      <3>1. /\ job.failure # "look_ahead" /\ Timely(job.basis)
            /\ job.collections \in Seq([basis : Seq(CryptoBases), proposal : {None}])
            /\ \A k \in DOMAIN job.collections : Timely(job.collections[k].basis)
        BY <2>3 DEF CutoffInv
      <3>2. entry \in [basis : Seq(CryptoBases), proposal : {None}] /\ entry.basis = job.basis
        BY <1>12, <2>3, <3>1 DEF Timely
      <3> HIDE DEF entry
      <3>3. /\ job'.collections \in Seq([basis : Seq(CryptoBases), proposal : {None}])
            /\ DOMAIN job'.collections = DOMAIN job.collections \union {Len(job.collections) + 1}
            /\ job'.collections[Len(job.collections) + 1] = entry
            /\ \A k \in DOMAIN job.collections : job'.collections[k] = job.collections[k]
        BY <2>1, <3>1, <3>2, Appended
      <3> QED
        BY <2>1, <3>1, <3>2, <3>3
    <2>4. ASSUME job.workflow = "crypto", NEW k \in DOMAIN job'.collections
          PROVE  Timely(job.collections[k].basis)'
      <3>1. Timely(job'.collections[k].basis)
        BY <2>3, <2>4
      <3> QED
        BY <1>12, <3>1 DEF Timely
    <2> QED
      BY <1>1, <2>1, <2>2, <2>3, <2>4 DEF CutoffInv
  <1>13. CASE clock' = clock /\ CryptoCollected
    BY <1>12, <1>13 DEF CryptoCollected
  <1>14. CASE clock' = clock /\ Proposed
    <2>1. job.workflow # "crypto"
      BY <1>14 DEF Proposed, CutoffInv
    <2> QED
      BY <1>12, <1>14, <2>1 DEF Proposed
  <1>15. CASE clock' = clock /\ FinalizeCrypto
    <2>1. /\ job'.phase = "finalized" /\ job'.signal.issued = clock /\ job'.failure = job.failure
          /\ job'.values = job.values /\ job'.basis = job.basis /\ job'.workflow = job.workflow
          /\ job'.collections = job.collections
      BY <1>1, <1>15 DEF FinalizeCrypto, Become, FieldsAre
    <2>2. ASSUME job.workflow = "crypto", NEW k \in DOMAIN job.collections,
                 NEW i \in DOMAIN job.collections[k].basis
          PROVE  job.collections[k].basis[i].cutoff <= clock
      BY <2>2 DEF CutoffInv, Timely
    <2> QED
      BY <1>1, <1>4, <1>15, <2>1, <2>2 DEF CutoffInv
  <1>16. CASE clock' = clock /\ FinalizeAllocation
    <2>1. /\ job'.phase = "finalized" /\ job.workflow = "allocation"
          /\ job'.values = job.values /\ job'.workflow = job.workflow
      BY <1>1, <1>16 DEF FinalizeAllocation, Become, FieldsAre
    <2> QED
      BY <1>1, <1>16, <2>1 DEF CutoffInv
  <1> QED
    BY <1>1, <1>2, <1>6, <1>7, <1>8, <1>9, <1>10, <1>11, <1>13, <1>14, <1>15, <1>16, RunKeeps

\* The crypto workflow is never refused for evidence from the future, rests on
\* observations that were fresh at a cutoff that no later asset precedes, and
\* issues its signal after every cutoff (crypto_market_timing.py: collect,
\* finalize), for any delays, statuses and interruptions.
THEOREM MarketCryptoCutoffSound == Spec => []CryptoCutoffSound
  <1>1. Init => FetchInv /\ CutoffInv
    <2> SUFFICES ASSUME Init PROVE FetchInv /\ CutoffInv
      OBVIOUS
    <2>1. Typed /\ job.phase = "new" /\ job = NoRun
      BY TypedInit DEF Init
    <2>2. job.signal = None /\ job.values = <<>> /\ job.workflow = None /\ job.failure = None
          /\ job.basis = <<>> /\ job.collections = <<>>
      BY <2>1 DEF NoRun
    <2>3. Timely(job.basis)
      BY <2>2 DEF Timely
    <2> QED
      BY <2>1, <2>2, <2>3, NoProblemAssumption DEF FetchInv, CutoffInv
  <1>2. FetchInv /\ CutoffInv => CryptoCutoffSound
    BY DEF CutoffInv, Timely, CryptoCutoffSound
  <1> QED
    BY <1>1, <1>2, FetchNext, CutoffNext, PTL DEF Spec

-----------------------------------------------------------------------------
(* Weights for three candidates.                                           *)

Places == 1..3

\* What the i-th of three counts for among those of S.
PartOf(f, S, i) == IF i \in S THEN f[i] ELSE 0
FactorOf(f, S, i) == IF i \in S THEN f[i] ELSE 1

SumOf(f, S) == PartOf(f, S, 1) + PartOf(f, S, 2) + PartOf(f, S, 3)
ProductOf(f, S) == FactorOf(f, S, 1) * FactorOf(f, S, 2) * FactorOf(f, S, 3)

\* A set of three is reached by taking out of it one by one, whatever the order.
LEMMA TakenOut ==
  ASSUME NEW S \in SUBSET Places, NEW Good, {} \in Good,
         \A s \in SUBSET S : s # {} /\ s \ {CHOOSE x \in s : TRUE} \in Good => s \in Good
  PROVE  S \in Good
  <1>1. \A s \in SUBSET S : s # {} => (CHOOSE x \in s : TRUE) \in s
    OBVIOUS
  <1>2. \A x \in S : {x} \in Good
    <2> SUFFICES ASSUME NEW x \in S PROVE {x} \in Good
      OBVIOUS
    <2>1. {x} \ {CHOOSE y \in {x} : TRUE} = {}
      BY <1>1
    <2> QED
      BY <2>1
  <1>3. \A x, y \in S : {x, y} \in Good
    <2> SUFFICES ASSUME NEW x \in S, NEW y \in S PROVE {x, y} \in Good
      OBVIOUS
    <2> DEFINE c == CHOOSE z \in {x, y} : TRUE
    <2>1. c \in {x, y}
      BY <1>1
    <2>2. {x, y} \ {c} \in Good
      <3> HIDE DEF c
      <3>1. {x, y} \ {c} = {} \/ {x, y} \ {c} = {x} \/ {x, y} \ {c} = {y}
        BY <2>1
      <3> QED
        BY <1>2, <3>1
    <2> QED
      BY <2>2
  <1>4. \A x, y, z \in S : {x, y, z} \in Good
    <2> SUFFICES ASSUME NEW x \in S, NEW y \in S, NEW z \in S PROVE {x, y, z} \in Good
      OBVIOUS
    <2> DEFINE c == CHOOSE u \in {x, y, z} : TRUE
    <2>1. c \in {x, y, z}
      BY <1>1
    <2>2. {x, y, z} \ {c} \in Good
      <3> HIDE DEF c
      <3>1. \E u, v \in S : {x, y, z} \ {c} = {u, v} \/ {x, y, z} \ {c} = {u} \/ {x, y, z} \ {c} = {}
        <4>1. CASE c = x
          <5>1. {x, y, z} \ {c} = (IF y = c THEN {} ELSE {y}) \union (IF z = c THEN {} ELSE {z})
            BY <4>1
          <5> QED
            BY <5>1
        <4>2. CASE c = y
          <5>1. {x, y, z} \ {c} = (IF x = c THEN {} ELSE {x}) \union (IF z = c THEN {} ELSE {z})
            BY <4>2
          <5> QED
            BY <5>1
        <4>3. CASE c = z
          <5>1. {x, y, z} \ {c} = (IF x = c THEN {} ELSE {x}) \union (IF y = c THEN {} ELSE {y})
            BY <4>3
          <5> QED
            BY <5>1
        <4> QED
          BY <2>1, <4>1, <4>2, <4>3
      <3>2. ASSUME NEW u \in S, NEW v \in S
            PROVE  {u, v} \in Good /\ {u} \in Good
        BY <1>2, <1>3
      <3> DEFINE rest == {x, y, z} \ {c}
      <3> HIDE DEF rest
      <3>3. rest \in Good
        <4>1. PICK u \in S, v \in S : rest = {u, v} \/ rest = {u} \/ rest = {}
          BY <3>1 DEF rest
        <4>2. {u, v} \in Good /\ {u} \in Good
          BY <3>2
        <4> QED
          BY <4>1, <4>2
      <3> QED
        BY <3>3 DEF rest
    <2> QED
      BY <2>2
  <1>5. S = {} \/ \E x, y, z \in S : S = {x, y, z}
    <2>1. Places = {1, 2, 3}
      BY DEF Places
    <2> SUFFICES ASSUME NEW w \in S PROVE \E x, y, z \in S : S = {x, y, z}
      OBVIOUS
    <2> DEFINE pick(i) == IF i \in S THEN i ELSE w
    <2>2. pick(1) \in S /\ pick(2) \in S /\ pick(3) \in S
      OBVIOUS
    <2>3. S = {pick(1), pick(2), pick(3)}
      BY <2>1
    <2> QED
      BY <2>2, <2>3
  <1> QED
    BY <1>4, <1>5

\* Total adds up.
LEMMA TotalIs ==
  ASSUME NEW f, \A i \in Places : f[i] \in Int, NEW S \in SUBSET Places
  PROVE  Total(f, S) = SumOf(f, S) /\ SumOf(f, S) \in Int
  <1> DEFINE c(s) == CHOOSE x \in s : TRUE
             iter == CHOOSE g : g = [s \in SUBSET S |-> IF s = {} THEN 0 ELSE f[c(s)] + g[s \ {c(s)}]]
             sums == [s \in SUBSET S |-> SumOf(f, s)]
  <1>1. \A s \in SUBSET S : s # {} => c(s) \in s
    OBVIOUS
  <1> HIDE DEF c
  <1>2. \A s \in SUBSET S, i \in Places : PartOf(f, s, i) \in Int
    BY DEF PartOf
  <1>3. \A s \in SUBSET S : SumOf(f, s) \in Int
    BY <1>2 DEF SumOf, Places
  <1>4. ASSUME NEW s \in SUBSET S, NEW x \in s
        PROVE  SumOf(f, s) = f[x] + SumOf(f, s \ {x})
    <2>1. x \in Places /\ x \in {1, 2, 3}
      BY DEF Places
    <2>2. \A i \in Places : PartOf(f, s \ {x}, i) = IF i = x THEN 0 ELSE PartOf(f, s, i)
      BY DEF PartOf
    <2>3. PartOf(f, s, x) = f[x]
      BY DEF PartOf
    <2>4. \A i \in Places : PartOf(f, s, i) \in Int
      BY <1>2
    <2> QED
      BY <2>1, <2>2, <2>3, <2>4 DEF SumOf, Places
  <1>5. SumOf(f, {}) = 0
    BY DEF SumOf, PartOf
  <1>6. sums = [s \in SUBSET S |-> IF s = {} THEN 0 ELSE f[c(s)] + sums[s \ {c(s)}]]
    <2>1. \A s \in SUBSET S : s # {} => SumOf(f, s) = f[c(s)] + sums[s \ {c(s)}]
      BY <1>1, <1>4
    <2> QED
      BY <1>5, <2>1
  <1>7. iter = [s \in SUBSET S |-> IF s = {} THEN 0 ELSE f[c(s)] + iter[s \ {c(s)}]]
    BY <1>6
  <1>8. Total(f, S) = iter[S]
    BY DEF Total, FoldFunctionOnSet, MapThenFoldSet, c
  <1> HIDE DEF iter
  <1> DEFINE Good == {s \in SUBSET S : iter[s] = SumOf(f, s)}
  <1>9. {} \in Good
    BY <1>5, <1>7
  <1>10. ASSUME NEW s \in SUBSET S, s # {}, s \ {c(s)} \in Good
         PROVE  s \in Good
    BY <1>1, <1>4, <1>7, <1>10
  <1>11. S \in Good
    <2> HIDE DEF Good
    <2> QED
      BY <1>9, <1>10, TakenOut DEF c
  <1> QED
    BY <1>3, <1>8, <1>11

\* Product multiplies.
LEMMA ProductIs ==
  ASSUME NEW f, \A i \in Places : f[i] \in Int, NEW S \in SUBSET Places
  PROVE  Product(f, S) = ProductOf(f, S) /\ ProductOf(f, S) \in Int
  <1> DEFINE c(s) == CHOOSE x \in s : TRUE
             iter == CHOOSE g : g = [s \in SUBSET S |-> IF s = {} THEN 1 ELSE f[c(s)] * g[s \ {c(s)}]]
             products == [s \in SUBSET S |-> ProductOf(f, s)]
  <1>1. \A s \in SUBSET S : s # {} => c(s) \in s
    OBVIOUS
  <1> HIDE DEF c
  <1>2. \A s \in SUBSET S, i \in Places : FactorOf(f, s, i) \in Int
    BY DEF FactorOf
  <1>3. \A s \in SUBSET S : ProductOf(f, s) \in Int
    BY <1>2 DEF ProductOf, Places
  <1>4. ASSUME NEW s \in SUBSET S, NEW x \in s
        PROVE  ProductOf(f, s) = f[x] * ProductOf(f, s \ {x})
    <2>1. x \in Places /\ x \in {1, 2, 3}
      BY DEF Places
    <2>2. \A i \in Places : FactorOf(f, s \ {x}, i) = IF i = x THEN 1 ELSE FactorOf(f, s, i)
      BY DEF FactorOf
    <2>3. FactorOf(f, s, x) = f[x]
      BY DEF FactorOf
    <2>4. \A i \in Places : FactorOf(f, s, i) \in Int
      BY <1>2
    <2> QED
      BY <2>1, <2>2, <2>3, <2>4 DEF ProductOf, Places
  <1>5. ProductOf(f, {}) = 1
    BY DEF ProductOf, FactorOf
  <1>6. products = [s \in SUBSET S |-> IF s = {} THEN 1 ELSE f[c(s)] * products[s \ {c(s)}]]
    <2>1. \A s \in SUBSET S : s # {} => ProductOf(f, s) = f[c(s)] * products[s \ {c(s)}]
      BY <1>1, <1>4
    <2> QED
      BY <1>5, <2>1
  <1>7. iter = [s \in SUBSET S |-> IF s = {} THEN 1 ELSE f[c(s)] * iter[s \ {c(s)}]]
    BY <1>6
  <1>8. Product(f, S) = iter[S]
    BY DEF Product, FoldFunctionOnSet, MapThenFoldSet, c
  <1> HIDE DEF iter
  <1> DEFINE Good == {s \in SUBSET S : iter[s] = ProductOf(f, s)}
  <1>9. {} \in Good
    BY <1>5, <1>7
  <1>10. ASSUME NEW s \in SUBSET S, s # {}, s \ {c(s)} \in Good
         PROVE  s \in Good
    BY <1>1, <1>4, <1>7, <1>10
  <1>11. S \in Good
    <2> HIDE DEF Good
    <2> QED
      BY <1>9, <1>10, TakenOut DEF c
  <1> QED
    BY <1>3, <1>8, <1>11

\* How many of three there are.
LEMMA CountIs ==
  ASSUME NEW S \in SUBSET Places
  PROVE  /\ Cardinality(S) = SumOf([i \in Places |-> 1], S)
         /\ Cardinality(Places \ S) = 3 - Cardinality(S)
         /\ Cardinality(S) \in 0..3
  <1> DEFINE one == [i \in Places |-> 1]
  <1>1. Places = {1, 2, 3} /\ S \in SUBSET {1, 2, 3}
    BY DEF Places
  <1>2. ASSUME NEW T \in SUBSET Places
        PROVE  Cardinality(T) = SumOf(one, T)
    <2> DEFINE T1 == T \cap {1}
               T2 == T1 \union (T \cap {2})
               T3 == T2 \union (T \cap {3})
    <2>1. ASSUME NEW U, NEW V, NEW i \in Places, IsFiniteSet(U), Cardinality(U) \in Int, i \notin U,
                 V = U \union (T \cap {i})
          PROVE  IsFiniteSet(V) /\ Cardinality(V) = Cardinality(U) + PartOf(one, T, i) /\ Cardinality(V) \in Int
      <3>0. IsFiniteSet(U) /\ Cardinality(U) \in Int
        BY <2>1
      <3>1. CASE i \in T
        <4>1. V = U \union {i}
          BY <2>1, <3>1
        <4>2. IsFiniteSet(U \union {i}) /\ Cardinality(U \union {i}) = Cardinality(U) + 1
          BY <2>1, FS_AddElement
        <4>3. IsFiniteSet(V) /\ Cardinality(V) = Cardinality(U) + 1
          BY <4>1, <4>2, Zenon
        <4>4. PartOf(one, T, i) = 1
          BY <3>1 DEF PartOf
        <4> QED
          BY <3>0, <4>3, <4>4
      <3>2. CASE i \notin T
        <4>1. V = U /\ PartOf(one, T, i) = 0
          BY <2>1, <3>2 DEF PartOf
        <4> QED
          BY <3>0, <4>1
      <3> QED
        BY <3>1, <3>2
    <2>2. IsFiniteSet({}) /\ Cardinality({}) = 0 /\ T1 = {} \union (T \cap {1})
      BY FS_EmptySet
    <2>3. 1 \in Places /\ 2 \in Places /\ 3 \in Places
      BY <1>1
    <2>4. IsFiniteSet(T1) /\ Cardinality(T1) = PartOf(one, T, 1) /\ Cardinality(T1) \in Int
      <3>1. PartOf(one, T, 1) \in Int
        BY <2>3 DEF PartOf
      <3>2. 1 \notin {} /\ Cardinality({}) \in Int
        BY <2>2
      <3>3. IsFiniteSet(T1) /\ Cardinality(T1) = Cardinality({}) + PartOf(one, T, 1)
        BY <2>1, <2>2, <2>3, <3>2
      <3> QED
        BY <2>2, <3>1, <3>3
    <2>5. IsFiniteSet(T2) /\ Cardinality(T2) = Cardinality(T1) + PartOf(one, T, 2) /\ Cardinality(T2) \in Int
      <3>1. 2 \notin T1
        OBVIOUS
      <3> HIDE DEF T1
      <3> QED
        BY <2>1, <2>3, <2>4, <3>1
    <2>6. Cardinality(T3) = Cardinality(T2) + PartOf(one, T, 3)
      <3>1. 3 \notin T2
        OBVIOUS
      <3> HIDE DEF T2
      <3> QED
        BY <2>1, <2>3, <2>5, <3>1
    <2>7. T3 = T
      BY <1>1
    <2> HIDE DEF T1, T2, T3, one
    <2> QED
      BY <2>4, <2>5, <2>6, <2>7 DEF SumOf
  <1>3. SumOf(one, S) + SumOf(one, Places \ S) = 3 /\ SumOf(one, S) \in 0..3
    BY <1>1 DEF SumOf, PartOf
  <1>4. Places \ S \in SUBSET Places
    OBVIOUS
  <1>5. Cardinality(S) = SumOf(one, S) /\ Cardinality(Places \ S) = SumOf(one, Places \ S)
    BY <1>2, <1>4
  <1>6. SumOf(one, Places \ S) \in Int
    BY <1>1 DEF SumOf, PartOf
  <1> QED
    BY <1>3, <1>5, <1>6

-----------------------------------------------------------------------------
(* The rounds of _capped_weights.                                          *)

\* A product of natural numbers is one.
LEMMA Products ==
  \A a, b \in Nat : a * b \in Nat
  <1>1. \A a, b \in Nat : a * b \in Int /\ a * b >= 0
    BY SMTT(30)
  <1> QED
    BY <1>1

\* More of something no larger is more.
LEMMA Outweighs ==
  ASSUME NEW r \in Int, NEW k \in Nat, NEW x \in Nat, NEW y \in Nat, x <= y, r * x > k * y
  PROVE  r > k
  <1> SUFFICES ASSUME r <= k PROVE FALSE
    OBVIOUS
  <1>1. r * x <= k * x
    <2>1. (k - r) * x >= 0
      BY SMTT(30)
    <2>2. (k - r) * x = k * x - r * x
      OBVIOUS
    <2> QED
      BY <2>1, <2>2
  <1>2. k * x <= k * y
    <2>1. k * (y - x) >= 0
      BY SMTT(30)
    <2>2. k * (y - x) = k * y - k * x
      OBVIOUS
    <2> QED
      BY <2>1, <2>2
  <1> QED
    BY <1>1, <1>2

\* The candidates of A share what the others, capped, leave: it is not negative
\* and not more than their caps, and each scores less than every capped one.
Round(scores, total, cap, A) ==
  /\ A \in SUBSET Places /\ A # {}
  /\ Remaining(scores, total, cap, A) \in 0..cap * Cardinality(A)
  /\ \A i \in A, j \in Places \ A : scores[i] < scores[j]

\* The candidates of the next round.
Left(scores, total, cap, A) == A \ OverCap(scores, total, cap, A)

\* What is taken out of a set is not in its number any more.
LEMMA CountLeft ==
  ASSUME NEW A \in SUBSET Places, NEW O \in SUBSET A
  PROVE  /\ Cardinality(A \ O) = Cardinality(A) - Cardinality(O)
         /\ O # {} => Cardinality(O) > 0
         /\ Cardinality(O) \in 0..3 /\ Cardinality(A) \in 0..3 /\ Cardinality(A \ O) \in 0..3
  <1> DEFINE one == [i \in Places |-> 1]
  <1>1. A \ O \in SUBSET Places /\ O \in SUBSET Places
    OBVIOUS
  <1>2. /\ Cardinality(A \ O) = SumOf(one, A \ O) /\ Cardinality(A) = SumOf(one, A)
        /\ Cardinality(O) = SumOf(one, O)
    BY <1>1, CountIs
  <1>3. Cardinality(O) \in 0..3 /\ Cardinality(A) \in 0..3 /\ Cardinality(A \ O) \in 0..3
    BY <1>1, CountIs
  <1>4. Places = {1, 2, 3}
    BY DEF Places
  <1>5. SumOf(one, A \ O) = SumOf(one, A) - SumOf(one, O)
    BY <1>4 DEF SumOf, PartOf
  <1>6. O # {} => SumOf(one, O) > 0
    <2>1. O # {} => 1 \in O \/ 2 \in O \/ 3 \in O
      BY <1>4
    <2> QED
      BY <1>4, <2>1 DEF SumOf, PartOf
  <1> QED
    BY <1>2, <1>3, <1>5, <1>6

\* A round takes out of what is left as many caps as it takes candidates out.
LEMMA RoundKeeps ==
  ASSUME NEW scores \in [Places -> Nat \ {0}], NEW total \in Nat, NEW cap \in Nat,
         NEW A, Round(scores, total, cap, A)
  PROVE  Round(scores, total, cap, Left(scores, total, cap, A))
  <1> DEFINE O == OverCap(scores, total, cap, A)
             B == A \ O
             r == Remaining(scores, total, cap, A)
             u == Total(scores, A)
             v == SumOf(scores, O)
             one == [i \in Places |-> 1]
             n == Cardinality(O)
  <1>1. /\ A \in SUBSET Places /\ A # {} /\ r \in 0..cap * Cardinality(A)
        /\ \A i \in A, j \in Places \ A : scores[i] < scores[j]
    BY DEF Round
  <1>2. O = {i \in A : r * scores[i] > cap * u} /\ O \in SUBSET A /\ O \in SUBSET Places
    BY <1>1 DEF OverCap
  <1>3. /\ u = SumOf(scores, A) /\ u \in Int /\ v \in Int
        /\ \A i \in Places : scores[i] \in Nat /\ scores[i] > 0
    <2>1. \A i \in Places : scores[i] \in Int
      OBVIOUS
    <2> QED
      BY <1>1, <1>2, <2>1, TotalIs
  <1>4. Places = {1, 2, 3} /\ DOMAIN scores = Places
    BY DEF Places
  <1>5. /\ Cardinality(A) \in 0..3 /\ n \in 0..3 /\ Cardinality(B) = Cardinality(A) - n
        /\ Cardinality(Places \ A) = 3 - Cardinality(A)
        /\ Cardinality(Places \ B) = 3 - Cardinality(B)
        /\ n = SumOf(one, O) /\ (O # {} => n > 0)
    <2>1. B \in SUBSET Places
      BY <1>1
    <2> HIDE DEF O
    <2> QED
      BY <1>1, <1>2, <2>1, CountIs, CountLeft
  <1>6. r = total - cap * (3 - Cardinality(A))
        /\ Remaining(scores, total, cap, B) = total - cap * (3 - Cardinality(B))
    BY <1>4, <1>5 DEF Remaining
  <1> HIDE DEF O, B, r, u, v, n
  <1>7. r \in Nat /\ r <= cap * Cardinality(A)
    <2>1. cap * Cardinality(A) \in Int
      BY <1>5
    <2> QED
      BY <1>1, <2>1
  <1>8. Remaining(scores, total, cap, B) = r - cap * n
    <2>1. total - cap * (3 - Cardinality(B)) = total - cap * (3 - Cardinality(A)) - cap * n
      BY <1>5
    <2> QED
      BY <1>6, <2>1
  <1>9. v <= u /\ u \in Nat /\ v \in Nat
    <2>1. \A i \in Places : PartOf(scores, O, i) \in Nat /\ PartOf(scores, A, i) \in Nat
                            /\ PartOf(scores, O, i) <= PartOf(scores, A, i)
      BY <1>2, <1>3 DEF PartOf
    <2> QED
      BY <1>3, <1>4, <2>1 DEF SumOf, v
  <1>10. O # {} => r * v > (cap * n) * u
    <2> DEFINE p(i) == PartOf(scores, O, i)
               q(i) == PartOf(one, O, i)
    <2>1. ASSUME NEW i \in Places
          PROVE  /\ p(i) \in Nat /\ q(i) \in Nat
                 /\ r * p(i) >= (cap * u) * q(i)
                 /\ i \in O => r * p(i) > (cap * u) * q(i)
      <3>1. CASE i \in O
        <4>1. p(i) = scores[i] /\ q(i) = 1 /\ r * scores[i] > cap * u
          BY <1>2, <3>1 DEF PartOf
        <4>2. r * scores[i] \in Int /\ cap * u \in Int
          BY <1>3, <1>7
        <4> QED
          BY <1>3, <4>1, <4>2
      <3>2. CASE i \notin O
        <4>1. p(i) = 0 /\ q(i) = 0
          BY <3>2 DEF PartOf
        <4> QED
          BY <1>3, <1>7, <3>2, <4>1
      <3> QED
        BY <3>1, <3>2
    <2>2. v = p(1) + p(2) + p(3) /\ n = q(1) + q(2) + q(3)
      BY <1>5 DEF SumOf, v
    <2> HIDE DEF p, q
    <2>3. 1 \in Places /\ 2 \in Places /\ 3 \in Places
      BY <1>4
    <2>4. r * v = r * p(1) + r * p(2) + r * p(3)
      BY <1>7, <2>1, <2>2, <2>3
    <2>5. (cap * n) * u = (cap * u) * q(1) + (cap * u) * q(2) + (cap * u) * q(3)
      BY <1>3, <2>1, <2>2, <2>3
    <2>6. /\ r * p(1) \in Int /\ r * p(2) \in Int /\ r * p(3) \in Int
          /\ (cap * u) * q(1) \in Int /\ (cap * u) * q(2) \in Int /\ (cap * u) * q(3) \in Int
      BY <1>3, <1>7, <2>1, <2>3
    <2>7. ASSUME O # {}
          PROVE  1 \in O \/ 2 \in O \/ 3 \in O
      BY <1>2, <1>4, <2>7
    <2> QED
      BY <2>1, <2>3, <2>4, <2>5, <2>6, <2>7
  <1>11. O # {} => r > cap * n
    <2>1. cap * n \in Nat
      BY <1>5
    <2> QED
      BY <1>7, <1>9, <1>10, <2>1, Outweighs
  <1>12. B # {}
    <2> SUFFICES ASSUME B = {} PROVE FALSE
      OBVIOUS
    <2>1. O = A /\ O # {} /\ n = Cardinality(A)
      BY <1>1, <1>2 DEF B, n
    <2> QED
      BY <1>5, <1>7, <1>11, <2>1
  <1>13. Remaining(scores, total, cap, B) \in 0..cap * Cardinality(B)
    <2>1. cap * Cardinality(B) = cap * Cardinality(A) - cap * n /\ cap * n \in Int
          /\ cap * Cardinality(A) \in Int /\ (O = {} => cap * n = 0)
      <3>1. O = {} => n = 0
        BY FS_EmptySet DEF n
      <3> QED
        BY <1>5, <3>1
    <2>2. r - cap * n >= 0
      BY <1>7, <1>11, <2>1
    <2> QED
      BY <1>7, <1>8, <2>1, <2>2
  <1>14. ASSUME NEW i \in B, NEW j \in Places \ B
         PROVE  scores[i] < scores[j]
    <2>1. i \in A /\ i \notin O /\ i \in Places
      BY <1>1 DEF B
    <2>2. CASE j \notin A
      BY <1>1, <2>1, <2>2
    <2>3. CASE j \in A
      <3>1. j \in O
        BY <2>3 DEF B
      <3>2. r * scores[j] > cap * u /\ ~(r * scores[i] > cap * u)
        BY <1>2, <2>1, <3>1
      <3>3. /\ scores[i] \in Nat /\ scores[j] \in Nat /\ cap * u \in Int
            /\ r * scores[i] \in Int /\ r * scores[j] \in Int
        BY <1>3, <1>7, <2>1
      <3>4. scores[j] * r > scores[i] * r
        BY <1>7, <3>2, <3>3
      <3> QED
        BY <1>7, <3>3, <3>4, Outweighs
    <2> QED
      BY <2>2, <2>3
  <1> QED
    BY <1>1, <1>12, <1>13, <1>14 DEF Round, Left, B, O

\* The rounds end, with nobody left above the cap: each but the last takes one
\* out at least.
LEMMA UncappedIs ==
  ASSUME NEW scores \in [Places -> Nat \ {0}], NEW total \in Nat, NEW cap \in Nat,
         total <= cap * 3
  PROVE  LET A == Uncapped(scores, total, cap)
         IN Round(scores, total, cap, A) /\ OverCap(scores, total, cap, A) = {}
  <1> DEFINE over(A) == OverCap(scores, total, cap, A)
             h(A) == A \ over(A)
             settled == CHOOSE f : f = [A \in SUBSET Places |-> IF over(A) = {} THEN A ELSE f[h(A)]]
             g == [A \in SUBSET Places |-> h(h(h(A)))]
  <1>1. ASSUME NEW A \in SUBSET Places
        PROVE  over(A) \in SUBSET A
    BY DEF OverCap
  <1>2. Uncapped(scores, total, cap) = settled[Places]
    <2>1. DOMAIN scores = Places
      OBVIOUS
    <2> QED
      BY <2>1 DEF Uncapped
  <1> HIDE DEF over
  <1>3. ASSUME NEW A \in SUBSET Places
        PROVE  /\ h(A) \in SUBSET Places
               /\ Cardinality(A) \in 0..3
               /\ over(A) = {} <=> h(A) = A
               /\ over(A) # {} => Cardinality(h(A)) < Cardinality(A)
    <2>1. over(A) \in SUBSET A
      BY <1>1
    <2>2. Cardinality(A) \in 0..3 /\ Cardinality(over(A)) \in 0..3
          /\ Cardinality(h(A)) = Cardinality(A) - Cardinality(over(A))
          /\ (over(A) # {} => Cardinality(over(A)) > 0)
      BY <2>1, CountLeft
    <2>3. over(A) = {} <=> h(A) = A
      BY <2>1
    <2>4. h(A) \in SUBSET Places
      OBVIOUS
    <2> QED
      BY <2>2, <2>3, <2>4
  <1> HIDE DEF h
  <1>4. ASSUME NEW A \in SUBSET Places
        PROVE  over(h(h(h(A)))) = {} /\ h(h(h(A))) \in SUBSET Places
    <2> DEFINE B == h(A)
               C == h(B)
               D == h(C)
               E == h(D)
    <2>1. B \in SUBSET Places /\ C \in SUBSET Places /\ D \in SUBSET Places /\ E \in SUBSET Places
      BY <1>3
    <2>2. (B = A => C = B) /\ (C = B => D = C) /\ (D = C => E = D)
      OBVIOUS
    <2> HIDE DEF B, C, D, E
    <2>3. /\ Cardinality(A) \in 0..3 /\ Cardinality(B) \in 0..3 /\ Cardinality(C) \in 0..3
          /\ Cardinality(D) \in 0..3 /\ Cardinality(E) \in 0..3
      BY <1>3, <2>1
    <2>4. /\ B # A => Cardinality(B) < Cardinality(A)
          /\ C # B => Cardinality(C) < Cardinality(B)
          /\ D # C => Cardinality(D) < Cardinality(C)
          /\ E # D => Cardinality(E) < Cardinality(D)
      <3>1. B # A => Cardinality(B) < Cardinality(A)
        BY <1>3 DEF B
      <3>2. C # B => Cardinality(C) < Cardinality(B)
        BY <1>3, <2>1 DEF C
      <3>3. D # C => Cardinality(D) < Cardinality(C)
        BY <1>3, <2>1 DEF D
      <3>4. E # D => Cardinality(E) < Cardinality(D)
        BY <1>3, <2>1 DEF E
      <3> QED
        BY <3>1, <3>2, <3>3, <3>4
    <2>5. E = D
      BY <2>2, <2>3, <2>4
    <2>6. over(D) = {}
      BY <1>3, <2>1, <2>5 DEF E
    <2> QED
      BY <2>1, <2>6 DEF B, C, D
  <1>5. g = [A \in SUBSET Places |-> IF over(A) = {} THEN A ELSE g[h(A)]]
    <2>1. ASSUME NEW A \in SUBSET Places, over(A) = {}
          PROVE  h(h(h(A))) = A
      BY <1>3, <2>1
    <2>2. ASSUME NEW A \in SUBSET Places
          PROVE  h(h(h(A))) = g[h(A)]
      <3>1. h(A) \in SUBSET Places
        BY <1>3
      <3>2. h(h(h(h(A)))) = h(h(h(A)))
        BY <1>3, <1>4
      <3> QED
        BY <3>1, <3>2
    <2> QED
      BY <2>1, <2>2
  <1>6. settled = [A \in SUBSET Places |-> IF over(A) = {} THEN A ELSE settled[h(A)]]
    BY <1>5
  <1> HIDE DEF settled, g
  <1> DEFINE A0 == Places
             A1 == h(A0)
             A2 == h(A1)
             A3 == h(A2)
  <1>7. /\ A0 \in SUBSET Places /\ A1 \in SUBSET Places /\ A2 \in SUBSET Places /\ A3 \in SUBSET Places
        /\ over(A3) = {}
    BY <1>3, <1>4
  <1>8. Round(scores, total, cap, A0)
    <2>1. Cardinality(Places \ Places) = 0 /\ Cardinality(Places) = 3
      <3>1. Cardinality(Places \ Places) = Cardinality(Places) - Cardinality(Places)
            /\ Cardinality(Places) \in 0..3
        BY CountLeft
      <3>2. Cardinality(Places \ Places) = 3 - Cardinality(Places)
        BY CountIs
      <3> QED
        BY <3>1, <3>2
    <2>2. Remaining(scores, total, cap, Places) = total
      BY <2>1 DEF Remaining
    <2>3. Places # {} /\ cap * 3 \in Nat
      BY DEF Places
    <2>4. total \in 0..cap * Cardinality(Places)
      BY <2>1, <2>3
    <2> QED
      BY <2>2, <2>3, <2>4 DEF Round
  <1>9. \A A : Round(scores, total, cap, A) => Round(scores, total, cap, h(A))
    BY RoundKeeps DEF h, over, Left
  <1>10. \A A \in SUBSET Places : settled[A] = IF over(A) = {} THEN A ELSE settled[h(A)]
    BY <1>6
  <1> HIDE DEF A0, A1, A2, A3
  <1>11. /\ Round(scores, total, cap, A1) /\ Round(scores, total, cap, A2)
         /\ Round(scores, total, cap, A3)
    BY <1>8, <1>9 DEF A1, A2, A3
  <1>12. /\ settled[A3] = A3
         /\ settled[A2] = IF over(A2) = {} THEN A2 ELSE settled[A3]
         /\ settled[A1] = IF over(A1) = {} THEN A1 ELSE settled[A2]
         /\ settled[A0] = IF over(A0) = {} THEN A0 ELSE settled[A1]
    BY <1>7, <1>10 DEF A1, A2, A3
  <1>13. Round(scores, total, cap, settled[A0]) /\ over(settled[A0]) = {}
    BY <1>7, <1>8, <1>11, <1>12
  <1> QED
    BY <1>2, <1>13 DEF over, A0

\* The weights of _capped_weights: they add up, keep the cap and follow the scores.
LEMMA WeightsAre ==
  ASSUME NEW scores \in [Places -> Nat \ {0}], NEW total \in Nat, NEW cap \in Nat,
         total <= cap * 3
  PROVE  LET c == CappedWeights(scores, total, cap)
         IN /\ c.unit \in Nat /\ c.weights \in [Places -> Nat]
            /\ Total(c.weights, Places) = total * c.unit
            /\ \A i \in Places : c.weights[i] \in 0..cap * c.unit
            /\ \A i, j \in Places : scores[i] >= scores[j] => c.weights[i] >= c.weights[j]
  <1> DEFINE A == Uncapped(scores, total, cap)
             u == Total(scores, A)
             r == Remaining(scores, total, cap, A)
             c == CappedWeights(scores, total, cap)
             w == c.weights
             k == Cardinality(Places \ A)
  <1>1. /\ A \in SUBSET Places /\ A # {} /\ r \in 0..cap * Cardinality(A)
        /\ \A i \in A, j \in Places \ A : scores[i] < scores[j]
        /\ OverCap(scores, total, cap, A) = {}
    BY UncappedIs DEF Round
  <1>2. DOMAIN scores = Places /\ Places = {1, 2, 3}
    BY DEF Places
  <1> HIDE DEF A
  <1>3. /\ c.unit = u
        /\ w = [i \in Places |-> IF i \in A THEN r * scores[i] ELSE cap * u]
    BY <1>1, <1>2 DEF CappedWeights, A
  <1>4. \A i \in A : ~(r * scores[i] > cap * u)
    BY <1>1 DEF OverCap
  <1>5. /\ u = SumOf(scores, A) /\ \A i \in Places : scores[i] \in Nat /\ scores[i] > 0
    <2>1. \A i \in Places : scores[i] \in Int
      OBVIOUS
    <2> QED
      BY <1>1, <2>1, TotalIs
  <1>6. u \in Nat
    BY <1>2, <1>5 DEF SumOf, PartOf
  <1>7. r = total - cap * k /\ k \in 0..3 /\ k = SumOf([i \in Places |-> 1], Places \ A) /\ r \in Nat
    <2>1. Cardinality(A) \in 0..3 /\ k \in 0..3 /\ k = SumOf([i \in Places |-> 1], Places \ A)
      <3>1. Places \ A \in SUBSET Places
        OBVIOUS
      <3> QED
        BY <1>1, <3>1, CountIs
    <2>2. cap * Cardinality(A) \in Int
      BY <2>1
    <2> QED
      BY <1>1, <1>2, <2>1, <2>2 DEF Remaining
  <1> HIDE DEF u, r, c, k
  <1>8. cap * u \in Nat /\ \A i \in Places : r * scores[i] \in Nat
    BY <1>5, <1>6, <1>7, Products
  <1>9. /\ w \in [Places -> Nat]
        /\ \A i \in Places : w[i] = IF i \in A THEN r * scores[i] ELSE cap * u
    BY <1>3, <1>8
  <1>10. \A i \in Places : w[i] \in 0..cap * u
    BY <1>4, <1>8, <1>9
  <1>11. ASSUME NEW i \in Places, NEW j \in Places, scores[i] >= scores[j]
         PROVE  w[i] >= w[j]
    <2>0. scores[i] \in Nat /\ scores[j] \in Nat
      BY <1>5
    <2>1. CASE i \notin A
      BY <1>8, <1>9, <1>10, <2>1
    <2>2. CASE i \in A /\ j \in A
      <3>1. w[i] = r * scores[i] /\ w[j] = r * scores[j]
        BY <1>9, <2>2
      <3>2. scores[i] - scores[j] \in Nat
        BY <1>11, <2>0
      <3>3. r * (scores[i] - scores[j]) >= 0
        <4> DEFINE x == scores[i] - scores[j]
        <4>1. x \in Nat
          BY <3>2
        <4> HIDE DEF x
        <4>2. r * x >= 0
          BY <1>7, <4>1
        <4> QED
          BY <4>2 DEF x
      <3>4. r * (scores[i] - scores[j]) = r * scores[i] - r * scores[j]
        BY <1>7, <2>0
      <3> QED
        BY <1>8, <3>1, <3>3, <3>4
    <2>3. CASE i \in A /\ j \notin A
      BY <1>1, <1>11, <2>0, <2>3
    <2> QED
      BY <2>1, <2>2, <2>3
  <1>12. Total(w, Places) = total * u
    <2> DEFINE p(i) == PartOf(scores, A, i)
               q(i) == PartOf([n \in Places |-> 1], Places \ A, i)
    <2>1. \A i \in Places : p(i) \in Nat /\ q(i) \in Nat /\ w[i] = r * p(i) + (cap * u) * q(i)
      <3>1. ASSUME NEW i \in Places
            PROVE  p(i) \in Nat /\ q(i) \in Nat /\ w[i] = r * p(i) + (cap * u) * q(i)
        <4>1. CASE i \in A
          <5>1. p(i) = scores[i] /\ q(i) = 0
            BY <4>1 DEF PartOf
          <5> QED
            BY <1>5, <1>8, <1>9, <4>1, <5>1
        <4>2. CASE i \notin A
          <5>1. p(i) = 0 /\ q(i) = 1
            BY <4>2 DEF PartOf
          <5> QED
            BY <1>7, <1>8, <1>9, <4>2, <5>1
        <4> QED
          BY <4>1, <4>2
      <3> QED
        BY <3>1
    <2>2. u = p(1) + p(2) + p(3) /\ k = q(1) + q(2) + q(3)
      BY <1>5, <1>7 DEF SumOf
    <2>3. Total(w, Places) = w[1] + w[2] + w[3]
      <3>1. \A i \in Places : w[i] \in Int
        BY <1>9
      <3>2. Total(w, Places) = SumOf(w, Places)
        BY <3>1, TotalIs
      <3> QED
        BY <1>2, <3>2 DEF SumOf, PartOf
    <2> HIDE DEF p, q
    <2>4. 1 \in Places /\ 2 \in Places /\ 3 \in Places
      BY <1>2
    <2>5. r * u = r * p(1) + r * p(2) + r * p(3)
      BY <1>7, <2>1, <2>2, <2>4
    <2>6. (cap * u) * k = (cap * u) * q(1) + (cap * u) * q(2) + (cap * u) * q(3)
      BY <1>8, <2>1, <2>2, <2>4
    <2>7. /\ r * p(1) \in Nat /\ r * p(2) \in Nat /\ r * p(3) \in Nat
          /\ (cap * u) * q(1) \in Nat /\ (cap * u) * q(2) \in Nat /\ (cap * u) * q(3) \in Nat
      <3>1. \A i \in Places : r * p(i) \in Nat /\ (cap * u) * q(i) \in Nat
        BY <1>7, <1>8, <2>1, Products
      <3> QED
        BY <2>4, <3>1
    <2>8. Total(w, Places) = r * u + (cap * u) * k
      BY <2>1, <2>3, <2>4, <2>5, <2>6, <2>7
    <2>9. r * u = total * u - (cap * u) * k
      BY <1>6, <1>7
    <2> QED
      BY <1>6, <1>7, <1>8, <2>8, <2>9
  <1> QED
    BY <1>3, <1>6, <1>9, <1>10, <1>11, <1>12 DEF c

\* A candidate nearer to the target scores no less (propose_allocation).
LEMMA ScoresAre ==
  ASSUME NEW risks \in [Places -> Nat], NEW tolerance \in DOMAIN Target
  PROVE  LET scores == Scores(risks, tolerance)
         IN /\ scores \in [Places -> Nat \ {0}]
            /\ \A i, j \in Places :
                 Distance(risks[i], tolerance) <= Distance(risks[j], tolerance)
                   => scores[i] >= scores[j]
  <1> DEFINE d == [i \in Places |-> Distance(risks[i], tolerance)]
             scores == Scores(risks, tolerance)
  <1>1. \A i \in Places : d[i] \in Nat /\ d[i] > 0
    <2>1. Target[tolerance] \in Nat
      BY DEF Target
    <2>2. \A i \in Places : risks[i] \in Nat
      OBVIOUS
    <2> QED
      BY <2>1, <2>2 DEF Distance
  <1>2. DOMAIN risks = Places /\ Places = {1, 2, 3}
    BY DEF Places
  <1>3. scores = [i \in Places |-> Product(d, Places \ {i})]
    BY <1>2 DEF Scores
  <1> HIDE DEF d, scores
  <1>4. \A i \in Places : scores[i] = ProductOf(d, Places \ {i})
    <2>1. \A i \in Places : d[i] \in Int
      BY <1>1
    <2>2. ASSUME NEW i \in Places
          PROVE  Product(d, Places \ {i}) = ProductOf(d, Places \ {i})
      BY <2>1, ProductIs
    <2> QED
      BY <1>3, <2>2
  <1>5. ASSUME NEW i \in Places
        PROVE  \A j \in Places : FactorOf(d, Places \ {i}, j) = IF j = i THEN 1 ELSE d[j]
    BY DEF FactorOf
  <1>6. /\ scores[1] = d[2] * d[3] /\ scores[2] = d[1] * d[3] /\ scores[3] = d[1] * d[2]
    <2>1. scores[1] = 1 * d[2] * d[3] /\ scores[2] = d[1] * 1 * d[3] /\ scores[3] = d[1] * d[2] * 1
      BY <1>2, <1>4, <1>5 DEF ProductOf
    <2>2. d[1] \in Nat /\ d[2] \in Nat /\ d[3] \in Nat
      BY <1>1, <1>2
    <2> QED
      BY <2>1, <2>2
  <1>7. ASSUME NEW a \in Nat, NEW b \in Nat, a > 0, b > 0
        PROVE  a * b \in Nat \ {0}
    <2>1. (a - 1) * (b - 1) \in Nat
      BY <1>7, Products
    <2>2. (a - 1) * (b - 1) = a * b - a - b + 1
      OBVIOUS
    <2>3. a * b \in Nat
      BY Products
    <2> QED
      BY <1>7, <2>1, <2>2, <2>3
  <1>8. \A i \in Places : scores[i] \in Nat \ {0}
    <2>1. /\ d[1] \in Nat /\ d[2] \in Nat /\ d[3] \in Nat
          /\ d[1] > 0 /\ d[2] > 0 /\ d[3] > 0
      BY <1>1, <1>2
    <2>2. scores[1] \in Nat \ {0} /\ scores[2] \in Nat \ {0} /\ scores[3] \in Nat \ {0}
      BY <1>6, <1>7, <2>1
    <2> QED
      BY <1>2, <2>2
  <1>9. ASSUME NEW a \in Nat, NEW b \in Nat, NEW c \in Nat, a <= b
        PROVE  b * c >= a * c
    <2>1. b - a \in Nat
      BY <1>9
    <2>2. (b - a) * c \in Nat
      BY <2>1, Products
    <2>3. (b - a) * c = b * c - a * c
      OBVIOUS
    <2>4. b * c \in Nat /\ a * c \in Nat
      BY Products
    <2> QED
      BY <2>2, <2>3, <2>4
  <1>10. ASSUME NEW i \in Places, NEW j \in Places, d[i] <= d[j]
         PROVE  scores[i] >= scores[j]
    <2>1. d[1] \in Nat /\ d[2] \in Nat /\ d[3] \in Nat
      BY <1>1, <1>2
    <2>2. CASE i = j
      BY <1>8, <2>2
    <2>3. CASE i # j
      <3>1. PICK k \in Places : scores[i] = d[j] * d[k] /\ scores[j] = d[i] * d[k]
        <4>1. /\ d[1] * d[2] = d[2] * d[1] /\ d[1] * d[3] = d[3] * d[1] /\ d[2] * d[3] = d[3] * d[2]
          BY <2>1
        <4> QED
          BY <1>2, <1>6, <2>3, <4>1
      <3> QED
        BY <1>1, <1>9, <1>10, <3>1
    <2> QED
      BY <2>2, <2>3
  <1>11. scores \in [Places -> Nat \ {0}]
    BY <1>3, <1>8
  <1> QED
    BY <1>10, <1>11 DEF d, scores

-----------------------------------------------------------------------------
(* Proposals.                                                              *)

AllocationBases == [risk : Nat]

\* CapsKept of one collection.
Allotted(profile, collection) ==
  LET proposal == collection.proposal
      basis == collection.basis
      near == [i \in DOMAIN basis |-> Distance(basis[i].risk, profile.tolerance)]
  IN /\ Total(proposal.weights, DOMAIN basis) = Available(profile) * proposal.unit
     /\ \A i \in DOMAIN basis : proposal.weights[i] \in 0..profile.cap * proposal.unit
     /\ \A i, j \in DOMAIN basis :
          near[i] <= near[j] => proposal.weights[i] >= proposal.weights[j]
     /\ Total([i \in DOMAIN basis |-> proposal.weights[i] * StressLoss(basis[i].risk)], DOMAIN basis)
          <= profile.maximumLoss * 100 * proposal.unit

\* An allocation proposes for three candidates, with the profile that was
\* confirmed when it started.
CapsInv ==
  job.workflow = "allocation" =>
    /\ job.phase # "new" /\ InputsComplete =>
         /\ job.profile.tolerance \in DOMAIN Target /\ job.profile.cap \in Nat
         /\ job.profile.cash \in 0..100 /\ job.profile.maximumLoss \in 0..100
    /\ job.phase # "collecting"
    /\ job.basis \in Seq(AllocationBases)
    /\ job.phase \in {"routing", "fetching"} => Len(job.basis) < 3
    /\ job.phase = "proposing" => Len(job.basis) = 3
    /\ job.collections \in Seq(Members(job.collections))
    /\ \A k \in DOMAIN job.collections : Allotted(job.profile, job.collections[k])

\* What propose_allocation returns for three candidates, when it returns, keeps
\* the cap and follows the distances.
LEMMA ProposedAllotted ==
  ASSUME NEW profile, profile.tolerance \in DOMAIN Target, profile.cap \in Nat,
         profile.cash \in 0..100, profile.maximumLoss \in 0..100,
         NEW basis \in Seq(AllocationBases), Len(basis) = 3,
         NEW risks, risks = [i \in DOMAIN basis |-> basis[i].risk],
         NEW proposal, proposal = Propose(profile, risks),
         Feasible(profile, risks), ~StressExceeds(profile, risks, proposal)
  PROVE  Allotted(profile, [basis |-> basis, proposal |-> proposal])
  <1> DEFINE scores == Scores(risks, profile.tolerance)
             free == Available(profile)
             cap == profile.cap
             u == proposal.unit
             w == proposal.weights
             near == [i \in DOMAIN basis |-> Distance(basis[i].risk, profile.tolerance)]
             losses == [i \in DOMAIN basis |-> w[i] * StressLoss(basis[i].risk)]
  <1>1. DOMAIN basis = Places /\ \A i \in Places : basis[i] \in AllocationBases
    <2>1. DOMAIN basis = 1..Len(basis)
      OBVIOUS
    <2>2. DOMAIN basis = Places
      BY <2>1 DEF Places
    <2> QED
      BY <2>2
  <1>2. \A i \in Places : basis[i].risk \in Nat
    BY <1>1 DEF AllocationBases
  <1>3. /\ risks \in [Places -> Nat] /\ DOMAIN risks = DOMAIN basis
        /\ \A i \in Places : risks[i] = basis[i].risk
    BY <1>1, <1>2
  <1>4. /\ scores \in [Places -> Nat \ {0}]
        /\ \A i, j \in Places :
             Distance(risks[i], profile.tolerance) <= Distance(risks[j], profile.tolerance)
               => scores[i] >= scores[j]
    BY <1>3, ScoresAre
  <1>5. free \in Nat /\ free <= cap * 3
    <2>1. Cardinality(Places) = 3
      <3>1. Cardinality(Places \ {}) = 3 - Cardinality({})
        BY CountIs
      <3>2. Cardinality({}) = 0 /\ Places \ {} = Places
        BY FS_EmptySet
      <3> QED
        BY <3>1, <3>2
    <2>2. DOMAIN risks = Places
      BY <1>3
    <2>3. free <= cap * Cardinality(Places)
      BY <2>2 DEF Feasible
    <2>4. free \in Nat
      <3> DEFINE cash == profile.cash
      <3>1. free = 100 - cash /\ cash \in 0..100
        BY DEF Available
      <3> HIDE DEF free, cash
      <3> QED
        BY <3>1
    <2> QED
      BY <2>1, <2>3, <2>4
  <1>6. proposal = CappedWeights(scores, free, cap)
    BY DEF Propose
  <1> HIDE DEF scores, free
  <1>7. /\ u \in Nat /\ w \in [Places -> Nat] /\ Total(w, Places) = free * u
        /\ \A i \in Places : w[i] \in 0..cap * u
        /\ \A i, j \in Places : scores[i] >= scores[j] => w[i] >= w[j]
    BY <1>4, <1>5, <1>6, WeightsAre, ZenonT(60)
  <1> HIDE DEF u, w
  <1>8. \A i, j \in Places : near[i] <= near[j] => w[i] >= w[j]
    BY <1>1, <1>3, <1>4, <1>7
  <1>9. Total(losses, Places) <= profile.maximumLoss * 100 * u
    <2>1. \A i \in Places : losses[i] \in Int
      <3>1. \A i \in Places : w[i] \in Nat /\ StressLoss(basis[i].risk) \in Nat
        BY <1>2, <1>7 DEF StressLoss, Smaller
      <3> QED
        BY <1>1, <3>1
    <2>2. Total(losses, Places) \in Int
      <3> HIDE DEF losses
      <3> QED
        BY <2>1, TotalIs
    <2>3. profile.maximumLoss * 100 * u \in Int
      <3> DEFINE m == profile.maximumLoss * 100
      <3>1. m \in Nat
        <4> DEFINE loss == profile.maximumLoss
        <4>1. loss \in 0..100
          OBVIOUS
        <4> HIDE DEF loss
        <4>2. loss * 100 \in Nat
          BY <4>1
        <4> QED
          BY <4>2 DEF loss
      <3> HIDE DEF m
      <3>2. m * u \in Int
        BY <1>7, <3>1
      <3> QED
        BY <3>2 DEF m
    <2>4. losses = [i \in DOMAIN risks |-> w[i] * StressLoss(risks[i])]
      BY <1>1, <1>3
    <2> HIDE DEF losses
    <2>5. ~(Total(losses, Places) > profile.maximumLoss * 100 * u)
      <3>1. Total(losses, DOMAIN risks) = Total(losses, Places)
        BY <1>1, <1>3
      <3> QED
        BY <2>4, <3>1 DEF StressExceeds, u, w
    <2> QED
      BY <2>2, <2>3, <2>5
  <1>10. /\ Total(w, DOMAIN basis) = free * u /\ Total(losses, DOMAIN basis) <= profile.maximumLoss * 100 * u
         /\ \A i \in DOMAIN basis : w[i] \in 0..cap * u
         /\ \A i, j \in DOMAIN basis : near[i] <= near[j] => w[i] >= w[j]
    BY <1>1, <1>7, <1>8, <1>9
  <1> QED
    BY <1>10 DEF Allotted, u, w, free

\* What an allocation holds about its proposals goes on to hold.
LEMMA CapsNext ==
  FetchInv /\ CapsInv /\ [Next]_vars => CapsInv'
  <1> SUFFICES ASSUME FetchInv, CapsInv, [Next]_vars PROVE CapsInv'
    OBVIOUS
  <1>1. Typed /\ FieldsAre
    <2>1. Typed
      BY DEF FetchInv
    <2> QED
      BY <2>1, FieldsOfTyped DEF Typed
  <1>2. Run \/ UNCHANGED job
    BY SMTT(30) DEF Next, vars
  <1>3. CASE UNCHANGED job
    BY <1>3, ZenonT(60) DEF CapsInv, Allotted, InputsComplete
  <1>4. ASSUME NEW collection
        PROVE  Allotted(job.profile, collection) /\ job'.profile = job.profile
                 => Allotted(job'.profile, collection)
    OBVIOUS
  <1>5. ASSUME job'.workflow = job.workflow, job'.profile = job.profile,
               job'.collections = job.collections,
               job.phase # "new", job'.phase # "collecting",
               job.workflow = "allocation" =>
                 /\ job'.basis \in Seq(AllocationBases)
                 /\ job'.phase \in {"routing", "fetching"} => Len(job'.basis) < 3
                 /\ job'.phase = "proposing" => Len(job'.basis) = 3
        PROVE  CapsInv'
    BY <1>5, ZenonT(60) DEF CapsInv, Members, Allotted, InputsComplete
  <1>6. CASE Keeps
    <2>2. /\ job'.workflow = job.workflow /\ job'.profile = job.profile
          /\ job'.collections = job.collections /\ job.phase # "new"
          /\ job'.phase \notin {"collecting", "proposing"} /\ job'.basis \in {job.basis, <<>>}
          /\ job'.phase \in {"routing", "fetching"} =>
               \/ job'.basis = <<>>
               \/ job'.basis = job.basis /\ job.phase \in {"routing", "fetching"}
      BY <1>6 DEF Keeps
    <2>3. ASSUME job.workflow = "allocation"
          PROVE  /\ job'.basis \in Seq(AllocationBases)
                 /\ job'.phase \in {"routing", "fetching"} => Len(job'.basis) < 3
      <3>1. job.basis \in Seq(AllocationBases) /\ (job.phase \in {"routing", "fetching"} => Len(job.basis) < 3)
        BY <2>3 DEF CapsInv
      <3>2. <<>> \in Seq(AllocationBases) /\ Len(<<>>) < 3
        OBVIOUS
      <3> QED
        BY <2>2, <3>1, <3>2
    <2> QED
      BY <1>5, <2>2, <2>3
  <1>7. ASSUME NEW request \in Requests, Started(request)
        PROVE  CapsInv'
    <2>1. job = NoRun
      BY <1>1, <1>7 DEF Started, Typed
    <2>2. /\ job'.workflow = request.workflow /\ job'.profile = request
          /\ job'.collections = <<>> /\ job'.basis = <<>>
          /\ job'.phase = IF MissingInputs(request.workflow, request.given) = {} THEN "ready" ELSE "asked"
      BY <1>7, <2>1 DEF Started, Commanded, NoRun
    <2>3. ASSUME request.workflow = "allocation", InputsComplete'
          PROVE  /\ job'.profile.tolerance \in DOMAIN Target /\ job'.profile.cap \in Nat
                 /\ job'.profile.cash \in 0..100 /\ job'.profile.maximumLoss \in 0..100
      <3>1. job'.profile = request /\ MissingInputs("allocation", request.given) = {}
        BY <2>2, <2>3 DEF InputsComplete
      <3>2. /\ request.tolerance \in DOMAIN Target /\ request.cap \in 1..100
            /\ request.cash \in 0..100 /\ request.maximumLoss \in 0..100
        BY <2>3, <3>1, ProfileAssumption
      <3>3. request.cap \in Nat
        BY <3>2
      <3> QED
        BY <3>1, <3>2, <3>3
    <2> QED
      BY <2>2, <2>3 DEF CapsInv, Members
  <1>8. ASSUME NEW series \in Series, SourceAnswers(series)
        PROVE  CapsInv'
    <2>1. Asks /\ \E v : job' = [Advanced(TRUE) EXCEPT !.values = v]
      BY <1>8 DEF SourceAnswers, Become
    <2>2. /\ job'.phase = "fetching" /\ job.phase = "fetching"
          /\ job'.workflow = job.workflow /\ job'.collections = job.collections
          /\ job'.profile = job.profile /\ job'.basis = job.basis
      BY <1>1, <2>1 DEF Advanced, Asks, FieldsAre
    <2> QED
      BY <1>5, <2>2 DEF CapsInv
  <1>9. CASE Judge
    <2> DEFINE b == Kept(job.values[1])
    <2>1. /\ job.phase = "fetching" /\ AnyValue /\ job'.basis = Append(job.basis, b)
          /\ job'.workflow = job.workflow /\ job'.collections = job.collections
          /\ job'.profile = job.profile
          /\ job'.phase = CASE Len(job'.basis) < AssetCount[job.workflow] -> "routing"
                             [] Len(job'.basis) = AssetCount[job.workflow] /\ job.workflow = "crypto" -> "collecting"
                             [] OTHER -> "proposing"
      BY <1>1, <1>9 DEF Judge, Fetched, Become, FieldsAre
    <2>2. ASSUME job.workflow = "allocation"
          PROVE  /\ job'.basis \in Seq(AllocationBases)
                 /\ job'.phase \in {"routing", "proposing"}
                 /\ job'.phase = "routing" => Len(job'.basis) < 3
                 /\ job'.phase = "proposing" => Len(job'.basis) = 3
      <3>1. job.values[1] \in Values
        <4>1. job.values \in Seq(Values) /\ job.values # <<>>
          BY <1>1, <2>1 DEF Typed, AnyValue
        <4> QED
          BY <4>1
      <3>2. b \in AllocationBases
        BY <2>2, <3>1 DEF Kept, AllocationBasis, AllocationBases, Values, Smaller
      <3>3. job.basis \in Seq(AllocationBases) /\ Len(job.basis) < 3 /\ Len(job.basis) \in Nat
        BY <2>1, <2>2 DEF CapsInv
      <3> HIDE DEF b
      <3>4. job'.basis \in Seq(AllocationBases) /\ Len(job'.basis) = Len(job.basis) + 1
        BY <2>1, <3>2, <3>3
      <3>5. job'.phase = IF Len(job'.basis) < 3 THEN "routing" ELSE "proposing"
        BY <2>1, <2>2 DEF AssetCount
      <3> QED
        BY <3>3, <3>4, <3>5
    <2>3. CASE job.workflow = "allocation"
      BY <1>5, <2>1, <2>2, <2>3
    <2>4. CASE job.workflow # "allocation"
      BY <2>1, <2>4 DEF CapsInv
    <2> QED
      BY <2>3, <2>4
  <1>10. CASE Reject
    <2>1. /\ job.phase = "fetching" /\ job'.phase = "failed" /\ job'.basis = <<>>
          /\ job'.workflow = job.workflow /\ job'.collections = job.collections
          /\ job'.profile = job.profile
      BY <1>1, <1>10 DEF Reject, Fetched, Fail, Cleared, Become, FieldsAre
    <2> QED
      BY <1>5, <2>1
  <1>11. CASE CryptoCollected
    <2>1. job.workflow # "allocation" /\ job'.workflow = job.workflow
      BY <1>1, <1>11 DEF CryptoCollected, Checkpoint, Cleared, Become, FieldsAre, CapsInv
    <2> QED
      BY <2>1 DEF CapsInv
  <1>12. CASE Proposed
    <2> DEFINE proposal == Propose(job.profile, Risks)
               entry == [basis |-> job.basis, proposal |-> proposal]
               n == Len(job.collections) + 1
    <2>1. job.phase = "proposing" /\ InputsComplete /\ Feasible(job.profile, Risks)
          /\ ~StressExceeds(job.profile, Risks, proposal) /\ Checkpoint(proposal)
      BY <1>12 DEF Proposed
    <2>2. /\ job'.phase = "collected" /\ job'.basis = <<>> /\ job'.workflow = job.workflow
          /\ job'.profile = job.profile /\ job'.collections = Append(job.collections, entry)
      BY <1>1, <2>1 DEF Checkpoint, Cleared, Become, FieldsAre
    <2>3. ASSUME job.workflow = "allocation"
          PROVE  CapsInv'
      <3>1. /\ job.profile.tolerance \in DOMAIN Target /\ job.profile.cap \in Nat
            /\ job.profile.cash \in 0..100 /\ job.profile.maximumLoss \in 0..100
            /\ job.basis \in Seq(AllocationBases) /\ Len(job.basis) = 3
            /\ job.collections \in Seq(Members(job.collections))
            /\ \A k \in DOMAIN job.collections : Allotted(job.profile, job.collections[k])
        BY <2>1, <2>3 DEF CapsInv
      <3>2. Risks = [i \in DOMAIN job.basis |-> job.basis[i].risk]
        BY DEF Risks
      <3> HIDE DEF proposal
      <3>3. Allotted(job.profile, entry)
        BY <2>1, <3>1, <3>2, ProposedAllotted DEF proposal
      <3> HIDE DEF entry
      <3> DEFINE all == Members(job.collections) \union {entry}
      <3>4. job.collections \in Seq(all)
        <4>1. \A S, T : S \subseteq T => Seq(S) \subseteq Seq(T)
          OBVIOUS
        <4>2. Members(job.collections) \subseteq all
          OBVIOUS
        <4> QED
          BY <3>1, <4>1, <4>2
      <3>5. entry \in all
        OBVIOUS
      <3> HIDE DEF all
      <3>6. /\ job'.collections \in Seq(all) /\ DOMAIN job'.collections = DOMAIN job.collections \union {n}
            /\ job'.collections[n] = entry
            /\ \A k \in DOMAIN job.collections : job'.collections[k] = job.collections[k]
        BY <2>2, <3>4, <3>5, Appended
      <3> HIDE DEF n
      <3>7. Members(job'.collections) = all
        BY <3>6 DEF Members, all
      <3>8. \A k \in DOMAIN job'.collections : Allotted(job'.profile, job'.collections[k])
        BY <2>2, <3>1, <3>3, <3>6
      <3>9. job'.collections \in Seq(Members(job'.collections))
        BY <3>6, <3>7
      <3>10. Members(job.collections)' = Members(job'.collections)
        BY DEF Members
      <3>11. \A k \in DOMAIN job'.collections : Allotted(job.profile, job.collections[k])'
        BY <3>8 DEF Allotted
      <3> QED
        BY <2>2, <3>1, <3>9, <3>10, <3>11 DEF CapsInv, InputsComplete
    <2>4. CASE job.workflow # "allocation"
      BY <2>2, <2>4 DEF CapsInv
    <2> QED
      BY <2>3, <2>4
  <1>13. CASE FinalizeCrypto \/ FinalizeAllocation
    <2>1. /\ job.phase = "collected" /\ job'.phase = "finalized" /\ job'.basis = job.basis
          /\ job'.workflow = job.workflow /\ job'.collections = job.collections
          /\ job'.profile = job.profile
      BY <1>1, <1>13 DEF FinalizeCrypto, FinalizeAllocation, Become, FieldsAre
    <2> QED
      BY <1>5, <2>1 DEF CapsInv
  <1> QED
    BY <1>1, <1>2, <1>3, <1>6, <1>7, <1>8, <1>9, <1>10, <1>11, <1>12, <1>13, RunKeeps

\* Whatever the sources answered, the weights of every proposal add up to what
\* is not cash, keep the cap, follow the distances to the target, and lose no
\* more under stress than the profile tolerates (allocation_research.py:
\* collect; portfolio.py: propose_allocation, _capped_weights).
THEOREM MarketCapsKept == Spec => []CapsKept
  <1>1. Init => FetchInv /\ CapsInv
    <2> SUFFICES ASSUME Init PROVE FetchInv /\ CapsInv
      OBVIOUS
    <2>1. Typed /\ job.phase = "new" /\ job = NoRun
      BY TypedInit DEF Init
    <2>2. job.collections = <<>> /\ job.basis = <<>>
      BY <2>1 DEF NoRun
    <2> QED
      BY <2>1, <2>2 DEF FetchInv, CapsInv, Members
  <1>2. CapsInv => CapsKept
    BY DEF CapsInv, CapsKept, Allotted
  <1> QED
    BY <1>1, <1>2, FetchNext, CapsNext, PTL DEF Spec
=============================================================================

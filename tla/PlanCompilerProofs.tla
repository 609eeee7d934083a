--------------------------- MODULE PlanCompilerProofs ---------------------------
(***************************************************************************)
(* What the plan compiler compiles, for any catalog and call.              *)
(*                                                                         *)
(* A plan is necessary and sufficient.  While the closure runs, every      *)
(* closed set of blueprints has all that is selected and a provider of all *)
(* that is pending (Least): this needs that providers are unique, since    *)
(* otherwise the compiler could select another provider than the closed    *)
(* set did.  And what is requested or required is pending or provided      *)
(* (Provided).                                                             *)
(*                                                                         *)
(* A plan is canonical, and refused only if there is none.  Each blueprint *)
(* is the least of those whose needs are placed (Sorted), so that the      *)
(* first place at which another order differs has a greater one; and when  *)
(* none is ready, the first open place of any order would be.              *)
(***************************************************************************)
EXTENDS PlanCompiler, FiniteSetTheorems, TLAPS

\* What all steps of a composed run do to the plan compiler's variables.
PlanStep == PlanNext \/ Taken \/ \E recipe, answers : Compile(recipe, answers)

Working == {"closure", "order", "planned"}

Provided ==
  /\ \A c \in Request : c \in pending \/ Providers(c) \cap selected # {}
  /\ \A b \in selected : \A c \in Of(b).requires : c \in pending \/ Providers(c) \cap selected # {}

Least ==
  \A T \in SUBSET Scope : Closed(T) =>
    selected \subseteq T /\ \A c \in pending : Providers(c) \cap T # {}

PlanInv ==
  /\ selected \subseteq Scope
  /\ order \in Seq(selected)
  /\ pc \in {"idle", "index", "graph"} => selected = {}
  /\ pc \in {"idle", "index", "graph", "closure"} => order = <<>>
  /\ pc \in Working \cup {"graph"} => UniqueProviders
  /\ pc \in Working => Provided /\ Least
  /\ pc \in {"order", "planned"} => pending = {} /\ ~Conflicting(selected) /\ ~Clashing(selected)
  /\ pc = "planned" => Remaining = {}

LEMMA PlanStarts ==
  ASSUME PlanInit \/ PlanIdle
  PROVE  PlanInv
<1>1. pc \in {"idle", "index"} /\ selected = {} /\ order = <<>>
  BY DEF PlanInit, PlanIdle
<1> QED
  BY <1>1 DEF PlanInv, Working

\* Where the catalog and the call stay, so does everything defined by them.
LEMMA ScopeStays ==
  ASSUME UNCHANGED <<catalog, call>>
  PROVE  /\ Scope' = Scope /\ Request' = Request /\ UniqueProviders' = UniqueProviders
         /\ \A c : Providers(c)' = Providers(c)
         /\ \A b : Of(b)' = Of(b)
         /\ \A T : Closed(T)' = Closed(T)
BY DEF Scope, Request, UniqueProviders, Providers, Of, Closed

LEMMA IndexPreserves ==
  ASSUME PlanInv, Index
  PROVE  PlanInv'
<1>1. UNCHANGED <<catalog, call, pending, selected, order>> /\ pc = "index" /\ selected = {} /\ order = <<>>
  BY DEF Index, Pass, PlanInv
<1>2. pc' \in {"graph", "refused"} /\ (pc' = "graph" => UniqueProviders)
  BY DEF Index, Pass
<1> QED
  BY <1>1, <1>2, ScopeStays DEF PlanInv, Working

LEMMA ValidatePreserves ==
  ASSUME PlanInv, ValidateGraph
  PROVE  PlanInv'
<1>1. /\ UNCHANGED <<catalog, call, selected, order>> /\ pending' = Request
      /\ selected = {} /\ order = <<>> /\ UniqueProviders
  BY DEF ValidateGraph, Pass, PlanInv
<1>2. pc' \in {"closure", "refused"}
  BY DEF ValidateGraph, Pass
<1>3. Provided'
  BY <1>1, ScopeStays DEF Provided
<1>4. Least'
  <2> SUFFICES ASSUME NEW T \in SUBSET Scope, Closed(T)
               PROVE  \A c \in Request : Providers(c) \cap T # {}
    BY <1>1, ScopeStays DEF Least
  <2> QED
    BY DEF Closed
<1> QED
  BY <1>1, <1>2, <1>3, <1>4, ScopeStays DEF PlanInv, Working

LEMMA SelectPreserves ==
  ASSUME PlanInv, NEW c \in Capability, Select(c)
  PROVE  PlanInv'
<1>1. /\ UNCHANGED <<catalog, call, order>> /\ pc = "closure" /\ order = <<>> /\ c \in pending
      /\ selected' = selected \cup Providers(c)
      /\ pending' = (pending \ {c}) \cup UNION {Of(b).requires : b \in Providers(c) \ selected}
      /\ pc' = IF Providers(c) # {} THEN "closure" ELSE "refused"
      /\ UniqueProviders /\ Provided /\ Least /\ selected \subseteq Scope
  BY DEF Select, Pass, PlanInv, Working
<1>2. selected' \subseteq Scope
  BY <1>1 DEF Providers
<1>3. ASSUME pc' = "closure"
      PROVE  Provided'
  <2>1. Providers(c) # {}
    BY <1>1, <1>3
  <2>2. ASSUME NEW x, x \in pending \/ Providers(x) \cap selected # {}
        PROVE  x \in pending' \/ Providers(x) \cap selected' # {}
    BY <1>1, <2>1, <2>2
  <2>3. \A x \in Request : x \in pending' \/ Providers(x) \cap selected' # {}
    BY <1>1, <2>2 DEF Provided
  <2>4. ASSUME NEW b \in selected', NEW x \in Of(b).requires
        PROVE  x \in pending' \/ Providers(x) \cap selected' # {}
    <3>1. CASE b \in selected
      BY <1>1, <2>2, <3>1 DEF Provided
    <3>2. CASE b \in Providers(c) \ selected
      BY <1>1, <3>2
    <3> QED
      BY <1>1, <3>1, <3>2
  <2> QED
    BY <1>1, <2>3, <2>4, ScopeStays DEF Provided
<1>4. Least'
  <2> SUFFICES ASSUME NEW T \in SUBSET Scope, Closed(T)
               PROVE  selected' \subseteq T /\ \A x \in pending' : Providers(x) \cap T # {}
    BY <1>1, ScopeStays DEF Least
  <2>1. selected \subseteq T /\ \A x \in pending : Providers(x) \cap T # {}
    BY <1>1 DEF Least
  <2>2. ASSUME NEW p \in Providers(c), NEW q \in Providers(c) PROVE p = q
    BY <1>1 DEF UniqueProviders, Providers
  <2>3. Providers(c) \subseteq T
    BY <1>1, <2>1, <2>2
  <2>4. \A b \in Providers(c) : \A x \in Of(b).requires : Providers(x) \cap T # {}
    BY <2>3 DEF Closed
  <2> QED
    BY <1>1, <2>1, <2>3, <2>4
<1> QED
  BY <1>1, <1>2, <1>3, <1>4, ScopeStays DEF PlanInv, Working

LEMMA CheckPreserves ==
  ASSUME PlanInv, CheckSelection
  PROVE  PlanInv'
<1>1. /\ UNCHANGED <<catalog, call, pending, selected, order>> /\ pc = "closure" /\ pending = {}
      /\ order = <<>> /\ UniqueProviders /\ Provided /\ Least /\ selected \subseteq Scope
      /\ order \in Seq(selected)
  BY DEF CheckSelection, Pass, PlanInv, Working
<1>2. /\ pc' \in {"order", "refused"}
      /\ pc' = "order" => ~Conflicting(selected) /\ ~Clashing(selected)
  BY DEF CheckSelection, Pass
<1>3. Provided' /\ Least'
  BY <1>1, ScopeStays DEF Provided, Least
<1>4. Conflicting(selected)' = Conflicting(selected) /\ Clashing(selected)' = Clashing(selected)
  BY <1>1 DEF Conflicting, Clashing, Of
<1> QED
  BY <1>1, <1>2, <1>3, <1>4, ScopeStays DEF PlanInv, Working

LEMMA OrderPreserves ==
  ASSUME PlanInv, FinishOrder \/ \E b \in Blueprint : Place(b)
  PROVE  PlanInv'
<1>1. /\ UNCHANGED <<catalog, call, pending, selected>> /\ pc = "order" /\ pending = {}
      /\ UniqueProviders /\ Provided /\ Least /\ selected \subseteq Scope
      /\ ~Conflicting(selected) /\ ~Clashing(selected)
  BY DEF FinishOrder, Place, Pass, PlanInv, Working
<1>2. order' \in Seq(selected)
  <2>1. order \in Seq(selected)
    BY DEF PlanInv
  <2>2. CASE FinishOrder
    BY <2>1, <2>2 DEF FinishOrder
  <2>3. ASSUME NEW b \in Blueprint, Place(b) PROVE order' \in Seq(selected)
    <3>1. b \in selected /\ order' = Append(order, b)
      BY <2>3 DEF Place, Chosen, Ready, Remaining
    <3> QED
      BY <2>1, <3>1
  <2> QED
    BY <2>2, <2>3
<1>3. pc' \in {"order", "planned", "refused"} /\ (pc' = "planned" => Remaining' = {})
  BY <1>1 DEF FinishOrder, Place, Pass, Remaining
<1>4. Provided' /\ Least'
  BY <1>1, ScopeStays DEF Provided, Least
<1>5. Conflicting(selected)' = Conflicting(selected) /\ Clashing(selected)' = Clashing(selected)
  BY <1>1 DEF Conflicting, Clashing, Of
<1> QED
  BY <1>1, <1>2, <1>3, <1>4, <1>5, ScopeStays DEF PlanInv, Working

LEMMA PlanStepPreserves ==
  ASSUME PlanInv, PlanStep \/ UNCHANGED planVars
  PROVE  PlanInv'
<1>1. CASE PlanNext
  BY <1>1, IndexPreserves, ValidatePreserves, SelectPreserves, CheckPreserves, OrderPreserves DEF PlanNext
<1>2. CASE Taken
  BY <1>2 DEF Taken, PlanInv, Working
<1>3. ASSUME NEW recipe, NEW answers, Compile(recipe, answers) PROVE PlanInv'
  BY <1>3 DEF Compile, PlanInv, Working
<1>4. CASE UNCHANGED planVars
  <2>1. UNCHANGED <<catalog, call, pc, pending, selected, order>>
    BY <1>4 DEF planVars
  <2>2. Scope' = Scope /\ UniqueProviders' = UniqueProviders
    BY <2>1, ScopeStays
  <2>3. Provided' = Provided /\ Least' = Least
    BY <2>1, ScopeStays DEF Provided, Least
  <2>4. Conflicting(selected)' = Conflicting(selected) /\ Clashing(selected)' = Clashing(selected)
    BY <2>1 DEF Conflicting, Clashing, Of
  <2> QED
    BY <2>1, <2>2, <2>3, <2>4 DEF PlanInv, Remaining
<1> QED
  BY <1>1, <1>2, <1>3, <1>4 DEF PlanStep

LEMMA PlanInvSuffices ==
  ASSUME PlanInv
  PROVE  PlanIsNecessaryAndSufficient
<1> SUFFICES ASSUME pc = "planned"
             PROVE  LeastClosed(ToSet(order)) /\ Compatible(ToSet(order))
  BY DEF PlanIsNecessaryAndSufficient
<1>1. ToSet(order) = selected
  <2>1. order \in Seq(selected) /\ selected \subseteq ToSet(order)
    BY DEF PlanInv, Remaining
  <2> QED
    BY <2>1 DEF ToSet
<1>2. LeastClosed(selected)
  BY DEF PlanInv, Working, Provided, Least, LeastClosed, Closed
<1>3. ASSUME NEW c \in Capability
      PROVE  ~ ({b \in selected : c \in Of(b).provides} # {} /\ {b \in selected : c \in Of(b).conflicts} # {})
  BY DEF PlanInv, Conflicting
<1>4. ASSUME NEW t \in Target
      PROVE  Cardinality({b \in selected : t \in Of(b).files}) <= 1
  <2> DEFINE owners == {b \in selected : t \in Of(b).files}
  <2>1. \A a, b \in owners : a = b
    BY DEF PlanInv, Clashing
  <2>2. owners = {} \/ \E b : owners = {b}
    BY <2>1
  <2> HIDE DEF owners
  <2>3. Cardinality(owners) = 0 \/ Cardinality(owners) = 1
    BY <2>2, FS_EmptySet, FS_Singleton
  <2> QED
    BY <2>3 DEF owners
<1> QED
  BY <1>1, <1>2, <1>3, <1>4 DEF Compatible

\* The plan compiler called directly, as a library: for every catalog and call
\* a plan is the least closed set of blueprints, without conflict.
THEOREM DirectPlansAreExact == PlanSpec => []PlanIsNecessaryAndSufficient
<1>1. PlanInit => PlanInv
  BY PlanStarts
<1>2. PlanInv /\ [PlanNext]_planVars => PlanInv'
  BY PlanStepPreserves DEF PlanStep
<1> QED
  BY <1>1, <1>2, PlanInvSuffices, PTL DEF PlanSpec

----------------------------------------------------------------------------
(***************************************************************************)
(* Orders.  A plan is refused for its order, or accepted with it, by an    *)
(* algorithm that knows one prefix at a time.  TopologicalOrders builds    *)
(* all orders, by length; here is what they are.                           *)
(***************************************************************************)

\* A set of numbers has a least one.
LEMMA LeastNumber ==
  ASSUME NEW T \in SUBSET Nat, T # {}
  PROVE  \E m \in T : \A k \in T : m <= k
<1> DEFINE R == OpToRel(<, Nat)
<1>1. IsWellFoundedOn(R, Nat)
  BY NatLessThanWellFounded
<1>2. \A k, m \in Nat : k < m => <<k, m>> \in R
  BY DEF OpToRel
<1> HIDE DEF R
<1>3. PICK m \in T : \A k \in T : <<k, m>> \notin R
  BY <1>1, WFMin
<1>4. ASSUME NEW k \in T PROVE m <= k
  <2>1. m \in Nat /\ k \in Nat /\ ~(k < m)
    BY <1>2, <1>3
  <2> QED
    BY <2>1
<1> QED
  BY <1>4

\* The blueprints before place i.
Upto(s, i) == {s[j] : j \in 1 .. i - 1}

\* The sequences of n different blueprints of S, each after those it needs.
OrdersOf(S, n) ==
  {s \in [1 .. n -> S] :
     \A i \in 1 .. n : s[i] \notin Upto(s, i) /\ Before(S, s[i]) \subseteq Upto(s, i)}

LEMMA LongerOrders ==
  ASSUME NEW S, NEW n \in Nat \ {0}
  PROVE  OrdersOf(S, n) = Longer(S, OrdersOf(S, n - 1))
<1>1. ASSUME NEW s \in OrdersOf(S, n - 1), NEW b \in Placeable(S, s)
      PROVE  Append(s, b) \in OrdersOf(S, n)
  <2> DEFINE t == Append(s, b)
  <2>1. s \in [1 .. n - 1 -> S] /\ s \in Seq(S) /\ Len(s) = n - 1 /\ b \in S
    BY DEF OrdersOf, Placeable
  <2>2. t \in [1 .. n -> S] /\ t[n] = b /\ \A i \in 1 .. n - 1 : t[i] = s[i]
    <3>1. t \in Seq(S) /\ Len(t) = n /\ t[n] = b /\ \A i \in 1 .. n - 1 : t[i] = s[i]
      BY <2>1
    <3> HIDE DEF t
    <3> QED
      BY <3>1
  <2>3. ToSet(s) = Upto(s, n)
    BY <2>1 DEF ToSet, Upto
  <2> HIDE DEF t
  <2>4. \A i \in 1 .. n : Upto(t, i) = Upto(s, i)
    BY <2>2 DEF Upto
  <2>5. ASSUME NEW i \in 1 .. n
        PROVE  t[i] \notin Upto(t, i) /\ Before(S, t[i]) \subseteq Upto(t, i)
    <3>1. CASE i = n
      BY <2>2, <2>3, <2>4, <3>1 DEF Placeable
    <3>2. CASE i \in 1 .. n - 1
      BY <2>2, <2>4, <3>2 DEF OrdersOf
    <3> QED
      BY <3>1, <3>2
  <2>6. t \in OrdersOf(S, n)
    BY <2>2, <2>5 DEF OrdersOf
  <2> QED
    BY <2>6 DEF t
<1>2. ASSUME NEW t \in OrdersOf(S, n)
      PROVE  \E s \in OrdersOf(S, n - 1) : \E b \in Placeable(S, s) : t = Append(s, b)
  <2> DEFINE s == [i \in 1 .. n - 1 |-> t[i]]
             b == t[n]
  <2>1. t \in [1 .. n -> S]
    BY DEF OrdersOf
  <2>2. s \in [1 .. n - 1 -> S] /\ s \in Seq(S) /\ Len(s) = n - 1 /\ b \in S
    BY <2>1
  <2>3. \A i \in 1 .. n - 1 : s[i] = t[i]
    OBVIOUS
  <2>4. t = Append(s, b)
    BY <2>1, <2>2
  <2> HIDE DEF s, b
  <2>5. \A i \in 1 .. n : Upto(s, i) = Upto(t, i)
    BY <2>3 DEF Upto
  <2>6. s \in OrdersOf(S, n - 1)
    BY <2>2, <2>3, <2>5 DEF OrdersOf
  <2>7. ToSet(s) = Upto(t, n)
    <3>1. ToSet(s) = Upto(s, n)
      BY <2>2 DEF ToSet, Upto
    <3> QED
      BY <2>5, <3>1
  <2>8. b \in Placeable(S, s)
    BY <2>1, <2>2, <2>7 DEF OrdersOf, Placeable, b
  <2> QED
    BY <2>4, <2>6, <2>8
<1>3. \A t : t \in Longer(S, OrdersOf(S, n - 1)) <=>
             \E s \in OrdersOf(S, n - 1) : \E b \in Placeable(S, s) : t = Append(s, b)
  BY DEF Longer
<1>4. ASSUME NEW t \in Longer(S, OrdersOf(S, n - 1)) PROVE t \in OrdersOf(S, n)
  <2>1. PICK s \in OrdersOf(S, n - 1) : \E b \in Placeable(S, s) : t = Append(s, b)
    BY <1>3
  <2>2. PICK b \in Placeable(S, s) : t = Append(s, b)
    BY <2>1
  <2>3. Append(s, b) \in OrdersOf(S, n)
    BY <1>1
  <2> QED
    BY <2>2, <2>3
<1>5. \A t : t \in OrdersOf(S, n) => t \in Longer(S, OrdersOf(S, n - 1))
  BY <1>2, <1>3
<1> QED
  BY <1>4, <1>5
LEMMA OrdersAreOrders ==
  ASSUME NEW S, IsFiniteSet(S)
  PROVE  TopologicalOrders(S) = OrdersOf(S, Cardinality(S))
<1> DEFINE N == Cardinality(S)
           Recurs(f) == f = [n \in 0 .. N |-> IF n = 0 THEN {<<>>} ELSE Longer(S, f[n - 1])]
           g == [n \in 0 .. N |-> OrdersOf(S, n)]
           h == CHOOSE f : Recurs(f)
<1>1. N \in Nat
  BY FS_CardinalityType
<1>2. TopologicalOrders(S) = h[N]
  BY DEF TopologicalOrders
<1> HIDE DEF N
<1>3. OrdersOf(S, 0) = {<<>>}
  <2>1. ASSUME NEW s \in [1 .. 0 -> S] PROVE s = <<>>
    <3>1. s \in Seq(S) /\ Len(s) = 0
      OBVIOUS
    <3> QED
      BY <3>1
  <2>2. <<>> \in [1 .. 0 -> S]
    OBVIOUS
  <2>3. \A s : s \in OrdersOf(S, 0) <=> s \in [1 .. 0 -> S]
    <3>1. 1 .. 0 = {}
      OBVIOUS
    <3> QED
      BY <3>1 DEF OrdersOf
  <2>4. \A s : s \in OrdersOf(S, 0) <=> s = <<>>
    BY <2>1, <2>2, <2>3
  <2> QED
    BY <2>4
<1>4. Recurs(g)
  <2>1. \A n \in 0 .. N : g[n] = IF n = 0 THEN {<<>>} ELSE Longer(S, g[n - 1])
    BY <1>1, <1>3, LongerOrders
  <2> QED
    BY <2>1
<1> HIDE DEF g
<1>5. Recurs(h)
  <2> HIDE DEF Recurs
  <2> QED
    BY <1>4
<1> HIDE DEF h
<1>6. \A n \in 0 .. N : h[n] = g[n]
  <2> DEFINE Wrong == {n \in 0 .. N : h[n] # g[n]}
  <2> SUFFICES ASSUME Wrong # {} PROVE FALSE
    OBVIOUS
  <2>1. PICK m \in Wrong : \A k \in Wrong : m <= k
    <3>1. Wrong \in SUBSET Nat
      BY <1>1
    <3> HIDE DEF Wrong
    <3> QED
      BY <3>1, LeastNumber
  <2>2. m # 0 /\ m \in 0 .. N
    BY <1>1, <1>4, <1>5, <2>1
  <2>3. m - 1 \in 0 .. N /\ h[m - 1] = g[m - 1]
    BY <1>1, <2>1, <2>2
  <2>4. h[m] = Longer(S, h[m - 1]) /\ g[m] = Longer(S, g[m - 1])
    BY <1>4, <1>5, <2>2
  <2> QED
    BY <2>1, <2>3, <2>4
<1> QED
  BY <1>1, <1>2, <1>6 DEF g, N

\* Two orders of the same blueprints of which neither is first are the same.
Sorted ==
  \A i \in DOMAIN order :
    /\ order[i] \notin Upto(order, i) /\ Needs(order[i]) \subseteq Upto(order, i)
    /\ \A a \in selected \ Upto(order, i) : Needs(a) \subseteq Upto(order, i) => order[i] <= a

\* Possible, by the lemma above.
CanBePlanned ==
  /\ ScopeAvailable /\ Request # {} /\ UniqueProviders /\ GraphValid
  /\ \E S \in SUBSET Scope :
       LeastClosed(S) /\ Compatible(S) /\ OrdersOf(S, Cardinality(S)) # {}

OrderInv ==
  /\ IsCatalog(catalog)
  /\ pc \in Working \cup {"graph"} => ScopeAvailable
  /\ pc \in Working => GraphValid /\ Request # {}
  /\ pc = "refused" => ~CanBePlanned
  /\ Sorted

\* What a set of blueprints is worth depends on the catalog and the call alone.
LEMMA WorthStays ==
  ASSUME UNCHANGED <<catalog, call>>
  PROVE  /\ IsCatalog(catalog)' = IsCatalog(catalog)
         /\ ScopeAvailable' = ScopeAvailable /\ GraphValid' = GraphValid
         /\ CanBePlanned' = CanBePlanned
<1>1. IsCatalog(catalog)' = IsCatalog(catalog) /\ ScopeAvailable' = ScopeAvailable
  BY DEF IsCatalog, ScopeAvailable
<1>2. GraphValid' = GraphValid
  BY ScopeStays DEF GraphValid, RequiresAcyclic
<1>3. \A S : LeastClosed(S)' = LeastClosed(S)
  BY ScopeStays DEF LeastClosed
<1>4. \A S : Compatible(S)' = Compatible(S)
  BY DEF Compatible, Of
<1>5. \A S, b : Before(S, b)' = Before(S, b)
  BY ScopeStays DEF Before
<1>6. \A S, n : OrdersOf(S, n)' = OrdersOf(S, n)
  BY <1>5 DEF OrdersOf, Upto
<1> QED
  BY <1>1, <1>2, <1>3, <1>4, <1>6, ScopeStays DEF CanBePlanned

LEMMA SelectionsAreFinite ==
  ASSUME IsCatalog(catalog), NEW S \in SUBSET Scope
  PROVE  IsFiniteSet(S) /\ Cardinality(S) \in Nat /\ S \subseteq Nat
<1>1. S \subseteq Blueprint
  BY DEF IsCatalog, Scope
<1> QED
  BY <1>1, BlueprintsAreIds, FS_Subset, FS_CardinalityType

LEMMA PossibleIsCanBe ==
  ASSUME IsCatalog(catalog)
  PROVE  Possible <=> CanBePlanned
BY SelectionsAreFinite, OrdersAreOrders DEF Possible, CanBePlanned

LEMMA IndexRefuses == ASSUME PlanInv, OrderInv, Index PROVE OrderInv'
<1>1. /\ UNCHANGED <<catalog, call, selected, order>> /\ order = <<>>
      /\ pc' \in {"graph", "refused"}
      /\ pc' = "graph" => ScopeAvailable
      /\ pc' = "refused" => ~ScopeAvailable \/ ~UniqueProviders \/ Request = {}
  BY DEF Index, Pass, PlanInv
<1>2. Sorted'
  BY <1>1 DEF Sorted
<1>3. pc' = "refused" => ~CanBePlanned'
  BY <1>1, WorthStays DEF CanBePlanned
<1> QED
  BY <1>1, <1>2, <1>3, WorthStays DEF OrderInv, Working

LEMMA ValidateRefuses == ASSUME PlanInv, OrderInv, ValidateGraph PROVE OrderInv'
<1>1. /\ UNCHANGED <<catalog, call, selected, order>> /\ order = <<>> /\ pc = "graph"
      /\ pc' \in {"closure", "refused"}
      /\ pc' = "closure" => GraphValid /\ Request # {}
      /\ pc' = "refused" => ~GraphValid \/ Request = {}
  BY DEF ValidateGraph, Pass, PlanInv
<1>2. Sorted'
  BY <1>1 DEF Sorted
<1>3. pc' = "refused" => ~CanBePlanned'
  BY <1>1, WorthStays DEF CanBePlanned
<1> QED
  BY <1>1, <1>2, <1>3, WorthStays, ScopeStays DEF OrderInv, Working

\* What nobody provides is in no closed set, since all that is pending is needed.
LEMMA SelectRefuses ==
  ASSUME PlanInv, OrderInv, NEW c \in Capability, Select(c) PROVE OrderInv'
<1>1. /\ UNCHANGED <<catalog, call, order>> /\ order = <<>> /\ pc = "closure" /\ c \in pending /\ Least
      /\ pc' \in {"closure", "refused"}
      /\ pc' = "refused" => Providers(c) = {}
  BY DEF Select, Pass, PlanInv, Working
<1>2. Sorted'
  BY <1>1 DEF Sorted
<1>3. pc' = "refused" => ~CanBePlanned
  BY <1>1 DEF CanBePlanned, Least, LeastClosed
<1> QED
  BY <1>1, <1>2, <1>3, WorthStays, ScopeStays DEF OrderInv, Working

\* The selection is the least closed set when nothing is pending.
LEMMA SelectionIsLeast ==
  ASSUME PlanInv, pc \in Working, pending = {}
  PROVE  LeastClosed(selected) /\ \A S \in SUBSET Scope : LeastClosed(S) => S = selected
<1>1. LeastClosed(selected) /\ selected \subseteq Scope
  BY DEF PlanInv, Provided, Least, LeastClosed, Closed
<1> QED
  BY <1>1 DEF LeastClosed

LEMMA IncompatibleIfRefused ==
  ASSUME IsCatalog(catalog), NEW S \in SUBSET Scope, Conflicting(S) \/ Clashing(S)
  PROVE  ~Compatible(S)
<1>1. \A b \in S : Of(b).provides \subseteq Capability /\ Of(b).files \subseteq Target
  BY DEF IsCatalog, Scope, Of, Manifest
<1>2. CASE Conflicting(S)
  BY <1>1, <1>2 DEF Conflicting, Compatible
<1>3. CASE Clashing(S)
  <2>1. PICK a \in S, b \in S : a # b /\ Of(a).files \cap Of(b).files # {}
    BY <1>3 DEF Clashing
  <2>2. PICK t \in Target : t \in Of(a).files /\ t \in Of(b).files
    BY <1>1, <2>1
  <2> DEFINE owners == {x \in S : t \in Of(x).files}
  <2>3. IsFiniteSet(owners) /\ Cardinality(owners) \in Nat
    BY SelectionsAreFinite, FS_Subset, FS_CardinalityType
  <2>4. a \in owners /\ b \in owners
    BY <2>2
  <2> HIDE DEF owners
  <2>5. Cardinality(owners) # 0 /\ Cardinality(owners) # 1
    BY <2>1, <2>3, <2>4, FS_EmptySet, FS_Singleton
  <2>6. ~(Cardinality(owners) <= 1)
    BY <2>3, <2>5
  <2> QED
    BY <2>6 DEF Compatible, owners
<1> QED
  BY <1>2, <1>3

LEMMA CheckRefuses == ASSUME PlanInv, OrderInv, CheckSelection PROVE OrderInv'
<1>1. /\ UNCHANGED <<catalog, call, order, selected>> /\ order = <<>> /\ pc = "closure" /\ pending = {}
      /\ selected \subseteq Scope
      /\ pc' \in {"order", "refused"}
      /\ pc' = "refused" => Conflicting(selected) \/ Clashing(selected)
  BY DEF CheckSelection, Pass, PlanInv
<1>2. Sorted'
  BY <1>1 DEF Sorted
<1>3. pc' = "refused" => ~CanBePlanned
  <2>1. IsCatalog(catalog) /\ pc \in Working
    BY <1>1 DEF OrderInv, Working
  <2> QED
    BY <1>1, <2>1, SelectionIsLeast, IncompatibleIfRefused DEF CanBePlanned
<1> QED
  BY <1>1, <1>2, <1>3, WorthStays, ScopeStays DEF OrderInv, Working

\* A blueprint is placed after what it needs, and is the least of those that can be.
LEMMA PlaceSorts ==
  ASSUME PlanInv, OrderInv, NEW b \in Blueprint, Place(b) PROVE OrderInv'
<1>1. /\ UNCHANGED <<catalog, call, selected, pc>> /\ order' = Append(order, b) /\ pc = "order"
      /\ order \in Seq(selected) /\ b \in selected \ ToSet(order)
      /\ Needs(b) \subseteq ToSet(order)
      /\ \A a \in selected \ ToSet(order) : Needs(a) \subseteq ToSet(order) => b <= a
  BY DEF Place, Chosen, Ready, Remaining, PlanInv
<1>2. \A a : Needs(a)' = Needs(a)
  BY <1>1, ScopeStays DEF Needs
<1> DEFINE n == Len(order)
           next == Append(order, b)
<1>3. /\ n \in Nat /\ DOMAIN order = 1 .. n /\ DOMAIN next = 1 .. n + 1
      /\ next[n + 1] = b /\ \A i \in 1 .. n : next[i] = order[i]
  BY <1>1
<1> HIDE DEF n, next
<1>4. /\ \A i \in 1 .. n + 1 : Upto(next, i) = Upto(order, i)
      /\ Upto(order, n + 1) = ToSet(order)
  BY <1>3 DEF Upto, ToSet
<1>5. Sorted'
  <2>1. order' = next
    BY <1>1 DEF next
  <2> SUFFICES ASSUME NEW i \in 1 .. n + 1
               PROVE  /\ next[i] \notin Upto(next, i) /\ Needs(next[i]) \subseteq Upto(next, i)
                      /\ \A a \in selected \ Upto(next, i) : Needs(a) \subseteq Upto(next, i) => next[i] <= a
    BY <1>1, <1>2, <1>3, <2>1 DEF Sorted, Upto
  <2>2. CASE i = n + 1
    BY <1>1, <1>3, <1>4, <2>2
  <2>3. CASE i \in 1 .. n
    <3>1. next[i] = order[i] /\ Upto(next, i) = Upto(order, i) /\ i \in DOMAIN order
      BY <1>3, <1>4, <2>3
    <3> QED
      BY <3>1 DEF OrderInv, Sorted
  <2> QED
    BY <1>3, <2>2, <2>3
<1> QED
  BY <1>1, <1>5, WorthStays, ScopeStays DEF OrderInv, Working

\* If some order exists, the first blueprint of it that is not placed can be.
LEMMA StuckIsImpossible ==
  ASSUME PlanInv, OrderInv, pc = "order", Ready = {}, Remaining # {}
  PROVE  ~CanBePlanned
<1> DEFINE n == Cardinality(selected)
<1>1. IsFiniteSet(selected) /\ n \in Nat /\ selected \subseteq Scope
  BY SelectionsAreFinite DEF PlanInv, OrderInv
<1> SUFFICES ASSUME NEW s \in OrdersOf(selected, n) PROVE FALSE
  BY SelectionIsLeast DEF PlanInv, Working, CanBePlanned
<1> HIDE DEF n
<1>2. s \in [1 .. n -> selected] /\ \A i, j \in 1 .. n : s[i] = s[j] => i = j
  <2>1. s \in [1 .. n -> selected]
    BY DEF OrdersOf
  <2>2. ASSUME NEW i \in 1 .. n, NEW j \in 1 .. n, i < j PROVE s[i] # s[j]
    <3>1. i \in 1 .. j - 1
      BY <1>1, <2>2
    <3> QED
      BY <3>1 DEF OrdersOf, Upto
  <2>3. ASSUME NEW i \in 1 .. n, NEW j \in 1 .. n, s[i] = s[j] PROVE i = j
    <3>1. ~(i < j) /\ ~(j < i) /\ i \in Int /\ j \in Int
      BY <1>1, <2>2, <2>3
    <3> QED
      BY <3>1
  <2> QED
    BY <2>1, <2>3
<1>3. \A b \in selected : \E i \in 1 .. n : s[i] = b
  <2>1. s \in Injection(1 .. n, selected)
    BY <1>2 DEF Injection, IsInjective
  <2>2. Cardinality(1 .. n) = n
    BY <1>1, FS_Interval
  <2>3. s \in Surjection(1 .. n, selected)
    BY <1>1, <2>1, <2>2, FS_Injection DEF n
  <2> QED
    BY <2>3 DEF Surjection
<1> DEFINE Open == {i \in 1 .. n : s[i] \notin ToSet(order)}
<1>4. PICK m \in Open : \A k \in Open : m <= k
  <2>1. Open # {}
    BY <1>3 DEF Remaining
  <2>2. Open \in SUBSET Nat
    BY <1>1
  <2> HIDE DEF Open
  <2> QED
    BY <2>1, <2>2, LeastNumber
<1>5. Upto(s, m) \subseteq ToSet(order)
  <2> SUFFICES ASSUME NEW j \in 1 .. m - 1 PROVE s[j] \in ToSet(order)
    BY DEF Upto
  <2>1. j \in 1 .. n /\ ~(m <= j)
    BY <1>1
  <2> QED
    BY <1>4, <2>1
<1>6. s[m] \in Remaining /\ Needs(s[m]) \subseteq ToSet(order)
  BY <1>2, <1>5 DEF OrdersOf, Before, Needs, Remaining
<1> QED
  BY <1>6 DEF Ready

LEMMA FinishRefuses == ASSUME PlanInv, OrderInv, FinishOrder PROVE OrderInv'
<1>1. /\ UNCHANGED <<catalog, call, order, selected>> /\ pc = "order" /\ Ready = {}
      /\ pc' \in {"planned", "refused"}
      /\ pc' = "refused" => Remaining # {}
  BY DEF FinishOrder, Pass
<1>2. Sorted'
  BY <1>1, ScopeStays DEF OrderInv, Sorted, Needs, Upto
<1>3. pc' = "refused" => ~CanBePlanned
  BY <1>1, StuckIsImpossible
<1> QED
  BY <1>1, <1>2, <1>3, WorthStays, ScopeStays DEF OrderInv, Working

\* A step of the compiler in the context of any program that loads a catalog.
LEMMA PlanStepRefuses ==
  ASSUME PlanInv, OrderInv, PlanStep \/ UNCHANGED planVars
  PROVE  OrderInv'
<1>1. CASE PlanNext
  BY <1>1, IndexRefuses, ValidateRefuses, SelectRefuses, CheckRefuses, FinishRefuses, PlaceSorts DEF PlanNext
<1>2. CASE Taken \/ \E recipe, answers : Compile(recipe, answers)
  <2>1. catalog' = catalog /\ order' = <<>> /\ pc' \in {"idle", "index"}
    BY <1>2 DEF Taken, Compile, PlanInv
  <2> QED
    BY <2>1 DEF OrderInv, Working, Sorted, IsCatalog
<1>3. CASE UNCHANGED planVars
  <2>1. UNCHANGED <<catalog, call, pc, pending, selected, order>>
    BY <1>3 DEF planVars
  <2>2. Sorted'
    BY <2>1, ScopeStays DEF OrderInv, Sorted, Needs, Upto
  <2> QED
    BY <2>1, <2>2, WorthStays, ScopeStays DEF OrderInv
<1> QED
  BY <1>1, <1>2, <1>3 DEF PlanStep

\* A plan that is finished is an order of the selection ...
LEMMA PlansAreOrders ==
  ASSUME PlanInv, OrderInv, pc = "planned"
  PROVE  order \in OrdersOf(selected, Cardinality(selected))
<1> DEFINE n == Len(order)
<1>1. /\ IsFiniteSet(selected) /\ selected \subseteq Scope
      /\ order \in Seq(selected) /\ selected \subseteq ToSet(order)
  BY SelectionsAreFinite DEF PlanInv, OrderInv, Remaining
<1>2. n \in Nat /\ order \in [1 .. n -> selected] /\ DOMAIN order = 1 .. n
  BY <1>1
<1> HIDE DEF n
<1>3. \A i \in 1 .. n : order[i] \notin Upto(order, i) /\ Before(selected, order[i]) \subseteq Upto(order, i)
  BY <1>2 DEF OrderInv, Sorted, Needs, Before
<1>4. order \in Injection(1 .. n, selected)
  <2>1. ASSUME NEW i \in 1 .. n, NEW j \in 1 .. n, i < j PROVE order[i] # order[j]
    <3>1. i \in 1 .. j - 1
      BY <1>2, <2>1
    <3> QED
      BY <1>3, <3>1 DEF Upto
  <2>2. ASSUME NEW i \in 1 .. n, NEW j \in 1 .. n, order[i] = order[j] PROVE i = j
    <3>1. ~(i < j) /\ ~(j < i) /\ i \in Int /\ j \in Int
      BY <1>2, <2>1, <2>2
    <3> QED
      BY <3>1
  <2> QED
    BY <1>2, <2>2 DEF Injection, IsInjective
<1>5. order \in Surjection(1 .. n, selected)
  BY <1>1, <1>2 DEF Surjection, ToSet
<1>6. Cardinality(1 .. n) = n
  BY <1>2, FS_Interval
<1>7. Cardinality(selected) = n
  BY <1>1, <1>4, <1>5, <1>6, FS_Injection
<1> QED
  BY <1>2, <1>3, <1>7 DEF OrdersOf

\* ... and the first of them.
LEMMA PlansAreFirst ==
  ASSUME PlanInv, OrderInv, pc = "planned", NEW s \in OrdersOf(selected, Cardinality(selected))
  PROVE  NotAfter(order, s)
<1> DEFINE n == Cardinality(selected)
           Apart == {i \in 1 .. n : order[i] # s[i]}
<1>1. n \in Nat /\ selected \subseteq Nat /\ selected \subseteq Scope
  BY SelectionsAreFinite DEF PlanInv, OrderInv
<1>2. order \in [1 .. n -> selected] /\ s \in [1 .. n -> selected] /\ DOMAIN s = 1 .. n /\ DOMAIN order = 1 .. n
  BY PlansAreOrders DEF OrdersOf
<1>3. CASE Apart = {}
  <2>1. \A i \in 1 .. n : order[i] = s[i]
    BY <1>3
  <2>2. order = [i \in 1 .. n |-> order[i]] /\ s = [i \in 1 .. n |-> s[i]]
    BY <1>2
  <2>3. order = s
    BY <2>1, <2>2
  <2> QED
    BY <2>3 DEF NotAfter
<1>4. CASE Apart # {}
  <2>1. PICK m \in Apart : \A k \in Apart : m <= k
    <3>1. Apart \in SUBSET Nat
      BY <1>1
    <3> HIDE DEF Apart
    <3> QED
      BY <1>4, <3>1, LeastNumber
  <2>2. \A j \in 1 .. m - 1 : order[j] = s[j]
    <3> SUFFICES ASSUME NEW j \in 1 .. m - 1 PROVE order[j] = s[j]
      OBVIOUS
    <3>1. j \in 1 .. n /\ ~(m <= j)
      BY <1>1
    <3> QED
      BY <2>1, <3>1
  <2>3. Upto(s, m) = Upto(order, m)
    BY <2>2 DEF Upto
  <2>4. s[m] \in selected \ Upto(order, m) /\ Needs(s[m]) \subseteq Upto(order, m)
    BY <1>2, <2>3 DEF OrdersOf, Before, Needs
  <2>5. order[m] <= s[m] /\ order[m] # s[m] /\ order[m] \in Nat /\ s[m] \in Nat /\ m \in DOMAIN order
    BY <1>1, <1>2, <2>4 DEF OrderInv, Sorted
  <2>6. order[m] < s[m]
    BY <2>5
  <2> QED
    BY <2>2, <2>5, <2>6 DEF NotAfter
<1> QED
  BY <1>3, <1>4

LEMMA OrderInvSuffices ==
  ASSUME PlanInv, OrderInv
  PROVE  PlanIsCanonical /\ RefusedIffImpossible
<1>1. IsCatalog(catalog) /\ selected \subseteq Scope /\ IsFiniteSet(selected)
  BY SelectionsAreFinite DEF PlanInv, OrderInv
<1>2. TopologicalOrders(selected) = OrdersOf(selected, Cardinality(selected))
  BY <1>1, OrdersAreOrders
<1>3. PlanIsCanonical
  BY <1>2, PlansAreOrders, PlansAreFirst DEF PlanIsCanonical
<1>4. pc = "refused" => ~Possible
  BY <1>1, PossibleIsCanBe DEF OrderInv
<1>5. ASSUME pc = "planned" PROVE CanBePlanned
  <2>1. LeastClosed(selected)
    BY <1>5, SelectionIsLeast DEF PlanInv, Working
  <2>2. Compatible(selected)
    <3>1. ToSet(order) = selected
      <4>1. order \in Seq(selected) /\ selected \subseteq ToSet(order)
        BY <1>5 DEF PlanInv, Remaining
      <4> QED
        BY <4>1 DEF ToSet
    <3> QED
      BY <1>5, <3>1, PlanInvSuffices DEF PlanIsNecessaryAndSufficient
  <2>3. ScopeAvailable /\ Request # {} /\ UniqueProviders /\ GraphValid
    BY <1>5 DEF PlanInv, OrderInv, Working
  <2> QED
    BY <1>1, <1>5, <2>1, <2>2, <2>3, PlansAreOrders DEF CanBePlanned
<1> QED
  BY <1>1, <1>3, <1>4, <1>5, PossibleIsCanBe DEF RefusedIffImpossible

\* Called directly: a plan is, of all orders of its blueprints that respect
\* what they require and come after, the first.
THEOREM DirectPlansAreCanonical == PlanSpec => []PlanIsCanonical
<1>1. PlanInit => PlanInv /\ OrderInv
  BY PlanStarts, CatalogsAreCatalogs DEF PlanInit, OrderInv, Working, Sorted
<1>2. PlanInv /\ OrderInv /\ [PlanNext]_planVars => (PlanInv /\ OrderInv)'
  BY PlanStepPreserves, PlanStepRefuses DEF PlanStep
<1> QED
  BY <1>1, <1>2, OrderInvSuffices, PTL DEF PlanSpec

\* Called directly: no pass of the compiler refuses a request that has a plan,
\* for any catalog.
THEOREM DirectRefusalsAreRight == PlanSpec => []RefusedIffImpossible
<1>1. PlanInit => PlanInv /\ OrderInv
  BY PlanStarts, CatalogsAreCatalogs DEF PlanInit, OrderInv, Working, Sorted
<1>2. PlanInv /\ OrderInv /\ [PlanNext]_planVars => (PlanInv /\ OrderInv)'
  BY PlanStepPreserves, PlanStepRefuses DEF PlanStep
<1> QED
  BY <1>1, <1>2, OrderInvSuffices, PTL DEF PlanSpec

----------------------------------------------------------------------------
\* The part of type correctness that is not in PlanInv and OrderInv.
PlanTyped ==
  /\ call \in Call /\ pending \subseteq Capability
  /\ pc \in {"idle", "index", "graph", "closure", "order", "planned", "refused"}

LEMMA PlanTypes == PlanInv /\ OrderInv /\ PlanTyped => PlanTypeOK
BY DEF PlanInv, OrderInv, PlanTyped, PlanTypeOK

LEMMA EmptyCallIsCall == NoCall \in Call
BY DEF NoCall, Call

\* No step of the compiler's own ends its compilation.
LEMMA PlanNextTyped ==
  ASSUME PlanInv, IsCatalog(catalog), PlanTyped, PlanNext
  PROVE  PlanTyped' /\ pc # "idle" /\ pc' # "idle"
<1>1. call' = call
  BY DEF PlanNext, Index, ValidateGraph, Select, CheckSelection, Place, FinishOrder, Pass
<1>2. CASE Index \/ CheckSelection \/ FinishOrder \/ \E b \in Blueprint : Place(b)
  BY <1>1, <1>2 DEF Index, CheckSelection, FinishOrder, Place, Pass, PlanTyped
<1>3. CASE ValidateGraph
  <2>1. Request \subseteq Capability
    BY DEF PlanTyped, Call, Request
  <2> QED
    BY <1>1, <1>3, <2>1 DEF ValidateGraph, Pass, PlanTyped
<1>4. ASSUME NEW c \in Capability, Select(c) PROVE PlanTyped' /\ pc # "idle" /\ pc' # "idle"
  <2>1. \A b \in Providers(c) : Of(b).requires \subseteq Capability
    BY DEF Providers, Scope, Of, IsCatalog, Manifest
  <2>2. pending' \subseteq Capability
    BY <1>4, <2>1 DEF Select, PlanTyped
  <2> QED
    BY <1>1, <1>4, <2>2 DEF Select, Pass, PlanTyped
<1> QED
  BY <1>2, <1>3, <1>4 DEF PlanNext

\* Called directly: type correctness, for any catalogs and calls.
THEOREM DirectPlansAreTyped == PlanSpec => []PlanTypeOK
<1>1. PlanInit => PlanInv /\ OrderInv /\ PlanTyped
  BY PlanStarts, CatalogsAreCatalogs, CallsAreCalls DEF PlanInit, OrderInv, Working, Sorted, PlanTyped
<1>2. PlanInv /\ OrderInv /\ PlanTyped /\ [PlanNext]_planVars => (PlanInv /\ OrderInv /\ PlanTyped)'
  <2>1. PlanInv /\ OrderInv /\ PlanTyped /\ PlanNext => PlanTyped'
    BY PlanNextTyped DEF OrderInv
  <2>2. PlanTyped /\ UNCHANGED planVars => PlanTyped'
    BY DEF PlanTyped, planVars
  <2> QED
    BY <2>1, <2>2, PlanStepPreserves, PlanStepRefuses DEF PlanStep
<1> QED
  BY <1>1, <1>2, PlanTypes, PTL DEF PlanSpec

----------------------------------------------------------------------------
(***************************************************************************)
(* Requests that no pass refuses, told from the catalog and the call.      *)
(***************************************************************************)

\* Everything is provided, nothing in the scope excludes anything in it, and
\* what a blueprint comes after has a lower rank.
Feasible ==
  /\ ScopeAvailable /\ UniqueProviders /\ GraphValid /\ Request # {}
  /\ \A c \in Request : Providers(c) # {}
  /\ ~Conflicting(Scope) /\ ~Clashing(Scope)
  /\ \E rank \in [Scope -> Nat] : \A b \in Scope : \A p \in Before(Scope, b) : rank[p] < rank[b]

Unhindered == pc # "refused" /\ (pc = "closure" => \A c \in pending : Providers(c) # {})

\* A remaining blueprint of the least rank is ready.
LEMMA SomeIsReady ==
  ASSUME selected \subseteq Scope, Feasible, Remaining # {}
  PROVE  Ready # {}
<1>1. PICK rank \in [Scope -> Nat] : \A b \in Scope : \A p \in Before(Scope, b) : rank[p] < rank[b]
  BY DEF Feasible
<1> DEFINE R == {rank[b] : b \in Remaining}
<1>2. R \in SUBSET Nat /\ R # {}
  BY DEF Remaining
<1> HIDE DEF R
<1>3. PICK m \in R : \A k \in R : m <= k
  BY <1>2, LeastNumber
<1>4. PICK b \in Remaining : m = rank[b]
  BY DEF R
<1>5. ASSUME NEW p \in Needs(b) PROVE p \in ToSet(order)
  <2>1. p \in selected /\ p \in Scope /\ b \in Scope /\ p \in Before(Scope, b)
    BY DEF Needs, Before, Remaining
  <2>2. rank[p] < rank[b] /\ rank[p] \in Nat /\ rank[b] \in Nat
    BY <1>1, <2>1
  <2>3. ASSUME p \in Remaining PROVE FALSE
    <3>1. m <= rank[p]
      BY <1>3, <2>3 DEF R
    <3> QED
      BY <1>4, <2>2, <3>1
  <2> QED
    BY <2>1, <2>3 DEF Remaining
<1> QED
  BY <1>4, <1>5 DEF Ready

LEMMA FeasibleIsUnhindered ==
  ASSUME PlanInv, Feasible, Unhindered, PlanNext
  PROVE  Unhindered'
<1>1. UNCHANGED <<catalog, call>>
  BY DEF PlanNext, Index, ValidateGraph, Select, CheckSelection, Place, FinishOrder, Pass
<1>2. \A c : Providers(c)' = Providers(c)
  BY <1>1, ScopeStays
<1>3. CASE Index
  BY <1>3 DEF Index, Pass, Feasible, Unhindered
<1>4. CASE ValidateGraph
  BY <1>2, <1>4 DEF ValidateGraph, Pass, Feasible, Unhindered
<1>5. ASSUME NEW c \in Capability, Select(c) PROVE Unhindered'
  <2>1. /\ pc = "closure" /\ c \in pending /\ pc' = IF Providers(c) # {} THEN "closure" ELSE "refused"
        /\ pending' = (pending \ {c}) \cup UNION {Of(b).requires : b \in Providers(c) \ selected}
    BY <1>5 DEF Select, Pass
  <2>2. \A x \in pending : Providers(x) # {}
    BY <2>1 DEF Unhindered
  <2>3. \A b \in Scope : \A x \in Of(b).requires : Providers(x) # {}
    BY DEF Feasible, GraphValid
  <2>4. Providers(c) \subseteq Scope
    BY DEF Providers
  <2>5. \A x \in pending' : Providers(x) # {}
    BY <2>1, <2>2, <2>3, <2>4
  <2> QED
    BY <1>2, <2>1, <2>2, <2>5 DEF Unhindered
<1>6. CASE CheckSelection
  <2>1. ~Conflicting(selected) /\ ~Clashing(selected)
    BY DEF PlanInv, Feasible, Conflicting, Clashing
  <2> QED
    BY <1>6, <2>1 DEF CheckSelection, Pass, Unhindered
<1>7. ASSUME NEW b \in Blueprint, Place(b) PROVE Unhindered'
  BY <1>7 DEF Place, Unhindered
<1>8. CASE FinishOrder
  <2>1. Remaining = {}
    BY <1>8, SomeIsReady DEF FinishOrder, PlanInv
  <2> QED
    BY <1>8, <2>1 DEF FinishOrder, Pass, Unhindered
<1> QED
  BY <1>3, <1>4, <1>5, <1>6, <1>7, <1>8 DEF PlanNext
=============================================================================

----------------------------- MODULE PlanCompiler -----------------------------
(***************************************************************************)
(* blueprint_plan_compiler.py: from a catalog of blueprints and requested  *)
(* capabilities to a plan, which blueprints to use in which order, or a    *)
(* refusal.  One action per pass of the compiler; the closure takes one    *)
(* step per capability and the ordering one per blueprint.                 *)
(*                                                                         *)
(* Blueprint ids are numbers: the compiler only compares them.  Which of   *)
(* several reasons a refusal names is left out.  PlanInit calls the        *)
(* compiler directly, as a library; ProjectCommands calls it for preview   *)
(* and run.                                                                *)
(***************************************************************************)
EXTENDS Naturals, FiniteSets, SequencesExt

CONSTANTS Blueprint,   \* blueprint ids
          Capability,
          Gate,        \* validation gates
          Target,      \* output paths
          Catalogs,    \* the catalogs of direct calls
          Calls        \* the direct calls: a mode, a recipe's scope and a request

ASSUME BlueprintsAreIds == Blueprint \subseteq Nat /\ IsFiniteSet(Blueprint)

Manifest == [provides : SUBSET Capability, requires : SUBSET Capability,
             after : SUBSET Blueprint, conflicts : SUBSET Capability,
             validations : SUBSET Gate, files : SUBSET Target]

IsCatalog(k) == DOMAIN k \subseteq Blueprint /\ k \in [DOMAIN k -> Manifest]

ASSUME CatalogsAreCatalogs == \A k \in Catalogs : IsCatalog(k)

\* The recipe decides the mode, the allowed blueprints and gates and the
\* required capabilities; without one there are none.  Requested is what the
\* user asks.
Call == [mode : {"plain", "recipe"}, allowed : SUBSET Nat, gates : SUBSET Gate,
         required : SUBSET Capability, requested : SUBSET Capability]

NoCall == [mode |-> "plain", allowed |-> {}, gates |-> {}, required |-> {}, requested |-> {}]

ASSUME CallsAreCalls ==
  \A c \in Calls : c \in Call /\ (c.mode = "plain" => c = [NoCall EXCEPT !.requested = c.requested])

VARIABLES catalog, call,   \* what compilation is called with
          pc,
          pending,   \* capabilities the closure has yet to look at
          selected,  \* blueprints in the closure
          order      \* blueprints placed so far

planVars == <<catalog, call, pc, pending, selected, order>>

\* With a recipe, only its allowed blueprints exist for the compiler.
Scope == IF call.mode = "recipe" THEN call.allowed \cap DOMAIN catalog ELSE DOMAIN catalog
Of(b) == catalog[b]

\* A mutant of Providers: the recipe's scope is ignored.
ProvidersAnywhere(c) == {b \in DOMAIN catalog : c \in Of(b).provides}

Providers(c) == {b \in Scope : c \in Of(b).provides}
Request == call.required \cup call.requested

\* A mutant of Needs: "after" is forgotten.
NeedsRequired(b) == {p \in selected : \E c \in Of(b).requires : p \in Providers(c)}

\* The blueprints b must come after, among the selected ones.
Needs(b) ==
  {p \in selected : p \in Of(b).after \/ \E c \in Of(b).requires : p \in Providers(c)}

PlanIdle == pc = "idle" /\ pending = {} /\ selected = {} /\ order = <<>> /\ call = NoCall

PlanInit ==
  /\ catalog \in Catalogs /\ call \in Calls
  /\ pc = "index" /\ pending = {} /\ selected = {} /\ order = <<>>

\* resolve_recipe_capabilities: a rule of the recipe applies if the answers
\* hold everything it names.
Resolved(recipe, answers) ==
  ToSet(recipe.required) \cup
  UNION {ToSet(rule.request) : rule \in
           {x \in ToSet(recipe.rules) :
              \A key \in DOMAIN x.when : key \in DOMAIN answers /\ answers[key] = x.when[key]}}

\* compile_recipe_blueprint_plan is called for a recipe and normalized answers.
Compile(recipe, answers) ==
  /\ pc = "idle" /\ pc' = "index"
  /\ call' = [mode |-> "recipe", allowed |-> ToSet(recipe.blueprints), gates |-> ToSet(recipe.gates),
              required |-> ToSet(recipe.required), requested |-> Resolved(recipe, answers)]
  /\ UNCHANGED <<catalog, pending, selected, order>>

\* The caller has taken the plan, or the refusal.
Taken ==
  /\ pc \in {"planned", "refused"}
  /\ pc' = "idle" /\ call' = NoCall /\ pending' = {} /\ selected' = {} /\ order' = <<>>
  /\ UNCHANGED catalog

Pass(from, ok, to) ==
  /\ pc = from
  /\ pc' = IF ok THEN to ELSE "refused"
  /\ UNCHANGED <<catalog, call>>

\* _index_unique_providers
UniqueProviders == \A a, b \in Scope : a # b => Of(a).provides \cap Of(b).provides = {}

\* A recipe may name a blueprint the catalog does not have.
ScopeAvailable == call.allowed \subseteq DOMAIN catalog

Index ==
  /\ Pass("index",
          ScopeAvailable /\ UniqueProviders /\ (call.mode = "recipe" \/ Request # {}), "graph")
  /\ UNCHANGED <<pending, selected, order>>

\* A set of blueprints each of which requires one of the set is, or has, a cycle.
RequiresAcyclic ==
  \A S \in SUBSET Scope \ {{}} : \E b \in S : \A c \in Of(b).requires : Providers(c) \cap S = {}

\* _validate_unscoped_dependency_graph, _validate_recipe_dependency_graph
GraphValid ==
  /\ \A b \in Scope : \A c \in Of(b).requires : Providers(c) # {}
  /\ call.mode = "plain" => RequiresAcyclic
  /\ call.mode = "recipe" =>
       \A b \in Scope : Of(b).after \subseteq Scope /\ Of(b).validations \subseteq call.gates

ValidateGraph ==
  /\ Pass("graph", GraphValid /\ Request # {}, "closure")
  /\ pending' = Request
  /\ UNCHANGED <<selected, order>>

\* A mutant of Select: what a provider requires is not followed.
SelectDirectly(c) ==
  /\ c \in pending
  /\ Pass("closure", Providers(c) # {}, "closure")
  /\ selected' = selected \cup Providers(c)
  /\ pending' = pending \ {c}
  /\ UNCHANGED order

\* _resolve_closure, one `select`
Select(c) ==
  /\ c \in pending
  /\ Pass("closure", Providers(c) # {}, "closure")
  /\ selected' = selected \cup Providers(c)
  /\ pending' = (pending \ {c}) \cup
                UNION {Of(b).requires : b \in Providers(c) \ selected}
  /\ UNCHANGED order

Conflicting(S) ==
  \E a, b \in S : Of(a).conflicts \cap Of(b).provides # {}

\* A mutant of Clashing: paths are compared within neighbours only.
ClashingNeighbours(S) ==
  \E a, b \in S : b = a + 1 /\ Of(a).files \cap Of(b).files # {}

Clashing(S) ==
  \E a, b \in S : a # b /\ Of(a).files \cap Of(b).files # {}

\* _validate_conflicts, _collect_file_owners
CheckSelection ==
  /\ pending = {}
  /\ Pass("closure", ~Conflicting(selected) /\ ~Clashing(selected), "order")
  /\ UNCHANGED <<pending, selected, order>>

Remaining == selected \ ToSet(order)
Ready == {b \in Remaining : Needs(b) \subseteq ToSet(order)}

\* A mutant of Chosen: any ready blueprint.
ChosenLast(b) == b \in Ready /\ \A a \in Ready : a <= b

\* The ready blueprint with the least id.
Chosen(b) == b \in Ready /\ \A a \in Ready : b <= a

\* _stable_recipe_topological_order, one round
Place(b) ==
  /\ pc = "order" /\ Chosen(b)
  /\ order' = Append(order, b)
  /\ UNCHANGED <<catalog, call, pc, pending, selected>>

FinishOrder ==
  /\ Ready = {}
  /\ Pass("order", Remaining = {}, "planned")
  /\ UNCHANGED <<pending, selected, order>>

PlanNext ==
  \/ Index \/ ValidateGraph \/ CheckSelection \/ FinishOrder
  \/ \E c \in Capability : Select(c)
  \/ \E b \in Blueprint : Place(b)

PlanSpec == PlanInit /\ [][PlanNext]_planVars

----------------------------------------------------------------------------
(***************************************************************************)
(* What a plan is, said without an algorithm.                              *)
(***************************************************************************)

\* S serves the request and all its own requirements.
Closed(S) ==
  /\ \A c \in Request : Providers(c) \cap S # {}
  /\ \A b \in S : \A c \in Of(b).requires : Providers(c) \cap S # {}

LeastClosed(S) == Closed(S) /\ \A T \in SUBSET Scope : Closed(T) => S \subseteq T

\* No capability that S provides is excluded by S, no path has two owners.
Compatible(S) ==
  /\ \A c \in Capability :
       ~ ({b \in S : c \in Of(b).provides} # {} /\ {b \in S : c \in Of(b).conflicts} # {})
  /\ \A t \in Target : Cardinality({b \in S : t \in Of(b).files}) <= 1

\* The orders of S in which nothing comes before what it needs: every prefix
\* is followed by every blueprint whose needs it has.
Before(S, b) == {p \in S : p \in Of(b).after \/ \E c \in Of(b).requires : p \in Providers(c)}
Placeable(S, s) == {b \in S \ ToSet(s) : Before(S, b) \subseteq ToSet(s)}
Longer(S, prefixes) == UNION {{Append(s, b) : b \in Placeable(S, s)} : s \in prefixes}
TopologicalOrders(S) ==
  LET OfLength[n \in 0 .. Cardinality(S)] ==
        IF n = 0 THEN {<<>>} ELSE Longer(S, OfLength[n - 1])
  IN OfLength[Cardinality(S)]

\* s is before t in the order of a dictionary.
NotAfter(s, t) ==
  \/ s = t
  \/ \E i \in DOMAIN s : s[i] < t[i] /\ \A j \in 1 .. i - 1 : s[j] = t[j]

Possible ==
  /\ ScopeAvailable /\ Request # {} /\ UniqueProviders /\ GraphValid
  /\ \E S \in SUBSET Scope :
       LeastClosed(S) /\ Compatible(S) /\ TopologicalOrders(S) # {}

----------------------------------------------------------------------------
PlanTypeOK ==
  /\ IsCatalog(catalog) /\ call \in Call
  /\ pc \in {"idle", "index", "graph", "closure", "order", "planned", "refused"}
  /\ pending \subseteq Capability
  /\ selected \subseteq Scope
  /\ order \in Seq(selected)

\* A plan has exactly the blueprints the request needs, none that conflict
\* and no output path twice (_resolve_closure and the checks after it).
PlanIsNecessaryAndSufficient ==
  pc = "planned" =>
    /\ LeastClosed(ToSet(order))
    /\ Compatible(ToSet(order))

\* In a plan every blueprint comes once, after everything it requires or
\* names in "after", and of all such orders it is the first: equal inputs
\* give equal plans, whatever order the catalog was read in.
PlanIsCanonical ==
  pc = "planned" =>
    /\ order \in TopologicalOrders(selected)
    /\ \A s \in TopologicalOrders(selected) : NotAfter(order, s)

\* The compiler refuses exactly when there is no plan: none of its passes
\* raises PlanCompilationError for a request that another could have served.
RefusedIffImpossible ==
  /\ pc = "refused" => ~Possible
  /\ pc = "planned" => Possible
=============================================================================

-------------------------- MODULE RecipeRegistration --------------------------
(***************************************************************************)
(* trusted_recipe_registration.py: how the complete registrations of the   *)
(* recipes become the registries which every command looks things up in,   *)
(* with the registries of project_recipe_registry.py and of the two        *)
(* adapter registries.                                                     *)
(*                                                                         *)
(* A registration binds a recipe's declaration to six components, each     *)
(* under a key of its own or under a recipe id:                            *)
(*   recipe      [id, parser, assembly, validation: the keys it asks for;  *)
(*               blueprints, required, gates: what it allows and requires; *)
(*               rules: <<[when, request], ...>>;                          *)
(*               formed: every field has its syntax]                       *)
(*   parser      the key of its answer normalizer                          *)
(*   assembly    the key of its assembly adapter                           *)
(*   validation  the key of its validation adapter, and                    *)
(*   reports     the gates that adapter can report                         *)
(*   asks        the recipe id of its questionnaire, and inputs, its       *)
(*               descriptors, records with a key                           *)
(*   starts      the recipe id of its runtime factory                      *)
(* A registry is the sequence of registrations read by one of these keys:  *)
(* what a lookup finds is the place of the registration it came from.      *)
(***************************************************************************)
EXTENDS Naturals, Sequences, SequencesExt, Functions

\* Where registration r stands that has v in field f: get() of the registries,
\* the first one found, or 0.
Found(regs, f, v) == SelectInSeq(regs, LAMBDA r : r[f] = v)

\* ProjectRecipeRegistry.get
RecipeAt(regs, id) == SelectInSeq(regs, LAMBDA r : r.recipe.id = id)

\* The answer normalizers are a dictionary: the last one under a key stays.
NormalizerAt(regs, key) == SelectLastInSeq(regs, LAMBDA r : r.parser = key)

Distinct(regs, f) == \A i, j \in DOMAIN regs : regs[i][f] = regs[j][f] => i = j

Keys(regs, f) == {regs[i][f] : i \in DOMAIN regs}

\* _questionnaire_inputs_are_valid; a registration needs at least one input.
AsksSomething(r) ==
  /\ r.inputs # <<>>
  /\ \A i, j \in DOMAIN r.inputs : r.inputs[i].key = r.inputs[j].key => i = j

\* _parse_capability_rules
RulesParse(rules) ==
  /\ \A i, j \in DOMAIN rules : rules[i].when = rules[j].when => i = j
  /\ \A i \in DOMAIN rules :
       DOMAIN rules[i].when # {} /\ rules[i].request # <<>> /\ IsInjective(rules[i].request)

\* _parse_project_recipe
Parses(recipe) ==
  /\ recipe.formed
  /\ IsInjective(recipe.blueprints) /\ IsInjective(recipe.required) /\ IsInjective(recipe.gates)
  /\ RulesParse(recipe.rules)

\* build_project_recipe_registry: the keys a recipe asks for have to be among
\* those of all registrations.
RecipesAccepted(regs) ==
  \A i \in DOMAIN regs :
    LET recipe == regs[i].recipe IN
    /\ Parses(recipe)
    /\ \A j \in DOMAIN regs : regs[j].recipe.id = recipe.id => i = j
    /\ recipe.parser \in Keys(regs, "parser")
    /\ recipe.assembly \in Keys(regs, "assembly")
    /\ recipe.validation \in Keys(regs, "validation")

\* A mutant of Bound: that some registration has the key is thought enough.
BoundSomewhere(r) ==
  /\ r.recipe.parser = r.parser
  /\ r.recipe.validation = r.validation
  /\ r.asks = r.recipe.id
  /\ r.starts = r.recipe.id
  /\ ToSet(r.recipe.gates) \subseteq ToSet(r.reports)

\* _validate_recipe_bindings: its own keys, its own id, its own gates.
Bound(r) ==
  /\ r.recipe.parser = r.parser
  /\ r.recipe.assembly = r.assembly
  /\ r.recipe.validation = r.validation
  /\ r.asks = r.recipe.id
  /\ r.starts = r.recipe.id
  /\ ToSet(r.recipe.gates) \subseteq ToSet(r.reports)

\* build_project_validation_adapter_registry: a gate has one provider.
AdaptersAccepted(regs) ==
  /\ Distinct(regs, "assembly")
  /\ Distinct(regs, "validation")
  /\ \A i \in DOMAIN regs : IsInjective(regs[i].reports)
  /\ \A i, j \in DOMAIN regs : i # j => ToSet(regs[i].reports) \cap ToSet(regs[j].reports) = {}

\* for_recipes: one questionnaire for each recipe and none besides.
QuestionnairesMatch(regs) ==
  Distinct(regs, "asks") /\ Keys(regs, "asks") = {regs[i].recipe.id : i \in DOMAIN regs}

\* _compile_trusted_recipe_registrations
Compiles(regs) ==
  /\ regs # <<>>
  /\ \A i \in DOMAIN regs : AsksSomething(regs[i])
  /\ RecipesAccepted(regs)
  /\ \A i \in DOMAIN regs : Bound(regs[i])
  /\ Distinct(regs, "parser")
  /\ AdaptersAccepted(regs)
  /\ QuestionnairesMatch(regs)
  /\ Distinct(regs, "starts")

----------------------------------------------------------------------------
(***************************************************************************)
(* What the compiled registries are for.                                   *)
(***************************************************************************)

\* A command that starts from recipe i finds that recipe's own six
\* components, and nobody but its adapter reports the gates it allows.
Served(regs, i) ==
  LET recipe == regs[i].recipe IN
  /\ RecipeAt(regs, recipe.id) = i
  /\ NormalizerAt(regs, recipe.parser) = i
  /\ Found(regs, "assembly", recipe.assembly) = i
  /\ Found(regs, "validation", recipe.validation) = i
  /\ Found(regs, "asks", recipe.id) = i
  /\ Found(regs, "starts", recipe.id) = i
  /\ \A g \in ToSet(recipe.gates) : \A j \in DOMAIN regs : g \in ToSet(regs[j].reports) <=> j = i

\* Every declaration and questionnaire is well formed, every recipe is served,
\* and a gate that is reported is reported by one adapter, once.
Serviceable(regs) ==
  /\ regs # <<>>
  /\ \A i \in DOMAIN regs :
       Parses(regs[i].recipe) /\ AsksSomething(regs[i]) /\ Served(regs, i)
  /\ \A i, j \in DOMAIN regs : \A a \in DOMAIN regs[i].reports, b \in DOMAIN regs[j].reports :
       regs[i].reports[a] = regs[j].reports[b] => i = j /\ a = b
=============================================================================

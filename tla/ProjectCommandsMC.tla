--------------------------- MODULE ProjectCommandsMC ---------------------------
(***************************************************************************)
(* Instances for model checking: catalogs of three blueprints for direct   *)
(* calls of the plan compiler; the bundled recipes with dialogs, commands  *)
(* and edits; and pairs of registrations of which one has one component    *)
(* wrong.                                                                  *)
(***************************************************************************)
EXTENDS ProjectCommands

MCBlueprint == 1 .. 14
MCCapability == {"a", "b", "c", "d"} \cup BundledCapability
MCGate == ToSet(PythonGates) \cup ToSet(CMakeGates) \cup ToSet(GoGates) \cup {"g1", "g2"}
MCTarget == {"f", "README.md", "quality.yml"} \cup Ignores
Own == <<"a", "b", "c">>

\* Each provides a capability of its own and may depend on the others in either way.
Dependencies ==
  { [b \in 1 .. 3 |-> [provides |-> {Own[b]}, requires |-> requires[b], after |-> after[b],
                       conflicts |-> {}, validations |-> {}, files |-> {}]] :
      requires \in [1 .. 3 -> {{}, {"a"}, {"b", "c"}}],
      after \in [1 .. 3 -> {{}, {1}, {3}}] }

\* Providers, conflicts, gates and paths vary, dependencies hardly.
Overlaps ==
  { [b \in 1 .. 3 |-> [provides |-> provides[b], requires |-> IF b = 1 THEN {"b"} ELSE {},
                       after |-> {}, files |-> files[b],
                       validations |-> IF b = 3 THEN {"mypy"} ELSE {},
                       conflicts |-> IF b = 2 THEN conflicts ELSE {}]] :
      provides \in [1 .. 3 -> {{"a"}, {"b"}, {"c"}, {"b", "c"}}],
      conflicts \in {{}, {"c"}},
      files \in [1 .. 3 -> {{}, {"f"}}] }

MCCatalogs == Dependencies \cup Overlaps

\* Every request without a recipe; with one, scopes that cut the catalog or
\* name a blueprint it lacks.
MCCalls ==
  {[NoCall EXCEPT !.requested = S] : S \in SUBSET {"a", "b", "c"}}
    \cup UNION {[mode : {"recipe"}, allowed : {scope[1]}, gates : {scope[2]},
                 required : {{}, {"a"}}, requested : {{}, {"c"}, {"a", "b"}}] :
                   scope \in {<<1 .. 3, {"mypy"}>>, <<1 .. 3, {}>>, <<{1, 2}, {}>>,
                              <<{2, 3}, {"mypy"}>>, <<{1, 4}, {}>>}}

----------------------------------------------------------------------------
\* Project names: one with a run of blanks, one nothing can be derived from,
\* one with a control character.
MCNames == {"My  API", "42", "a\tb"}
MCTidy == "My  API" :> "My API" @@ "My API" :> "My API" @@ "42" :> "42"
MCDerived == [package_name |-> "My API" :> "my_api" @@ "42" :> "",
              target_name |-> "My API" :> "my_api" @@ "42" :> "",
              binary_name |-> "My API" :> "my-api" @@ "42" :> ""]

\* A binary name may end with a hyphen, a module path may not.
MCTexts == [package_name |-> {"api", "Api"}, target_name |-> {"app", "Api"},
            binary_name |-> {"tool", "tool-"}, module_path |-> {"example.org/tool", "tool"}]
MCModuleOf == "my-api" :> "example.com/my-api" @@ "tool" :> "example.com/tool"
              @@ "tool-" :> "example.com/tool-"
MCPortable == [package_name |-> {"api", "my_api"}, target_name |-> {"app", "my_api"},
               binary_name |-> {"tool", "tool-", "my-api"},
               module_path |-> {"example.com/my-api", "example.com/tool", "example.org/tool"}]

\* /z stands for a directory whose name has a control character.
MCDirectories == {"/w", "/z"}
MCPlaces == {"demo", "project.json", "/home", "sub/demo"}
MCOutput == "/w/project.json"
MCParent == "/w/demo" :> "/w" @@ "/w/project.json" :> "/w" @@ "/w/sub/demo" :> "/w/sub"
            @@ "/z/demo" :> "/z" @@ "/z/project.json" :> "/z" @@ "/z/sub/demo" :> "/z/sub"
            @@ "/home" :> "/"
Absolute == [p \in DOMAIN MCParent |-> p]
MCResolve ==
  "/w" :> ("demo" :> "/w/demo" @@ "project.json" :> "/w/project.json"
           @@ "sub/demo" :> "/w/sub/demo" @@ Absolute)
  @@ "/z" :> ("demo" :> "/z/demo" @@ "project.json" :> "/z/project.json"
              @@ "sub/demo" :> "/z/sub/demo" @@ Absolute)
MCLegal == MCPlaces \cup {"/w/demo", "/w/project.json", "/w/sub/demo"}
MCUnsafe == {"/", "/home"}
MCChangeable == {"/w/demo", "/w/sub"}

World(d) == [cwd |-> d, exists |-> {"/", "/home", "/w", "/w/sub", "/z"}]
Raw(form, recipe, answers) ==
  [form |-> form, recipe |-> recipe, name |-> "My API", target |-> "demo", answers |-> answers]
None == [key \in {} |-> ""]

\* What others write over a file.
MCContents == {Raw("v2", Cmake, [strict_warnings |-> "false"]), Raw("malformed", "", None)}

\* What was written by hand: answers left out, of both forms; too many; for an
\* unknown recipe; nothing that could be read.
ByHand ==
  {Raw("legacy", "", None), Raw("v2", Fastapi, None), Raw("v2", Cmake, [strict_warnings |-> "false"]),
   Raw("legacy", "", [container |-> "none"]), Raw("v2", Go, [database |-> "none"]),
   Raw("v2", "unknown", None), Raw("malformed", "", None)}

MCScript == [d \in {"d1", "d2", "d3"} |->
               CASE d = "d1" -> Nothing
                 [] d = "d2" -> Raw("v2", Cmake, None)
                 [] d = "d3" -> [Raw("v2", Go, None) EXCEPT !.target = "sub/demo"]]

Budget(errors, edits, kills, commands, dialogs1) ==
  [errors |-> errors, edits |-> edits, kills |-> kills, commands |-> commands, dialogs |-> dialogs1]

\* The catalog of a newer version, with a second provider that no recipe
\* allows, and one that lost a blueprint.
Grown == [b \in 1 .. 14 |-> IF b = 14 THEN [BundledCatalog[11] EXCEPT !.files = Ignores]
                            ELSE BundledCatalog[b]]
Damaged == [b \in (1 .. 13) \ {12} |-> BundledCatalog[b]]

Situation(regs, k, f, directory, budget) ==
  [registrations |-> regs, catalog |-> k, file |-> f, world |-> World(directory), left |-> budget]
Written(c) == [content |-> c, by |-> "others"]

\* One dialog, asked all its questions, and an edit or a command after it.
Asked == {Situation(BundledRegistrations, BundledCatalog, Nothing, d, Budget(0, more[1], 0, more[2], {"d1"})) :
            d \in MCDirectories, more \in {<<1, 0>>, <<0, 1>>}}

\* Two dialogs for the same file.
Raced == {Situation(BundledRegistrations, BundledCatalog, f, "/w", Budget(1, 1, 1, 1, {"d2", "d3"})) :
            f \in {Nothing, Written(Raw("malformed", "", None))}}

\* Commands on a file that was written by hand.
Handwritten == {Situation(BundledRegistrations, k, Written(c), "/w", Budget(0, 2, 0, 2, {})) :
                  c \in ByHand, k \in {BundledCatalog, Grown, Damaged}}

----------------------------------------------------------------------------
\* Pairs of registrations.
Small(n) ==
  LET recipe == [id |-> <<"r1", "r2">>[n], formed |-> TRUE, parser |-> <<"p1", "p2">>[n],
                 assembly |-> <<"a1", "a2">>[n], validation |-> <<"v1", "v2">>[n],
                 required |-> <<>>, blueprints |-> <<>>, gates |-> <<<<"g1", "g2">>[n]>>,
                 rules |-> <<Rule([k |-> "x"], "c")>>]
  IN Registration(recipe, "go", <<NameInput("k")>>, <<<<"g1", "g2">>[n]>>)

\* A registration with one or two of its keys exchanged for the other's.
Crossed ==
  {[recipe |-> [Small(1).recipe EXCEPT !.id = id, !.parser = wp, !.assembly = wa, !.validation = wv,
                                      !.gates = wg],
    parser |-> p, normalizer |-> "go", assembly |-> a, validation |-> v, reports |-> reports,
    asks |-> asks, inputs |-> <<NameInput("k")>>, starts |-> starts] :
     id \in {"r1", "r2"}, wp \in {"p1", "p2"}, wa \in {"a1", "a2"}, wv \in {"v1", "v2"},
     wg \in {<<"g1">>, <<"g2">>}, p \in {"p1", "p2"}, a \in {"a1", "a2"}, v \in {"v1", "v2"},
     reports \in {<<"g1">>, <<"g2">>, <<"g1", "i">>}, asks \in {"r1", "r2"}, starts \in {"r1", "r2"}}

\* Declarations and questionnaires that are not well formed.
Malformed ==
  {[Small(1) EXCEPT !.recipe.formed = FALSE], [Small(1) EXCEPT !.inputs = <<>>],
   [Small(1) EXCEPT !.inputs = <<NameInput("k"), NameInput("k")>>],
   [Small(1) EXCEPT !.recipe.blueprints = <<1, 1>>], [Small(1) EXCEPT !.recipe.required = <<"c", "c">>],
   [Small(1) EXCEPT !.recipe.gates = <<"g1", "g1">>], [Small(1) EXCEPT !.reports = <<"g1", "g1">>],
   [Small(1) EXCEPT !.recipe.rules = <<Rule(None, "c")>>],
   [Small(1) EXCEPT !.recipe.rules = <<[when |-> [k |-> "x"], request |-> <<>>]>>],
   [Small(1) EXCEPT !.recipe.rules = <<Rule([k |-> "x"], "c"), Rule([k |-> "x"], "d")>>]}

\* Both have their assembly adapter, or their parser, under the other's key.
Swapped ==
  {<<[Small(1) EXCEPT !.assembly = "a2"], [Small(2) EXCEPT !.assembly = "a1"]>>,
   <<[Small(1) EXCEPT !.parser = "p2"], [Small(2) EXCEPT !.parser = "p1"]>>,
   <<[Small(1) EXCEPT !.asks = "r2", !.starts = "r2"], [Small(2) EXCEPT !.asks = "r1", !.starts = "r1"]>>}

RegistrationSets ==
  {<<>>, <<Small(1)>>} \cup Swapped
    \cup {<<Small(2), r>> : r \in Crossed \cup Malformed} \cup {<<r, Small(2)>> : r \in Crossed \cup Malformed}

Compiled == {Situation(regs, None, Nothing, "/w", Budget(0, 0, 0, 0, {})) : regs \in RegistrationSets}

MCSituations == Asked \cup Raced \cup Handwritten \cup Compiled
=============================================================================

---------------------------- MODULE BundledRecipes ----------------------------
(***************************************************************************)
(* What the compiler is shipped with: the catalog under blueprints/, the   *)
(* three recipes of project_recipe_registry.py with their questionnaires   *)
(* (interactive_configuration.py) and the gates their adapters report.     *)
(* None of these is derived from another: that they fit together is what   *)
(* ConfigurationIsServed is about.                                         *)
(*                                                                         *)
(* A blueprint's number is the place of its id among all in sorted order.  *)
(***************************************************************************)
EXTENDS Naturals, SequencesExt

BundledCapability ==
  {"c-project-quality", "c-runtime", "cmake-project", "cmake-strict-warnings", "docker-delivery",
   "fastapi-http-api", "final-project-assembly", "go-cli-project", "go-project-quality",
   "postgres-docker-integration", "postgres-persistence", "project-quality", "python-runtime"}

QualityGates == <<"ruff-format", "ruff-lint", "mypy", "pytest">>
RuntimeGates == <<"application-start", "health-live", "health-ready", "openapi">>
DatabaseGates == <<"postgres-connect", "alembic-upgrade", "database-readiness", "session-rollback">>
ImageGates == <<"docker-build", "container-non-root", "container-health">>
ComposeGates == <<"compose-config", "compose-up", "compose-health", "compose-cleanup">>
CMakeGates == <<"cmake-configure", "cmake-build", "ctest", "executable-run">>
GoGates == <<"go-format", "go-test", "go-build", "go-executable-run">>
PythonGates == QualityGates \o <<"python-syntax">> \o RuntimeGates \o DatabaseGates
               \o ImageGates \o ComposeGates

\* No bundled blueprint has conflicts.  Files are those that more than one has.
Entry(provides, requires, after, gates, files) ==
  [provides |-> {provides}, requires |-> requires, after |-> after, conflicts |-> {},
   validations |-> ToSet(gates), files |-> files]

Ignores == {".editorconfig", ".gitignore"}

BundledCatalog ==
  << Entry("c-project-quality", {}, {}, <<>>, Ignores \cup {"quality.yml"}),
     Entry("c-runtime", {"c-project-quality"}, {}, <<>>, {}),
     Entry("cmake-project", {"c-runtime"}, {}, CMakeGates, {"README.md"}),
     Entry("cmake-strict-warnings", {"cmake-project"}, {3}, <<>>, {}),
     Entry("docker-delivery", {"fastapi-http-api"}, {11}, ImageGates, {}),
     Entry("fastapi-http-api", {"python-runtime"}, {}, RuntimeGates, {}),
     Entry("final-project-assembly", {"fastapi-http-api"}, {5, 10, 11}, <<>>, {}),
     Entry("go-cli-project", {"go-project-quality"}, {}, GoGates, {"README.md"}),
     Entry("go-project-quality", {}, {}, <<>>, Ignores \cup {"quality.yml"}),
     Entry("postgres-docker-integration", {"docker-delivery", "postgres-persistence"}, {},
           ComposeGates, {}),
     Entry("postgres-persistence", {"fastapi-http-api"}, {}, DatabaseGates, {}),
     Entry("project-quality", {}, {}, QualityGates, Ignores),
     Entry("python-runtime", {"project-quality"}, {}, <<"python-syntax">>, {}) >>

Rule(when, request) == [when |-> when, request |-> <<request>>]

\* A mutant of FastapiRecipe: a gate that one of its blueprints needs is not allowed.
FastapiRecipeNarrow ==
  [id |-> "python-fastapi-service", formed |-> TRUE, parser |-> "fastapi-answers",
   assembly |-> "fastapi-v1-assembly", validation |-> "fastapi-v1-validation",
   required |-> <<"final-project-assembly">>,
   rules |-> << Rule([database |-> "postgres"], "postgres-persistence"),
                Rule([delivery |-> "docker"], "docker-delivery"),
                Rule([database |-> "postgres", delivery |-> "docker"], "postgres-docker-integration") >>,
   blueprints |-> <<12, 13, 6, 11, 5, 10, 7>>, gates |-> Tail(PythonGates)]

FastapiRecipe ==
  [id |-> "python-fastapi-service", formed |-> TRUE, parser |-> "fastapi-answers",
   assembly |-> "fastapi-v1-assembly", validation |-> "fastapi-v1-validation",
   required |-> <<"final-project-assembly">>,
   rules |-> << Rule([database |-> "postgres"], "postgres-persistence"),
                Rule([delivery |-> "docker"], "docker-delivery"),
                Rule([database |-> "postgres", delivery |-> "docker"], "postgres-docker-integration") >>,
   blueprints |-> <<12, 13, 6, 11, 5, 10, 7>>, gates |-> PythonGates]

CmakeRecipe ==
  [id |-> "c-cmake-cli", formed |-> TRUE, parser |-> "cmake-answers",
   assembly |-> "cmake-v1-assembly", validation |-> "cmake-v1-validation",
   required |-> <<"cmake-project">>,
   rules |-> << Rule([strict_warnings |-> "true"], "cmake-strict-warnings") >>,
   blueprints |-> <<1, 2, 3, 4>>, gates |-> CMakeGates]

GoRecipe ==
  [id |-> "go-cli", formed |-> TRUE, parser |-> "go-answers", assembly |-> "go-v1-assembly",
   validation |-> "go-v1-validation", required |-> <<"go-cli-project">>, rules |-> <<>>,
   blueprints |-> <<9, 8>>, gates |-> GoGates]

\* RecipeInputDescriptor.  A name may be left out: it is derived.
NameInput(key) == [key |-> key, type |-> "string", omission |-> "omit", choices |-> {}, default |-> ""]
Choice(key, choices, default) ==
  [key |-> key, type |-> "choice", omission |-> "literal", choices |-> choices, default |-> default]

FastapiInputs ==
  << NameInput("package_name"), Choice("database", {"none", "postgres"}, "none"),
     Choice("delivery", {"none", "docker"}, "none") >>
CmakeInputs ==
  << NameInput("target_name"), Choice("strict_warnings", {"true", "false"}, "true") >>
GoInputs == << NameInput("binary_name"), NameInput("module_path") >>

\* A complete registration: every component under the key the recipe asks for.
Registration(recipe, normalizer, inputs, reports) ==
  [recipe |-> recipe, parser |-> recipe.parser, normalizer |-> normalizer,
   assembly |-> recipe.assembly, validation |-> recipe.validation, reports |-> reports,
   asks |-> recipe.id, inputs |-> inputs, starts |-> recipe.id]

FastapiRegistration ==
  Registration(FastapiRecipe, "fastapi", FastapiInputs,
               <<"static-safety", "locked-install">> \o PythonGates \o <<"docker-cleanup">>)
CmakeRegistration == Registration(CmakeRecipe, "cmake", CmakeInputs, CMakeGates)
GoRegistration == Registration(GoRecipe, "go", GoInputs, GoGates)

\* build_builtin_trusted_recipe_registrations
BundledRegistrations == <<FastapiRegistration, CmakeRegistration, GoRegistration>>
=============================================================================

---------------------------- MODULE ProjectCommands ----------------------------
(***************************************************************************)
(* project_command_application.py: init, preview and run over one          *)
(* configuration file, with the registries they are compiled from and the  *)
(* plan compiler.  Every command is a process of its own that shares       *)
(* nothing with the others but the disk: run does not know what preview    *)
(* was shown.  An environment edits the file, makes and removes            *)
(* directories and changes the working directory in between.               *)
(*                                                                         *)
(* What a run does with its plan is one step here, which ends well or not: *)
(* GenerationRun has its insides.  list-recipes only reads the compiled    *)
(* registries; inspect, discard and cleanup are in RecoveryCommands.       *)
(*                                                                         *)
(* Questions are asked, and plans compiled, without others in between: the *)
(* processes read nothing of the disk then (the catalog has been loaded).  *)
(***************************************************************************)
EXTENDS PlanCompiler, InteractiveConfiguration, BundledRecipes

CONSTANTS Situations,  \* where the application may be started:
                       \* [registrations, catalog, file, world, left]
          Contents,    \* what others write into the configuration file
          Directories, \* working directories
          Changeable   \* paths that others create and remove

ASSUME RegistrationsAreSequences ==
  \A s \in Situations : s.registrations \in Seq(ToSet(s.registrations))
\* build_builtin_answer_normalizers
ASSUME NormalizersAreBuiltIn ==
  \A s \in Situations : \A r \in ToSet(s.registrations) : r.normalizer \in {"fastapi", "cmake", "go"}
\* _parse_identifier_sequence, _parse_capability_rules: every list has names of its kind.
ASSUME DeclarationsAreTyped ==
  \A s \in Situations : \A r \in ToSet(s.registrations) :
    /\ ToSet(r.recipe.blueprints) \subseteq Nat /\ ToSet(r.recipe.gates) \subseteq Gate
    /\ ToSet(r.recipe.required) \subseteq Capability
    /\ \A rule \in ToSet(r.recipe.rules) : ToSet(rule.request) \subseteq Capability
ASSUME DirectoriesResolve ==
  /\ Directories \subseteq DOMAIN Resolve
  /\ \A s \in Situations : DOMAIN s.world = {"cwd", "exists"} /\ s.world.cwd \in DOMAIN Resolve
ASSUME CatalogsAreLoaded == \A s \in Situations : IsCatalog(s.catalog)
ASSUME NothingIsPublished ==
  /\ "others" \notin Dialog
  /\ \A s \in Situations : s.file = Nothing \/ s.file.by = "others"
ASSUME LeftIsABudget ==
  \A s \in Situations :
    DOMAIN s.left = {"errors", "edits", "kills", "commands", "dialogs"} /\ s.left.edits \in Nat

\* The configurations there are.
Configurations ==
  [recipe : {r.recipe.id : r \in UNION {ToSet(s.registrations) : s \in Situations}},
   name : DOMAIN Tidy, target : AbsolutePath, answers : Normalized]
ASSUME NothingIsNoConfiguration == Nothing \notin Configurations

VARIABLES app,      \* "library": the plan compiler is called directly;
                    \* or whether the registrations compiled
          command   \* [name, at, configuration]

vars == <<planVars, registrations, dialogs, file, world, left, app, command>>

NoCommand == [name |-> "none", at |-> "none", configuration |-> Nothing]

LibraryInit ==
  /\ PlanInit
  /\ app = "library" /\ registrations = <<>> /\ file = Nothing
  /\ world = [cwd |-> "", exists |-> {}]
  /\ left = [errors |-> 0, edits |-> 0, kills |-> 0, commands |-> 0, dialogs |-> {}]

ApplicationInit ==
  /\ PlanIdle
  /\ app = "starting"
  /\ \E s \in Situations :
       /\ registrations = s.registrations /\ catalog = s.catalog /\ file = s.file
       /\ world = s.world /\ left = s.left

Init ==
  /\ LibraryInit \/ ApplicationInit
  /\ dialogs = [d \in Dialog |-> NewDialog]
  /\ command = NoCommand

Quiet == pc = "idle" /\ \A d \in Dialog : dialogs[d].at \notin Asking

\* compile_trusted_recipe_registrations: all registries or none.
Start ==
  /\ app = "starting"
  /\ app' = IF Compiles(registrations) THEN "ready" ELSE "refused"
  /\ UNCHANGED <<planVars, registrations, dialogs, file, world, left, command>>

Dialogs(d) ==
  /\ app = "ready" /\ (Quiet \/ dialogs[d].at \in Asking)
  /\ StartDialog(d) \/ DialogStep(d)
  /\ UNCHANGED <<planVars, app, command>>

Recipe(id) == registrations[RecipeAt(registrations, id)].recipe
MyRecipe == Recipe(command.configuration.recipe)

\* _load_configuration
Loaded == IF file = Nothing THEN {} ELSE Parsed(file.content, registrations, Seen)

Begin(name) ==
  /\ app = "ready" /\ command = NoCommand /\ left.commands > 0 /\ Quiet
  /\ left' = [left EXCEPT !.commands = @ - 1]
  /\ UNCHANGED <<registrations, dialogs, file, world, app>>

\* preview: the file is loaded, the catalog read and the plan compiled.
Preview ==
  /\ Begin("preview")
  /\ \/ Loaded = {} /\ UNCHANGED <<planVars, command>>
     \/ \E c \in Loaded :
          /\ command' = [name |-> "preview", at |-> "plan", configuration |-> c]
          /\ Compile(Recipe(c.recipe), c.answers)

\* run_non_interactive, up to the runtime factory
Run ==
  /\ Begin("run")
  /\ \/ Loaded = {} /\ UNCHANGED command
     \/ \E c \in Loaded : command' = [name |-> "run", at |-> "runtime", configuration |-> c]
  /\ UNCHANGED planVars

\* RecipeRuntimeFactoryRegistry.create: the factory may raise, a tool is missing.
StartRuntime ==
  /\ command.at = "runtime" /\ Quiet
  /\ \/ /\ Found(registrations, "starts", MyRecipe.id) # 0
        /\ command' = [command EXCEPT !.at = "preflight"]
     \/ command' = NoCommand
  /\ UNCHANGED <<planVars, registrations, dialogs, file, world, left, app>>

\* execute_generation_transaction, up to its plan_compiler.  It may stop: the
\* workspace's path is too long, the target locked, the workspace there.
Preflight ==
  /\ command.at = "preflight" /\ Quiet
  /\ \/ /\ Parent[command.configuration.target] \in world.exists
        /\ command' = [command EXCEPT !.at = "plan"]
        /\ Compile(MyRecipe, command.configuration.answers)
     \/ command' = NoCommand /\ UNCHANGED planVars
  /\ UNCHANGED <<registrations, dialogs, file, world, left, app>>

\* The plan compiler runs.
Plan ==
  /\ app = "library" \/ command.at = "plan"
  /\ PlanNext
  /\ UNCHANGED <<registrations, dialogs, file, world, left, app, command>>

\* preview tells the plan; a plan that was refused ends either command.
Report ==
  /\ command.at = "plan" /\ (command.name = "preview" \/ pc = "refused")
  /\ Taken
  /\ command' = NoCommand
  /\ UNCHANGED <<registrations, dialogs, file, world, left, app>>

\* _required_validation_names
RequiredGates == UNION {Of(b).validations : b \in ToSet(order)}

\* _validate_request_binding of the assembly, get() of both adapter registries
\* and _validate_request of the validation.
AdaptersTakeIt ==
  LET validation == Found(registrations, "validation", MyRecipe.validation) IN
  /\ ToSet(order) \subseteq DOMAIN catalog
  /\ Found(registrations, "assembly", MyRecipe.assembly) # 0
  /\ validation # 0
  /\ RequiredGates \subseteq ToSet(MyRecipe.gates) \cap ToSet(registrations[validation].reports)

\* The rest of the run: the project is published if nothing took its place, or
\* it is not, for any of the reasons of GenerationRun.
Generate ==
  /\ command.at = "plan" /\ command.name = "run" /\ pc = "planned"
  /\ Taken
  /\ command' = NoCommand
  /\ \/ /\ AdaptersTakeIt /\ command.configuration.target \notin Seen.exists
        /\ world' = [world EXCEPT !.exists = @ \cup {command.configuration.target}]
     \/ UNCHANGED world
  /\ UNCHANGED <<registrations, dialogs, file, left, app>>

\* Others write or delete the configuration file, create or remove a
\* directory, or call from another one.
Environment ==
  /\ app = "ready" /\ Quiet /\ left.edits > 0
  /\ left' = [left EXCEPT !.edits = @ - 1]
  /\ \/ /\ file' \in {[content |-> c, by |-> "others"] : c \in Contents} \cup {Nothing}
        /\ UNCHANGED world
     \/ /\ \/ \E d \in Directories : world' = [world EXCEPT !.cwd = d]
           \/ \E p \in Changeable \ world.exists : world' = [world EXCEPT !.exists = @ \cup {p}]
           \/ \E p \in Changeable \cap world.exists : world' = [world EXCEPT !.exists = @ \ {p}]
        /\ UNCHANGED file
  /\ UNCHANGED <<planVars, registrations, dialogs, app, command>>

Next ==
  \/ Start \/ Preview \/ Run \/ StartRuntime \/ Preflight \/ Plan \/ Report \/ Generate \/ Environment
  \/ \E d \in Dialog : Dialogs(d)

Spec == Init /\ [][Next]_vars

----------------------------------------------------------------------------
TypeOK ==
  /\ PlanTypeOK /\ DialogTypeOK
  /\ app \in {"library", "starting", "ready", "refused"}
  /\ file = Nothing \/ file.by \in Dialog \cup {"others"}
  /\ command.name \in {"none", "preview", "run"}
  /\ command.at \in {"none", "runtime", "preflight", "plan"}
  /\ command.at = "none" <=> command.configuration = Nothing
  /\ {command.configuration} \cup {dialogs[d].configuration : d \in Dialog} \subseteq Configurations \cup {Nothing}
  /\ app # "library" => (command.at = "plan" <=> pc # "idle")

\* The registrations compile exactly when each recipe would find its own six
\* components under its keys, and each gate has one provider: the checks of
\* _compile_trusted_recipe_registrations, spread over five registries, leave
\* no gap and refuse nothing that would work.
CompiledIffServiceable ==
  /\ app = "ready" => Serviceable(registrations)
  /\ app = "refused" => ~Serviceable(registrations)

\* What is at the output path is changed by edits of others only, whatever
\* dialogs race for it; and what a dialog puts there is whole
\* (_publish_without_overwrite).
ExistingIsKept ==
  [][ (file' # file /\ left'.edits = left.edits) =>
        /\ file = Nothing
        /\ dialogs[file'.by].temp = "full" ]_vars

\* What init tells its user: "created" if and only if the file is its own and
\* nothing else of it is left; "not created" leaves neither a file nor a
\* temporary one, unless an unlink failed (both messages of
\* initialize_configuration).  A process that was killed may leave either.
OutcomeIsTrue ==
  \A d \in Dialog :
    LET me == dialogs[d] IN
    /\ me.at = "created" => me.linked /\ me.temp = "none"
    /\ me.at = "not_created" => (me.linked => me.stuck) /\ (me.temp # "none" => me.stuck)
    /\ (file # Nothing /\ file.by = d) => me.linked

\* Published by a dialog and not edited since.
Published(d) == file # Nothing /\ file.by = d

\* A published file is read again as exactly what the dialog validated, from
\* any working directory and after any number of commands, as long as the
\* target is free, its parent exists and its resolved path has no control
\* character (README.md: init "validates every answer with the same strict
\* parser used by preview and run").
PublishedIsAccepted ==
  \A d \in Dialog : Published(d) =>
    LET c == dialogs[d].configuration
        placed == c.target \notin Seen.exists /\ Parent[c.target] \in Seen.exists
    IN placed /\ c.target \in Legal =>
         \A cwd \in Directories :
           Parsed(file.content, registrations, [Seen EXCEPT !.cwd = cwd]) = {c}

ShippedWith(k) == DOMAIN BundledCatalog \subseteq DOMAIN k /\ \A b \in DOMAIN BundledCatalog : k[b] = BundledCatalog[b]

\* With the bundled recipes, and a catalog that has the bundled blueprints
\* whatever else it has, every configuration that is accepted has a plan, all
\* of whose gates the recipe allows and its own adapter can report: nothing
\* that init or the parser lets through fails later for want of a blueprint,
\* a rule or a gate.
ConfigurationIsServed ==
  command.at = "plan" /\ registrations = BundledRegistrations /\ ShippedWith(catalog) =>
    /\ pc # "refused"
    /\ pc = "planned" =>
         /\ AdaptersTakeIt
         /\ Resolved(MyRecipe, command.configuration.answers) \subseteq
              UNION {Of(b).provides : b \in ToSet(order)}
=============================================================================

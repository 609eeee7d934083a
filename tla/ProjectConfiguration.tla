------------------------- MODULE ProjectConfiguration -------------------------
(***************************************************************************)
(* recipe_project_configuration.py and project_configuration.py: from the  *)
(* content of a configuration file, or the answers of a dialog, to a       *)
(* normalized configuration, or a refusal.  Which error a refusal names is *)
(* left out: a normalization is the set of its results, empty or with one  *)
(* element.                                                                *)
(*                                                                         *)
(* A raw content is a record                                               *)
(*   form     "v2", "legacy", or "malformed": not a JSON object, fields of *)
(*            neither schema or of both, another schema_version            *)
(*   recipe, name, target     as given, "" if missing                      *)
(*   answers  a function from the keys that are given; in the legacy form  *)
(*            database, container and package_name                         *)
(* Texts are opaque.  "true" and "false" stand for the two booleans.       *)
(***************************************************************************)
EXTENDS RecipeRegistration

CONSTANTS
  Legal,     \* texts that are not blank and have no control characters
  Tidy,      \* the project names that are accepted, with runs of blanks joined
  Derived,   \* for the keys of names, what is derived from a tidy project name, or ""
  ModuleOf,  \* the Go module path suggested for a binary name
  Portable,  \* for the keys of free texts, the values that match their pattern
  Resolve,   \* for a working directory, the absolute path a text stands for
  Parent,    \* of a path
  Unsafe     \* the root and the home directory

\* split and join change nothing in what they made, every legal text stands for
\* a path, and no resolved path is relative.
ASSUME TextsAreNormal ==
  /\ \A n \in DOMAIN Tidy : Tidy[n] \in DOMAIN Tidy /\ Tidy[Tidy[n]] = Tidy[n]
  /\ \A d, e \in DOMAIN Resolve : \A t \in DOMAIN Resolve[d] :
       Resolve[e][Resolve[d][t]] = Resolve[d][t]
  /\ \A d \in DOMAIN Resolve : Legal \subseteq DOMAIN Resolve[d]

Fastapi == "python-fastapi-service"
Cmake == "c-cmake-cli"
Go == "go-cli"

Given(answers, key, otherwise) == IF key \in DOMAIN answers THEN answers[key] ELSE otherwise

\* _normalize_choice, the patterns of the names, _is_portable_go_module_path
Allowed(key) ==
  CASE key = "database" -> {"none", "postgres"}
    [] key \in {"delivery", "container"} -> {"none", "docker"}
    [] key = "strict_warnings" -> {"true", "false"}
    [] OTHER -> Portable[key]

\* Values, if the answers have no other keys and each value is allowed.
Checked(answers, values) ==
  {v \in {values} : DOMAIN answers \subseteq DOMAIN v /\ \A key \in DOMAIN v : v[key] \in Allowed(key)}

\* normalize_fastapi_recipe_answers
FastapiAnswers(answers, name) ==
  Checked(answers,
    [package_name |-> Given(answers, "package_name", Derived["package_name"][name]),
     database |-> Given(answers, "database", "postgres"),
     delivery |-> Given(answers, "delivery", "docker")])

\* normalize_cmake_recipe_answers
CmakeAnswers(answers, name) ==
  Checked(answers,
    [target_name |-> Given(answers, "target_name", Derived["target_name"][name]),
     strict_warnings |-> Given(answers, "strict_warnings", "true")])

\* normalize_go_recipe_answers: the module path follows the binary name.
GoAnswers(answers, name) ==
  LET binary == Given(answers, "binary_name", Derived["binary_name"][name]) IN
  Checked(answers,
    [binary_name |-> binary,
     module_path |-> Given(answers, "module_path",
                           IF binary \in Portable["binary_name"] THEN ModuleOf[binary] ELSE "")])

\* build_builtin_answer_normalizers
Normalize(normalizer, answers, name) ==
  CASE normalizer = "fastapi" -> FastapiAnswers(answers, name)
    [] normalizer = "cmake" -> CmakeAnswers(answers, name)
    [] normalizer = "go" -> GoAnswers(answers, name)

\* What they make of answers.
Normalized ==
  [package_name : Portable["package_name"], database : Allowed("database"), delivery : Allowed("delivery")]
  \cup [target_name : Portable["target_name"], strict_warnings : Allowed("strict_warnings")]
  \cup [binary_name : Portable["binary_name"], module_path : Portable["module_path"]]

AbsolutePath == UNION {{Resolve[d][t] : t \in DOMAIN Resolve[d]} : d \in DOMAIN Resolve}

\* normalize_target_directory.  Seen is what the process sees of the disk: its
\* working directory and the paths that exist.
Targets(text, seen) ==
  {t \in {Resolve[seen.cwd][text] : x \in {text} \cap Legal} :
     t \notin Unsafe /\ t \notin seen.exists /\ Parent[t] \in seen.exists}

Configuration(recipe, name, target, answers) ==
  [recipe |-> recipe, name |-> name, target |-> target, answers |-> answers]

\* _parse_v2_configuration
ParsedV2(raw, regs, seen) ==
  LET i == RecipeAt(regs, raw.recipe)
      n == NormalizerAt(regs, regs[i].recipe.parser)
  IN IF i = 0 \/ raw.name \notin DOMAIN Tidy \/ n = 0 THEN {}
     ELSE {Configuration(raw.recipe, Tidy[raw.name], t, a) :
             t \in Targets(raw.target, seen),
             a \in Normalize(regs[n].normalizer, raw.answers, Tidy[raw.name])}

\* parse_project_configuration
LegacyAnswers(answers, name) ==
  Checked(answers,
    [package_name |-> Given(answers, "package_name", Derived["package_name"][name]),
     database |-> Given(answers, "database", "postgres"),
     container |-> Given(answers, "container", "docker")])

\* convert_legacy_project_configuration: the container becomes the delivery.
ParsedLegacy(raw, regs, seen) ==
  IF RecipeAt(regs, Fastapi) = 0 \/ raw.name \notin DOMAIN Tidy THEN {}
  ELSE {Configuration(Fastapi, Tidy[raw.name], t,
                      [package_name |-> a.package_name, database |-> a.database,
                       delivery |-> a.container]) :
          t \in Targets(raw.target, seen), a \in LegacyAnswers(raw.answers, Tidy[raw.name])}

\* parse_recipe_project_configuration
Parsed(raw, regs, seen) ==
  CASE raw.form = "v2" -> ParsedV2(raw, regs, seen)
    [] raw.form = "legacy" -> ParsedLegacy(raw, regs, seen)
    [] OTHER -> {}

\* A mutant of Canonical: the target is published by its parent's name, as a
\* relative path would be read.
CanonicalElsewhere(c) ==
  [form |-> "v2", recipe |-> c.recipe, name |-> c.name, target |-> Parent[c.target],
   answers |-> c.answers]

\* What is published for a configuration.
Canonical(c) ==
  [form |-> "v2", recipe |-> c.recipe, name |-> c.name, target |-> c.target, answers |-> c.answers]
=============================================================================

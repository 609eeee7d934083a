----------------------- MODULE InteractiveConfiguration -----------------------
(***************************************************************************)
(* interactive_configuration.py: the dialog that asks for a recipe, a name,*)
(* a target and the recipe's inputs, and the publication of the validated  *)
(* answers as a new file.  One action per question and per file-system     *)
(* call.  An answer that no question takes is asked for again: that changes*)
(* nothing and is left out.                                                *)
(***************************************************************************)
EXTENDS ProjectConfiguration, TLC

CONSTANTS Dialog,   \* processes that run the dialog
          Script,   \* for each, a raw content it is given at once, or Nothing
          Nothing,
          Names,    \* what is typed as a project name,
          Places,   \* as a target,
          Texts,    \* and for the keys of free texts
          Output    \* where the configuration is to be published

\* write_interactive_configuration builds schema_version 2.
ASSUME ScriptsAreVersion2 ==
  \A d \in Dialog :
    \/ Script[d] = Nothing
    \/ /\ DOMAIN Script[d] = {"form", "recipe", "name", "target", "answers"}
       /\ Script[d].form = "v2"

VARIABLES registrations,
          dialogs,  \* the place and memory of each process
          file,     \* what is at Output: Nothing or [content, by]
          world,    \* [cwd, exists]: working directory and other existing paths
          left      \* what may still go wrong: [errors, edits, kills, commands, dialogs]

Asking == {"recipe", "name", "target", "answers"}
Ended == {"none", "created", "not_created", "dead"}

NoRaw == [form |-> "v2", recipe |-> "", name |-> "", target |-> "",
          answers |-> [key \in {} |-> ""]]

\* temp: its temporary file; linked: it made Output; stuck: an unlink failed.
NewDialog == [at |-> "none", raw |-> NoRaw, asked |-> 0, configuration |-> Nothing,
              temp |-> "none", linked |-> FALSE, stuck |-> FALSE]

Seen == [world EXCEPT !.exists = @ \cup (IF file = Nothing THEN {} ELSE {Output})]

Becomes(d, next) ==
  /\ dialogs' = [dialogs EXCEPT ![d] = next]
  /\ UNCHANGED <<registrations, world>>

Fault == left.errors > 0 /\ left' = [left EXCEPT !.errors = @ - 1]

StartDialog(d) ==
  LET me == dialogs[d] IN
  /\ d \in left.dialogs /\ me.at = "none"
  /\ IF Script[d] = Nothing THEN Becomes(d, [me EXCEPT !.at = "recipe"])
     ELSE Becomes(d, [me EXCEPT !.at = "parse", !.raw = Script[d]])
  /\ left' = [left EXCEPT !.dialogs = @ \ {d}]
  /\ UNCHANGED file

\* By number or by id, among the questionnaires of the registered recipes.
AskRecipe(d) ==
  LET me == dialogs[d] IN
  /\ me.at = "recipe"
  /\ \E i \in DOMAIN registrations :
       Becomes(d, [me EXCEPT !.at = "name", !.raw.recipe = registrations[i].recipe.id])
  /\ UNCHANGED <<file, left>>

AskName(d) ==
  LET me == dialogs[d] IN
  /\ me.at = "name"
  /\ \E n \in Names : Becomes(d, [me EXCEPT !.at = "target", !.raw.name = n])
  /\ UNCHANGED <<file, left>>

AskTarget(d) ==
  LET me == dialogs[d] IN
  /\ me.at = "target"
  /\ \E p \in Places : Becomes(d, [me EXCEPT !.at = "answers", !.raw.target = p])
  /\ UNCHANGED <<file, left>>

\* _ask_declared_input: the values an input can get; "" if it is left out.
Values(input) ==
  LET typed == IF input.type = "string" THEN Texts[input.key] ELSE input.choices IN
  CASE input.omission = "reject" -> typed
    [] input.omission = "omit" -> typed \cup {""}
    [] input.omission = "literal" -> typed \cup {input.default}

\* _collect_declared_answers, one input
AskInput(d) ==
  LET me == dialogs[d]
      inputs == registrations[Found(registrations, "asks", me.raw.recipe)].inputs
      input == inputs[me.asked + 1]
  IN
  /\ me.at = "answers"
  /\ \E v \in Values(input) :
       Becomes(d, [me EXCEPT !.asked = @ + 1,
                             !.at = IF me.asked + 1 = Len(inputs) THEN "parse" ELSE @,
                             !.raw.answers = IF input.omission = "omit" /\ v = "" THEN @
                                             ELSE @ @@ (input.key :> v)])
  /\ UNCHANGED <<file, left>>

\* What the dialog was told is forgotten after its parse, what it parsed when
\* it ends without having published it.
Finish(me, at) ==
  [me EXCEPT !.at = at, !.raw = NoRaw, !.asked = 0,
             !.configuration = IF me.linked THEN @ ELSE Nothing]

\* The input ends: EOFError.
InputEnds(d) ==
  /\ dialogs[d].at \in Asking
  /\ Becomes(d, Finish(dialogs[d], "not_created"))
  /\ UNCHANGED <<file, left>>

\* The answers are parsed by what preview and run parse the file with.
Parse(d) ==
  LET me == dialogs[d]
      parsed == Parsed(me.raw, registrations, Seen)
  IN
  /\ me.at = "parse"
  /\ IF parsed = {} THEN Becomes(d, Finish(me, "not_created"))
     ELSE \E c \in parsed : Becomes(d, [Finish(me, "temp") EXCEPT !.configuration = c])
  /\ UNCHANGED <<file, left>>

\* _publish_without_overwrite, up to mkstemp: nothing is to be discarded yet.
MakeTemp(d) ==
  LET me == dialogs[d] IN
  /\ me.at = "temp"
  /\ \/ Becomes(d, [me EXCEPT !.at = "write", !.temp = "partial"]) /\ UNCHANGED left
     \/ Becomes(d, Finish(me, "not_created")) /\ Fault
  /\ UNCHANGED file

Write(d) ==
  LET me == dialogs[d] IN
  /\ me.at = "write"
  /\ \/ Becomes(d, [me EXCEPT !.at = "link", !.temp = "full"]) /\ UNCHANGED left
     \/ Becomes(d, [me EXCEPT !.at = "discard"]) /\ Fault
  /\ UNCHANGED file

\* A mutant of Link: a rename, which replaces.
LinkReplacing(d) ==
  LET me == dialogs[d] IN
  /\ me.at = "link"
  /\ file' = [content |-> Canonical(me.configuration), by |-> d]
  /\ Becomes(d, [me EXCEPT !.at = "unlink", !.linked = TRUE])
  /\ UNCHANGED left

\* os.link fails if there is anything at Output.
Link(d) ==
  LET me == dialogs[d] IN
  /\ me.at = "link"
  /\ \/ /\ file = Nothing
        /\ file' = [content |-> Canonical(me.configuration), by |-> d]
        /\ Becomes(d, [me EXCEPT !.at = "unlink", !.linked = TRUE])
        /\ UNCHANGED left
     \/ /\ file # Nothing
        /\ Becomes(d, [me EXCEPT !.at = "discard"])
        /\ UNCHANGED <<file, left>>
     \/ /\ Becomes(d, [me EXCEPT !.at = "discard"])
        /\ Fault /\ UNCHANGED file

\* The last unlink is outside of the try: if it fails, the dialog says that
\* nothing was created.
Unlink(d) ==
  LET me == dialogs[d] IN
  /\ me.at = "unlink"
  /\ \/ Becomes(d, [me EXCEPT !.at = "created", !.temp = "none"]) /\ UNCHANGED left
     \/ Becomes(d, [me EXCEPT !.at = "not_created", !.stuck = TRUE]) /\ Fault
  /\ UNCHANGED file

\* A mutant of Discard: the temporary file is forgotten.
DiscardNothing(d) ==
  /\ dialogs[d].at = "discard"
  /\ Becomes(d, Finish(dialogs[d], "not_created"))
  /\ UNCHANGED <<file, left>>

Discard(d) ==
  LET me == dialogs[d] IN
  /\ me.at = "discard"
  /\ \/ Becomes(d, [Finish(me, "not_created") EXCEPT !.temp = "none"]) /\ UNCHANGED left
     \/ Becomes(d, [Finish(me, "not_created") EXCEPT !.stuck = TRUE]) /\ Fault
  /\ UNCHANGED file

\* A kill, or Ctrl-C: KeyboardInterrupt passes all of the except clauses.
Kill(d) ==
  /\ dialogs[d].at \notin Ended /\ left.kills > 0
  /\ Becomes(d, Finish(dialogs[d], "dead"))
  /\ left' = [left EXCEPT !.kills = @ - 1]
  /\ UNCHANGED file

DialogStep(d) ==
  \/ AskRecipe(d) \/ AskName(d) \/ AskTarget(d) \/ AskInput(d) \/ InputEnds(d) \/ Parse(d)
  \/ MakeTemp(d) \/ Write(d) \/ Link(d) \/ Unlink(d) \/ Discard(d) \/ Kill(d)

DialogTypeOK ==
  \A d \in Dialog :
    /\ dialogs[d].at \in Asking \cup Ended
                         \cup {"parse", "temp", "write", "link", "unlink", "discard"}
    /\ dialogs[d].temp \in {"none", "partial", "full"}
    /\ {dialogs[d].linked, dialogs[d].stuck} \subseteq BOOLEAN
    /\ dialogs[d].at \in {"write", "link", "unlink", "created"} => dialogs[d].configuration # Nothing
    /\ dialogs[d].at \in Ended \cup {"temp"} => dialogs[d].raw = NoRaw
=============================================================================

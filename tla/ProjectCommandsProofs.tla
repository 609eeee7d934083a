-------------------------- MODULE ProjectCommandsProofs --------------------------
(***************************************************************************)
(* The properties of ProjectCommands, for any catalogs, registrations,     *)
(* contents, dialogs and budgets.  In six parts: registrations compile     *)
(* exactly when every recipe is served; a dialog replaces nothing and says *)
(* what it did; the composition keeps what the plan compiler promises; what*)
(* was published is read as what was validated; type correctness; and what *)
(* is accepted is served.                                                  *)
(***************************************************************************)
EXTENDS ProjectCommands, PlanCompilerProofs

----------------------------------------------------------------------------
(***************************************************************************)
(* Registrations.  From left to right, the checks make the places that a   *)
(* lookup could find a singleton.  From right to left, a recipe that is    *)
(* served tells under which key its registration has its component, so     *)
(* that two registrations with the same key would be found at the same     *)
(* place.                                                                  *)
(***************************************************************************)

LEMMA MinIsMember ==
  ASSUME NEW S, S \subseteq Nat, S # {}
  PROVE  Min(S) \in S
<1>1. \E x \in S : \A y \in S : ~ (<<y, x>> \in OpToRel(<, Nat))
  BY NatLessThanWellFounded, WFMin
<1>2. PICK x \in S : \A y \in S : ~ (<<y, x>> \in OpToRel(<, Nat))
  BY <1>1
<1>3. ASSUME NEW y \in S PROVE x =< y
  <2>1. ~ (y < x)
    BY <1>2 DEF OpToRel
  <2> QED
    BY <2>1
<1> QED
  BY <1>3 DEF Min

\* The greatest element is the one nearest to the upper bound.
LEMMA MaxIsMember ==
  ASSUME NEW n \in Nat, NEW S, S \subseteq 1 .. n, S # {}
  PROVE  Max(S) \in S
<1> DEFINE T == {n - x : x \in S}
<1>1. T \subseteq Nat /\ T # {}
  OBVIOUS
<1>2. \E t \in T : \A u \in T : ~ (<<u, t>> \in OpToRel(<, Nat))
  BY <1>1, NatLessThanWellFounded, WFMin
<1>3. PICK x \in S : \A u \in T : ~ (<<u, n - x>> \in OpToRel(<, Nat))
  BY <1>2
<1>4. ASSUME NEW y \in S PROVE x >= y
  <2>1. n - y \in Nat /\ n - x \in Nat /\ n - y \in T
    OBVIOUS
  <2>2. ~ (n - y < n - x)
    BY <1>3, <2>1 DEF OpToRel
  <2> QED
    BY <2>2
<1> QED
  BY <1>4 DEF Max

----------------------------------------------------------------------------
(***************************************************************************)
(* What the lookups find.                                                  *)
(***************************************************************************)

LEMMA FoundIsOne ==
  ASSUME NEW R, NEW regs \in Seq(R), NEW f, NEW v, Found(regs, f, v) # 0
  PROVE  Found(regs, f, v) \in DOMAIN regs /\ regs[Found(regs, f, v)][f] = v
<1> DEFINE I == {i \in 1 .. Len(regs) : regs[i][f] = v}
<1>1. Found(regs, f, v) = IF I # {} THEN Min(I) ELSE 0
  BY DEF Found, SelectInSeq
<1>2. Min(I) \in I
  BY <1>1, MinIsMember
<1> QED
  BY <1>1, <1>2

LEMMA OnlyIsFound ==
  ASSUME NEW R, NEW regs \in Seq(R), NEW f, NEW i \in DOMAIN regs,
         \A j \in DOMAIN regs : regs[j][f] = regs[i][f] => j = i
  PROVE  Found(regs, f, regs[i][f]) = i
<1> DEFINE I == {j \in 1 .. Len(regs) : regs[j][f] = regs[i][f]}
<1>1. I = {i} /\ I # {} /\ I \subseteq Nat /\ I \subseteq 1 .. Len(regs) /\ Len(regs) \in Nat
  OBVIOUS
<1>2. Found(regs, f, regs[i][f]) = IF I # {} THEN Min(I) ELSE 0
  BY DEF Found, SelectInSeq
<1> HIDE DEF I
<1>3. Min(I) \in I
  BY <1>1, MinIsMember
<1> QED
  BY <1>1, <1>2, <1>3

LEMMA RecipeIsFound ==
  ASSUME NEW R, NEW regs \in Seq(R), NEW i \in DOMAIN regs,
         \A j \in DOMAIN regs : regs[j].recipe.id = regs[i].recipe.id => j = i
  PROVE  RecipeAt(regs, regs[i].recipe.id) = i
<1> DEFINE I == {j \in 1 .. Len(regs) : regs[j].recipe.id = regs[i].recipe.id}
<1>1. I = {i} /\ I # {} /\ I \subseteq Nat /\ I \subseteq 1 .. Len(regs) /\ Len(regs) \in Nat
  OBVIOUS
<1>2. RecipeAt(regs, regs[i].recipe.id) = IF I # {} THEN Min(I) ELSE 0
  BY DEF RecipeAt, SelectInSeq
<1> HIDE DEF I
<1>3. Min(I) \in I
  BY <1>1, MinIsMember
<1> QED
  BY <1>1, <1>2, <1>3

LEMMA NormalizerIsOne ==
  ASSUME NEW R, NEW regs \in Seq(R), NEW key, NormalizerAt(regs, key) # 0
  PROVE  NormalizerAt(regs, key) \in DOMAIN regs /\ regs[NormalizerAt(regs, key)].parser = key
<1> DEFINE I == {i \in 1 .. Len(regs) : regs[i].parser = key}
<1>1. NormalizerAt(regs, key) = IF I # {} THEN Max(I) ELSE 0
  BY DEF NormalizerAt, SelectLastInSeq
<1>2. Max(I) \in I
  BY <1>1, MaxIsMember
<1> QED
  BY <1>1, <1>2

LEMMA OnlyNormalizer ==
  ASSUME NEW R, NEW regs \in Seq(R), NEW i \in DOMAIN regs,
         \A j \in DOMAIN regs : regs[j].parser = regs[i].parser => j = i
  PROVE  NormalizerAt(regs, regs[i].parser) = i
<1> DEFINE I == {j \in 1 .. Len(regs) : regs[j].parser = regs[i].parser}
<1>1. I = {i} /\ I # {} /\ I \subseteq Nat /\ I \subseteq 1 .. Len(regs) /\ Len(regs) \in Nat
  OBVIOUS
<1>2. NormalizerAt(regs, regs[i].parser) = IF I # {} THEN Max(I) ELSE 0
  BY DEF NormalizerAt, SelectLastInSeq
<1> HIDE DEF I
<1>3. Max(I) \in I
  BY <1>1, MaxIsMember
<1> QED
  BY <1>1, <1>2, <1>3

----------------------------------------------------------------------------
LEMMA CompiledIsServed ==
  ASSUME NEW R, NEW regs \in Seq(R), Compiles(regs)
  PROVE  Serviceable(regs)
<1>1. ASSUME NEW i \in DOMAIN regs
      PROVE  Parses(regs[i].recipe) /\ AsksSomething(regs[i]) /\ Served(regs, i)
  <2>1. Parses(regs[i].recipe) /\ AsksSomething(regs[i]) /\ Bound(regs[i])
    BY DEF Compiles, RecipesAccepted
  <2>2. RecipeAt(regs, regs[i].recipe.id) = i
    BY RecipeIsFound DEF Compiles, RecipesAccepted
  <2>3. NormalizerAt(regs, regs[i].recipe.parser) = i
    BY <2>1, OnlyNormalizer DEF Compiles, Distinct, Bound
  <2>4. ASSUME NEW f \in {"assembly", "validation", "asks", "starts"}
        PROVE  Found(regs, f, regs[i][f]) = i
    <3>1. Distinct(regs, f)
      BY DEF Compiles, AdaptersAccepted, QuestionnairesMatch
    <3> QED
      BY <3>1, OnlyIsFound DEF Distinct
  <2>5. /\ regs[i].recipe.assembly = regs[i]["assembly"]
        /\ regs[i].recipe.validation = regs[i]["validation"]
        /\ regs[i].recipe.id = regs[i]["asks"]
        /\ regs[i].recipe.id = regs[i]["starts"]
    BY <2>1 DEF Bound
  <2>6. ASSUME NEW g \in ToSet(regs[i].recipe.gates), NEW j \in DOMAIN regs
        PROVE  g \in ToSet(regs[j].reports) <=> j = i
    <3>1. g \in ToSet(regs[i].reports)
      BY <2>1 DEF Bound
    <3>2. j # i => ToSet(regs[i].reports) \cap ToSet(regs[j].reports) = {}
      BY DEF Compiles, AdaptersAccepted
    <3> QED
      BY <3>1, <3>2
  <2> QED
    BY <2>1, <2>2, <2>3, <2>4, <2>5, <2>6 DEF Served
<1>2. ASSUME NEW i \in DOMAIN regs, NEW j \in DOMAIN regs, NEW a \in DOMAIN regs[i].reports,
             NEW b \in DOMAIN regs[j].reports, regs[i].reports[a] = regs[j].reports[b]
      PROVE  i = j /\ a = b
  <2>1. i # j => ToSet(regs[i].reports) \cap ToSet(regs[j].reports) = {}
    BY DEF Compiles, AdaptersAccepted
  <2>2. i = j
    BY <1>2, <2>1 DEF ToSet
  <2>3. IsInjective(regs[i].reports)
    BY DEF Compiles, AdaptersAccepted
  <2> QED
    BY <1>2, <2>2, <2>3 DEF IsInjective
<1> QED
  BY <1>1, <1>2 DEF Serviceable, Compiles
LEMMA ServedIsCompiled ==
  ASSUME NEW R, NEW regs \in Seq(R), Serviceable(regs)
  PROVE  Compiles(regs)
<1>1. ASSUME NEW i \in DOMAIN regs
      PROVE  /\ Parses(regs[i].recipe) /\ AsksSomething(regs[i])
             /\ RecipeAt(regs, regs[i].recipe.id) = i
             /\ NormalizerAt(regs, regs[i].recipe.parser) = i
             /\ Found(regs, "assembly", regs[i].recipe.assembly) = i
             /\ Found(regs, "validation", regs[i].recipe.validation) = i
             /\ Found(regs, "asks", regs[i].recipe.id) = i
             /\ Found(regs, "starts", regs[i].recipe.id) = i
             /\ \A g \in ToSet(regs[i].recipe.gates) : g \in ToSet(regs[i].reports)
             /\ i # 0
  BY DEF Serviceable, Served
\* Each registration has its components under the keys its recipe asks for.
<1>2. ASSUME NEW i \in DOMAIN regs
      PROVE  /\ regs[i].parser = regs[i].recipe.parser
             /\ regs[i].assembly = regs[i].recipe.assembly
             /\ regs[i].validation = regs[i].recipe.validation
             /\ regs[i].asks = regs[i].recipe.id
             /\ regs[i].starts = regs[i].recipe.id
  <2>1. regs[i].parser = regs[i].recipe.parser
    BY <1>1, NormalizerIsOne
  <2>2. regs[i]["assembly"] = regs[i].recipe.assembly
    BY <1>1, FoundIsOne
  <2>3. regs[i]["validation"] = regs[i].recipe.validation
    BY <1>1, FoundIsOne
  <2>4. regs[i]["asks"] = regs[i].recipe.id
    BY <1>1, FoundIsOne
  <2>5. regs[i]["starts"] = regs[i].recipe.id
    BY <1>1, FoundIsOne
  <2> QED
    BY <2>1, <2>2, <2>3, <2>4, <2>5
<1>3. \A i \in DOMAIN regs : Bound(regs[i])
  BY <1>1, <1>2 DEF Bound
<1>4. ASSUME NEW i \in DOMAIN regs, NEW j \in DOMAIN regs
      PROVE  /\ regs[i].recipe.id = regs[j].recipe.id => i = j
             /\ regs[i].parser = regs[j].parser => i = j
             /\ regs[i].assembly = regs[j].assembly => i = j
             /\ regs[i].validation = regs[j].validation => i = j
  BY <1>1, <1>2
<1>5. /\ Distinct(regs, "parser") /\ Distinct(regs, "assembly") /\ Distinct(regs, "validation")
      /\ Distinct(regs, "asks") /\ Distinct(regs, "starts")
  BY <1>2, <1>4 DEF Distinct
<1>6. RecipesAccepted(regs)
  BY <1>1, <1>2, <1>4 DEF RecipesAccepted, Keys
<1>7. QuestionnairesMatch(regs)
  <2>1. Keys(regs, "asks") = {regs[i].recipe.id : i \in DOMAIN regs}
    BY <1>2 DEF Keys
  <2> QED
    BY <1>5, <2>1 DEF QuestionnairesMatch
<1>8. AdaptersAccepted(regs)
  <2>1. \A i, j \in DOMAIN regs : \A a \in DOMAIN regs[i].reports, b \in DOMAIN regs[j].reports :
          regs[i].reports[a] = regs[j].reports[b] => i = j /\ a = b
    BY DEF Serviceable
  <2>2. \A i \in DOMAIN regs : IsInjective(regs[i].reports)
    BY <2>1 DEF IsInjective
  <2>3. ASSUME NEW i \in DOMAIN regs, NEW j \in DOMAIN regs, i # j
        PROVE  ToSet(regs[i].reports) \cap ToSet(regs[j].reports) = {}
    BY <2>1, <2>3 DEF ToSet
  <2> QED
    BY <1>5, <2>2, <2>3 DEF AdaptersAccepted
<1> QED
  BY <1>1, <1>3, <1>5, <1>6, <1>7, <1>8 DEF Compiles, Serviceable

\* For every sequence of registrations the checks of
\* _compile_trusted_recipe_registrations accept it if and only if every recipe
\* finds its own six components and every gate has one provider.
THEOREM RegistrationsCompileIffServiceable ==
  ASSUME NEW R, NEW regs \in Seq(R)
  PROVE  Compiles(regs) <=> Serviceable(regs)
BY CompiledIsServed, ServedIsCompiled

----------------------------------------------------------------------------
(***************************************************************************)
(* Dialogs.  The strengthening (Sound) says for each place of a dialog     *)
(* what it has on the disk: before mkstemp nothing, at the link a whole    *)
(* temporary file, and a published file from the link on and never at a    *)
(* place from which "not created" is said without a failed unlink.         *)
(***************************************************************************)

Fields == {"at", "raw", "asked", "configuration", "temp", "linked", "stuck"}
Early == {"none", "parse", "temp"} \cup Asking

Sound(me) ==
  /\ DOMAIN me = Fields
  /\ me.linked \in BOOLEAN /\ me.stuck \in BOOLEAN
  /\ me.at \in Early => me.temp = "none"
  /\ me.at \in Early \cup {"write", "link", "discard"} => me.linked = FALSE
  /\ me.at = "link" => me.temp = "full"
  /\ me.at = "unlink" => me.linked = TRUE
  /\ me.at = "created" => me.linked = TRUE /\ me.temp = "none"
  /\ me.at = "not_created" => (me.linked = FALSE /\ me.temp = "none") \/ me.stuck = TRUE

DialogInv ==
  /\ DOMAIN dialogs = Dialog
  /\ \A d \in Dialog : Sound(dialogs[d])
  /\ \A d \in Dialog : file # Nothing /\ file.by = d => dialogs[d].linked = TRUE
  /\ DOMAIN left = {"errors", "edits", "kills", "commands", "dialogs"}
  /\ left.edits \in Nat

\* What a step of dialog d comes to.
Advances(d) ==
  \E next :
    /\ Becomes(d, next) /\ Sound(next)
    /\ dialogs[d].linked = TRUE => next.linked = TRUE
    /\ \/ file' = file
       \/ file = Nothing /\ file'.by = d /\ next.linked = TRUE /\ dialogs[d].temp = "full"
    /\ left'.edits = left.edits

LEMMA FinishIsSound ==
  ASSUME NEW me, Sound(me), NEW at \in {"not_created", "dead", "temp"},
         at \in {"not_created", "temp"} => me.linked = FALSE /\ me.temp = "none"
  PROVE  Sound(Finish(me, at)) /\ Finish(me, at).linked = me.linked /\ Finish(me, at).at = at
BY DEF Sound, Finish, Fields, Early, Asking

LEMMA QuestionsAdvance ==
  ASSUME NEW d \in Dialog, DialogInv, StartDialog(d) \/ AskRecipe(d) \/ AskName(d) \/ AskTarget(d) \/ AskInput(d)
  PROVE  Advances(d)
<1> Sound(dialogs[d]) /\ DOMAIN left = {"errors", "edits", "kills", "commands", "dialogs"}
  BY DEF DialogInv
<1>1. CASE StartDialog(d)
  BY <1>1 DEF StartDialog, Advances, Sound, Fields, Early, Asking
<1>2. CASE AskRecipe(d)
  BY <1>2 DEF AskRecipe, Advances, Sound, Fields, Early, Asking
<1>3. CASE AskName(d)
  BY <1>3 DEF AskName, Advances, Sound, Fields, Early, Asking
<1>4. CASE AskTarget(d)
  BY <1>4 DEF AskTarget, Advances, Sound, Fields, Early, Asking
<1>5. CASE AskInput(d)
  BY <1>5 DEF AskInput, Advances, Sound, Fields, Early, Asking
<1> QED
  BY <1>1, <1>2, <1>3, <1>4, <1>5

LEMMA ParseAdvances ==
  ASSUME NEW d \in Dialog, DialogInv, Parse(d) \/ InputEnds(d)
  PROVE  Advances(d)
<1>1. Sound(dialogs[d])
  BY DEF DialogInv
<1>2. dialogs[d].at \in Early /\ dialogs[d].linked = FALSE /\ dialogs[d].temp = "none"
  BY <1>1 DEF Parse, InputEnds, Sound, Early
<1>3. CASE InputEnds(d) \/ (Parse(d) /\ Becomes(d, Finish(dialogs[d], "not_created")))
  BY <1>1, <1>2, <1>3, FinishIsSound DEF InputEnds, Parse, Advances
<1>4. ASSUME NEW c, Becomes(d, [Finish(dialogs[d], "temp") EXCEPT !.configuration = c]), Parse(d)
      PROVE  Advances(d)
  <2> DEFINE me == Finish(dialogs[d], "temp")
  <2>1. Sound(me) /\ me.linked = FALSE /\ me.at = "temp"
    BY <1>1, <1>2, FinishIsSound
  <2> HIDE DEF me
  <2>2. Sound([me EXCEPT !.configuration = c])
    BY <2>1 DEF Sound, Fields, Early, Asking
  <2> QED
    BY <1>2, <1>4, <2>2 DEF Parse, Advances, me
<1> QED
  BY <1>3, <1>4 DEF Parse

LEMMA PublicationAdvances ==
  ASSUME NEW d \in Dialog, DialogInv, Write(d) \/ Link(d) \/ Unlink(d)
  PROVE  Advances(d)
<1> Sound(dialogs[d]) /\ DOMAIN left = {"errors", "edits", "kills", "commands", "dialogs"}
  BY DEF DialogInv
<1>1. CASE Write(d)
  BY <1>1 DEF Write, Advances, Fault, Sound, Fields, Early, Asking
<1>2. CASE Link(d)
  <2> DEFINE published == [dialogs[d] EXCEPT !.at = "unlink", !.linked = TRUE]
             refused == [dialogs[d] EXCEPT !.at = "discard"]
  <2>1. dialogs[d].at = "link" /\ dialogs[d].linked = FALSE /\ dialogs[d].temp = "full"
    BY <1>2 DEF Link, Sound
  <2>2. Sound(published) /\ published.linked = TRUE /\ Sound(refused)
    BY <2>1 DEF Sound, Fields, Early, Asking
  <2>3. CASE /\ file = Nothing
             /\ file' = [content |-> Canonical(dialogs[d].configuration), by |-> d]
             /\ Becomes(d, published) /\ UNCHANGED left
    <3>1. file'.by = d /\ left'.edits = left.edits
      BY <2>3
    <3> HIDE DEF published
    <3> QED
      BY <2>1, <2>2, <2>3, <3>1 DEF Advances
  <2>4. CASE Becomes(d, refused) /\ UNCHANGED file /\ (UNCHANGED left \/ Fault)
    <3>1. left'.edits = left.edits
      BY <2>4 DEF Fault
    <3> HIDE DEF refused
    <3> QED
      BY <2>1, <2>2, <2>4, <3>1 DEF Advances
  <2> QED
    BY <1>2, <2>3, <2>4 DEF Link
<1>3. CASE Unlink(d)
  BY <1>3 DEF Unlink, Advances, Fault, Sound, Fields, Early, Asking
<1> QED
  BY <1>1, <1>2, <1>3

LEMMA EndAdvances ==
  ASSUME NEW d \in Dialog, DialogInv, MakeTemp(d) \/ Discard(d) \/ Kill(d)
  PROVE  Advances(d)
<1>1. Sound(dialogs[d]) /\ DOMAIN left = {"errors", "edits", "kills", "commands", "dialogs"}
  BY DEF DialogInv
<1>2. ASSUME NEW next, Becomes(d, next), Sound(next), next.linked = dialogs[d].linked,
             MakeTemp(d) \/ Discard(d) \/ Kill(d)
      PROVE  Advances(d)
  BY <1>1, <1>2 DEF MakeTemp, Discard, Kill, Fault, Advances
<1>3. CASE MakeTemp(d)
  <2>1. /\ dialogs[d].at = "temp" /\ dialogs[d].linked = FALSE /\ dialogs[d].temp = "none"
    BY <1>1, <1>3 DEF MakeTemp, Sound, Early
  <2>2. /\ Sound([dialogs[d] EXCEPT !.at = "write", !.temp = "partial"])
        /\ [dialogs[d] EXCEPT !.at = "write", !.temp = "partial"].linked = FALSE
    BY <1>1, <2>1 DEF Sound, Fields, Early, Asking
  <2> QED
    BY <1>1, <1>2, <1>3, <2>1, <2>2, FinishIsSound DEF MakeTemp
<1>4. CASE Discard(d)
  <2>1. dialogs[d].at = "discard" /\ dialogs[d].linked = FALSE
    BY <1>1, <1>4 DEF Discard, Sound
  <2>2. /\ Sound([Finish(dialogs[d], "not_created") EXCEPT !.temp = "none"])
        /\ Sound([Finish(dialogs[d], "not_created") EXCEPT !.stuck = TRUE])
        /\ [Finish(dialogs[d], "not_created") EXCEPT !.temp = "none"].linked = FALSE
        /\ [Finish(dialogs[d], "not_created") EXCEPT !.stuck = TRUE].linked = FALSE
    BY <1>1, <2>1 DEF Finish, Sound, Fields, Early, Asking
  <2> QED
    BY <1>2, <1>4, <2>1, <2>2 DEF Discard
<1>5. CASE Kill(d)
  BY <1>1, <1>2, <1>5, FinishIsSound DEF Kill
<1> QED
  BY <1>3, <1>4, <1>5

LEMMA DialogsAdvance ==
  ASSUME NEW d \in Dialog, DialogInv, Dialogs(d)
  PROVE  Advances(d)
BY QuestionsAdvance, ParseAdvances, PublicationAdvances, EndAdvances DEF Dialogs, DialogStep

LEMMA AdvancingPreserves ==
  ASSUME NEW d \in Dialog, DialogInv, Dialogs(d)
  PROVE  DialogInv'
<1>1. PICK next :
        /\ Becomes(d, next) /\ Sound(next)
        /\ dialogs[d].linked = TRUE => next.linked = TRUE
        /\ \/ file' = file
           \/ file = Nothing /\ file'.by = d /\ next.linked = TRUE /\ dialogs[d].temp = "full"
        /\ left'.edits = left.edits
  BY DialogsAdvance DEF Advances
<1>2. /\ DOMAIN dialogs' = Dialog /\ dialogs'[d] = next
      /\ \A e \in Dialog \ {d} : dialogs'[e] = dialogs[e]
  BY <1>1 DEF Becomes, DialogInv
<1>3. DOMAIN left' = {"errors", "edits", "kills", "commands", "dialogs"}
  BY DEF DialogInv, Dialogs, DialogStep, StartDialog, AskRecipe, AskName, AskTarget, AskInput, InputEnds,
         Parse, MakeTemp, Write, Link, Unlink, Discard, Kill, Fault
<1> QED
  BY <1>1, <1>2, <1>3 DEF DialogInv

LEMMA OthersPreserve ==
  ASSUME DialogInv,
         \/ Start \/ Preview \/ Run \/ StartRuntime \/ Preflight \/ Plan \/ Report \/ Generate
         \/ Environment \/ UNCHANGED vars
  PROVE  /\ DialogInv'
         /\ file' # file => left'.edits # left.edits
<1>1. UNCHANGED dialogs
  BY DEF Start, Preview, Run, Begin, StartRuntime, Preflight, Plan, Report, Generate, Environment, vars
<1>2. CASE Environment
  <2>1. /\ left' = [left EXCEPT !.edits = @ - 1] /\ left.edits > 0
        /\ file' = file \/ file' = Nothing \/ file'.by = "others"
    BY <1>2 DEF Environment
  <2>2. /\ left'.edits \in Nat /\ left'.edits # left.edits
        /\ DOMAIN left' = {"errors", "edits", "kills", "commands", "dialogs"}
    BY <2>1 DEF DialogInv
  <2> QED
    BY <1>1, <2>1, <2>2, NothingIsPublished DEF DialogInv
<1>3. CASE Start \/ Preview \/ Run \/ StartRuntime \/ Preflight \/ Plan \/ Report \/ Generate
           \/ UNCHANGED vars
  <2>1. file' = file
    BY <1>3 DEF Start, Preview, Run, Begin, StartRuntime, Preflight, Plan, Report, Generate, vars
  <2>2. left' = left \/ left' = [left EXCEPT !.commands = @ - 1]
    BY <1>3 DEF Start, Preview, Run, Begin, StartRuntime, Preflight, Plan, Report, Generate, vars
  <2>3. /\ left'.edits = left.edits
        /\ DOMAIN left' = {"errors", "edits", "kills", "commands", "dialogs"}
    BY <2>2 DEF DialogInv
  <2> QED
    BY <1>1, <2>1, <2>3 DEF DialogInv
<1> QED
  BY <1>2, <1>3

LEMMA DialogsStart == Init => DialogInv
<1> SUFFICES ASSUME Init PROVE DialogInv
  OBVIOUS
<1>1. dialogs = [d \in Dialog |-> NewDialog] /\ Sound(NewDialog)
  BY DEF Init, NewDialog, Sound, Fields, Early, Asking
<1>2. CASE LibraryInit
  BY <1>1, <1>2 DEF LibraryInit, DialogInv
<1>3. CASE ApplicationInit
  BY <1>1, <1>3, NothingIsPublished, LeftIsABudget DEF ApplicationInit, DialogInv
<1> QED
  BY <1>2, <1>3 DEF Init

LEMMA DialogInvHolds == Spec => []DialogInv
<1>1. DialogInv /\ [Next]_vars => DialogInv'
  BY AdvancingPreserves, OthersPreserve DEF Next
<1> QED
  BY <1>1, DialogsStart, PTL DEF Spec

----------------------------------------------------------------------------
\* For any number of dialogs, whatever fails and whenever they are killed: what
\* init says is true of its file and of its temporary file.
THEOREM InitTellsTheTruth == Spec => []OutcomeIsTrue
<1>1. DialogInv => OutcomeIsTrue
  BY DEF DialogInv, OutcomeIsTrue, Sound
<1> QED
  BY <1>1, DialogInvHolds, PTL

\* For any number of dialogs: none replaces what is at the output path, and
\* what it puts there is whole.
THEOREM InitReplacesNothing == Spec => ExistingIsKept
<1>1. ASSUME DialogInv, [Next]_vars, file' # file, left'.edits = left.edits
      PROVE  file = Nothing /\ dialogs[file'.by].temp = "full"
  <2>1. PICK d \in Dialog : Dialogs(d)
    BY <1>1, OthersPreserve DEF Next
  <2> QED
    BY <1>1, <2>1, DialogsAdvance DEF Advances
<1>2. DialogInv /\ [Next]_vars =>
        [ (file' # file /\ left'.edits = left.edits) => (file = Nothing /\ dialogs[file'.by].temp = "full") ]_vars
  BY <1>1
<1> QED
  BY <1>2, DialogInvHolds, PTL DEF Spec, ExistingIsKept

----------------------------------------------------------------------------
(***************************************************************************)
(* The composition: no step of it touches the compiler's variables except  *)
(* as one of the compiler's, or exchanges the registrations.               *)
(***************************************************************************)

LEMMA StepsArePlanSteps ==
  ASSUME [Next]_vars
  PROVE  PlanStep \/ UNCHANGED planVars
<1>1. CASE Start \/ Run \/ StartRuntime \/ Environment
  BY <1>1 DEF Start, Run, StartRuntime, Environment
<1>2. CASE Preview
  BY <1>2 DEF Preview, PlanStep, planVars
<1>3. CASE Preflight
  BY <1>3 DEF Preflight, PlanStep
<1>4. CASE Plan \/ Report \/ Generate
  BY <1>4 DEF Plan, Report, Generate, PlanStep
<1>5. ASSUME NEW d \in Dialog, Dialogs(d) PROVE UNCHANGED planVars
  BY <1>5 DEF Dialogs
<1>6. CASE UNCHANGED vars
  BY <1>6 DEF vars
<1> QED
  BY <1>1, <1>2, <1>3, <1>4, <1>5, <1>6 DEF Next

\* In every behaviour of the commands too, whatever registrations, catalogs and
\* configurations they are started with.
THEOREM PlansAreExact == Spec => []PlanIsNecessaryAndSufficient
<1>1. Init => PlanInv
  BY PlanStarts DEF Init, LibraryInit, ApplicationInit
<1>2. PlanInv /\ [Next]_vars => PlanInv'
  BY PlanStepPreserves, StepsArePlanSteps
<1> QED
  BY <1>1, <1>2, PlanInvSuffices, PTL DEF Spec

\* What the compiler's own steps keep is kept by the commands.
LEMMA CommandsKeepThePlan == Spec => [](PlanInv /\ OrderInv)
<1>1. Init => PlanInv /\ OrderInv
  <2> SUFFICES ASSUME Init PROVE PlanInv /\ OrderInv
    OBVIOUS
  <2>1. (PlanInit \/ PlanIdle) /\ pc \in {"idle", "index"} /\ order = <<>>
    BY DEF Init, LibraryInit, ApplicationInit, PlanInit, PlanIdle
  <2>2. IsCatalog(catalog)
    BY CatalogsAreCatalogs, CatalogsAreLoaded DEF Init, LibraryInit, ApplicationInit, PlanInit
  <2> QED
    BY <2>1, <2>2, PlanStarts DEF OrderInv, Working, Sorted
<1>2. PlanInv /\ OrderInv /\ [Next]_vars => (PlanInv /\ OrderInv)'
  BY PlanStepPreserves, PlanStepRefuses, StepsArePlanSteps
<1> QED
  BY <1>1, <1>2, PTL DEF Spec

\* In every behaviour of the commands preview and run get the same plan for
\* the same answers: the first of all orders.
THEOREM PlansAreCanonical == Spec => []PlanIsCanonical
BY CommandsKeepThePlan, OrderInvSuffices, PTL

\* In every behaviour of the commands only what is impossible is refused.
THEOREM RefusalsAreRight == Spec => []RefusedIffImpossible
BY CommandsKeepThePlan, OrderInvSuffices, PTL

\* Before the compilation nothing is exposed; after it, what Compiles said of
\* the registrations, which are frozen.
RegistrationInv ==
  /\ app # "library" => registrations \in Seq(ToSet(registrations))
  /\ app = "ready" => Compiles(registrations)
  /\ app = "refused" => ~Compiles(registrations)

LEMMA RegistrationsAreFrozen ==
  ASSUME [Next]_vars
  PROVE  /\ registrations' = registrations
         /\ app' = app \/ (app = "starting" /\ app' = IF Compiles(registrations) THEN "ready" ELSE "refused")
<1>1. CASE Start
  BY <1>1 DEF Start
<1>2. CASE Preview \/ Run
  BY <1>2 DEF Preview, Run, Begin
<1>3. CASE StartRuntime \/ Preflight \/ Plan \/ Report \/ Generate \/ Environment
  BY <1>3 DEF StartRuntime, Preflight, Plan, Report, Generate, Environment
<1>4. ASSUME NEW d \in Dialog, Dialogs(d) PROVE registrations' = registrations /\ app' = app
  <2>1. StartDialog(d) \/ DialogStep(d)
    BY <1>4 DEF Dialogs
  <2>2. (\E next : Becomes(d, next)) => registrations' = registrations
    BY DEF Becomes
  <2>3. \E next : Becomes(d, next)
    BY <2>1 DEF StartDialog, DialogStep, AskRecipe, AskName, AskTarget, AskInput, InputEnds, Parse,
                MakeTemp, Write, Link, Unlink, Discard, Kill
  <2> QED
    BY <1>4, <2>2, <2>3 DEF Dialogs
<1>5. CASE UNCHANGED vars
  BY <1>5 DEF vars
<1> QED
  BY <1>1, <1>2, <1>3, <1>4, <1>5 DEF Next

\* The application starts exactly with the registrations that can be served,
\* for any number of them and any keys, gates and inputs.
THEOREM ReadyOnlyIfServiceable == Spec => []CompiledIffServiceable
<1>1. Init => RegistrationInv
  BY RegistrationsAreSequences DEF Init, LibraryInit, ApplicationInit, RegistrationInv
<1>2. RegistrationInv /\ [Next]_vars => RegistrationInv'
  BY RegistrationsAreFrozen DEF RegistrationInv
<1>3. RegistrationInv => CompiledIffServiceable
  BY RegistrationsCompileIffServiceable DEF RegistrationInv, CompiledIffServiceable
<1> QED
  BY <1>1, <1>2, <1>3, PTL DEF Spec

----------------------------------------------------------------------------
(***************************************************************************)
(* What a dialog published.  A configuration that was parsed is a fixed    *)
(* point (Lasts): parsing it again changes no part of it, whatever is on   *)
(* the disk by then.  A dialog that linked its file keeps that             *)
(* configuration in memory, and the file is what Canonical makes of it     *)
(* until others replace it.                                                *)
(***************************************************************************)

BuiltIn == {"fastapi", "cmake", "go"}

Lasts(c) ==
  LET n == NormalizerAt(registrations, registrations[RecipeAt(registrations, c.recipe)].recipe.parser) IN
  /\ c = Configuration(c.recipe, c.name, c.target, c.answers)
  /\ RecipeAt(registrations, c.recipe) # 0 /\ n # 0
  /\ c.name \in DOMAIN Tidy /\ Tidy[c.name] = c.name
  /\ c.target \notin Unsafe /\ \A cwd \in DOMAIN Resolve : Resolve[cwd][c.target] = c.target
  /\ Normalize(registrations[n].normalizer, c.answers, c.name) = {c.answers}

\* The world that is seen is one that texts can be resolved in.
SeesInv ==
  /\ app = "library" => file = Nothing
  /\ app # "library" =>
       /\ registrations \in Seq(ToSet(registrations))
       /\ \A r \in ToSet(registrations) : r.normalizer \in BuiltIn
       /\ DOMAIN world = {"cwd", "exists"} /\ world.cwd \in DOMAIN Resolve

Lasting(me) ==
  /\ "form" \in DOMAIN me.raw /\ me.raw.form = "v2"
  /\ me.at \in {"temp", "write", "link"} \/ me.linked = TRUE => Lasts(me.configuration)

PublishedInv ==
  /\ \A d \in Dialog : Lasting(dialogs[d])
  /\ \A d \in Dialog : Published(d) => file.content = Canonical(dialogs[d].configuration)

\* The three normalizers leave complete answers as they are.
LEMMA NormalizedIsFixed ==
  ASSUME NEW normalizer \in BuiltIn, NEW answers, NEW name, NEW a \in Normalize(normalizer, answers, name)
  PROVE  Normalize(normalizer, a, name) = {a}
<1>1. ASSUME NEW keys, NEW values, NEW again, a \in Checked(keys, values), again = values
      PROVE  Checked(a, again) = {a}
  BY <1>1 DEF Checked
<1>2. CASE normalizer = "fastapi"
  <2>1. a \in FastapiAnswers(answers, name) /\ Normalize(normalizer, a, name) = FastapiAnswers(a, name)
    BY <1>2 DEF Normalize
  <2>2. a = [package_name |-> Given(answers, "package_name", Derived["package_name"][name]),
             database |-> Given(answers, "database", "postgres"),
             delivery |-> Given(answers, "delivery", "docker")]
    BY <2>1 DEF FastapiAnswers, Checked
  <2>3. a = [package_name |-> Given(a, "package_name", Derived["package_name"][name]),
             database |-> Given(a, "database", "postgres"),
             delivery |-> Given(a, "delivery", "docker")]
    BY <2>2 DEF Given
  <2> QED
    BY <1>1, <2>1, <2>2, <2>3 DEF FastapiAnswers
<1>3. CASE normalizer = "cmake"
  <2>1. a \in CmakeAnswers(answers, name) /\ Normalize(normalizer, a, name) = CmakeAnswers(a, name)
    BY <1>3 DEF Normalize
  <2>2. a = [target_name |-> Given(answers, "target_name", Derived["target_name"][name]),
             strict_warnings |-> Given(answers, "strict_warnings", "true")]
    BY <2>1 DEF CmakeAnswers, Checked
  <2>3. a = [target_name |-> Given(a, "target_name", Derived["target_name"][name]),
             strict_warnings |-> Given(a, "strict_warnings", "true")]
    BY <2>2 DEF Given
  <2> QED
    BY <1>1, <2>1, <2>2, <2>3 DEF CmakeAnswers
<1>4. CASE normalizer = "go"
  <2> DEFINE binary(x) == Given(x, "binary_name", Derived["binary_name"][name])
             path(x) == Given(x, "module_path",
                              IF binary(x) \in Portable["binary_name"] THEN ModuleOf[binary(x)] ELSE "")
  <2>1. a \in GoAnswers(answers, name) /\ Normalize(normalizer, a, name) = GoAnswers(a, name)
    BY <1>4 DEF Normalize
  <2>2. a = [binary_name |-> binary(answers), module_path |-> path(answers)]
    BY <2>1 DEF GoAnswers, Checked
  <2>3. a = [binary_name |-> binary(a), module_path |-> path(a)]
    BY <2>2 DEF Given
  <2>4. /\ GoAnswers(answers, name) = Checked(answers, [binary_name |-> binary(answers), module_path |-> path(answers)])
        /\ GoAnswers(a, name) = Checked(a, [binary_name |-> binary(a), module_path |-> path(a)])
    BY DEF GoAnswers
  <2> HIDE DEF binary, path
  <2> QED
    BY <1>1, <2>1, <2>2, <2>3, <2>4
<1> QED
  BY <1>2, <1>3, <1>4 DEF BuiltIn

LEMMA ParsedLasts ==
  ASSUME SeesInv, app # "library", NEW raw, raw.form = "v2", NEW c \in Parsed(raw, registrations, Seen)
  PROVE  Lasts(c)
<1> DEFINE i == RecipeAt(registrations, raw.recipe)
           n == NormalizerAt(registrations, registrations[i].recipe.parser)
           name == Tidy[raw.name]
<1>1. c \in ParsedV2(raw, registrations, Seen)
  BY DEF Parsed
<1>2. i # 0 /\ n # 0 /\ raw.name \in DOMAIN Tidy
  BY <1>1 DEF ParsedV2
<1>3. PICK t \in Targets(raw.target, Seen), a \in Normalize(registrations[n].normalizer, raw.answers, name) :
        c = Configuration(raw.recipe, name, t, a)
  BY <1>1, <1>2 DEF ParsedV2
<1>4. c.recipe = raw.recipe /\ c.name = name /\ c.target = t /\ c.answers = a
  BY <1>3 DEF Configuration
<1>5. name \in DOMAIN Tidy /\ Tidy[name] = name
  BY <1>2, TextsAreNormal
<1>6. Seen.cwd \in DOMAIN Resolve
  BY DEF SeesInv, Seen
<1>7. raw.target \in Legal /\ t = Resolve[Seen.cwd][raw.target] /\ t \notin Unsafe
  BY DEF Targets
<1>8. \A cwd \in DOMAIN Resolve : Resolve[cwd][t] = t
  BY <1>6, <1>7, TextsAreNormal
<1>9. registrations[n].normalizer \in BuiltIn
  <2>1. n \in DOMAIN registrations
    BY <1>2, NormalizerIsOne DEF SeesInv
  <2> QED
    BY <2>1 DEF SeesInv, ToSet
<1>10. Normalize(registrations[n].normalizer, a, name) = {a}
  BY <1>9, NormalizedIsFixed
<1> HIDE DEF name
<1> QED
  BY <1>2, <1>3, <1>4, <1>5, <1>7, <1>8, <1>10 DEF Lasts

LEMMA LastingIsParsedAgain ==
  ASSUME NEW c, Lasts(c), NEW seen, seen.cwd \in DOMAIN Resolve,
         c.target \in Legal, c.target \notin seen.exists, Parent[c.target] \in seen.exists
  PROVE  Parsed(Canonical(c), registrations, seen) = {c}
<1>1. Parsed(Canonical(c), registrations, seen) = ParsedV2(Canonical(c), registrations, seen)
  BY DEF Parsed, Canonical
<1>2. Targets(c.target, seen) = {c.target}
  BY DEF Targets, Lasts
<1> QED
  BY <1>1, <1>2 DEF ParsedV2, Canonical, Lasts

\* What a step of dialog d comes to, for its file and its configuration.
Keeps(d) ==
  \E next :
    /\ Becomes(d, next) /\ Lasting(next)
    /\ dialogs[d].linked = TRUE => next.configuration = dialogs[d].configuration
    /\ \/ file' = file
       \/ file'.by = d /\ file'.content = Canonical(next.configuration)

\* A step that changes neither the place in the publication nor what it links.
LEMMA QuestionsKeep ==
  ASSUME NEW d \in Dialog, DialogInv, Lasting(dialogs[d]),
         StartDialog(d) \/ AskRecipe(d) \/ AskName(d) \/ AskTarget(d) \/ AskInput(d)
  PROVE  Keeps(d)
<1> Sound(dialogs[d])
  BY DEF DialogInv
<1>1. CASE StartDialog(d)
  BY <1>1, ScriptsAreVersion2 DEF StartDialog, Keeps, Lasting, Sound, Fields, Early, Asking
<1>2. CASE AskRecipe(d)
  BY <1>2 DEF AskRecipe, Keeps, Lasting, Sound, Fields, Early, Asking
<1>3. CASE AskName(d)
  BY <1>3 DEF AskName, Keeps, Lasting, Sound, Fields, Early, Asking
<1>4. CASE AskTarget(d)
  BY <1>4 DEF AskTarget, Keeps, Lasting, Sound, Fields, Early, Asking
<1>5. CASE AskInput(d)
  BY <1>5 DEF AskInput, Keeps, Lasting, Sound, Fields, Early, Asking
<1> QED
  BY <1>1, <1>2, <1>3, <1>4, <1>5

LEMMA NoRawIsVersion2 == "form" \in DOMAIN NoRaw /\ NoRaw.form = "v2"
BY DEF NoRaw

LEMMA FinishLasts ==
  ASSUME NEW me, Sound(me), Lasting(me), NEW at \in {"not_created", "dead"}
  PROVE  /\ Lasting(Finish(me, at))
         /\ me.linked = TRUE => Finish(me, at).configuration = me.configuration
BY NoRawIsVersion2 DEF Sound, Lasting, Finish, Fields

LEMMA ParseKeeps ==
  ASSUME NEW d \in Dialog, DialogInv, SeesInv, app # "library", Lasting(dialogs[d]), Parse(d) \/ InputEnds(d)
  PROVE  Keeps(d)
<1>1. Sound(dialogs[d])
  BY DEF DialogInv
<1>2. dialogs[d].at \in Early /\ dialogs[d].linked = FALSE
  BY <1>1 DEF Parse, InputEnds, Sound, Early
<1>3. CASE InputEnds(d) \/ (Parse(d) /\ Becomes(d, Finish(dialogs[d], "not_created")))
  BY <1>1, <1>3, FinishLasts DEF InputEnds, Parse, Keeps
<1>4. ASSUME NEW c \in Parsed(dialogs[d].raw, registrations, Seen), Parse(d),
             Becomes(d, [Finish(dialogs[d], "temp") EXCEPT !.configuration = c])
      PROVE  Keeps(d)
  <2> DEFINE next == [Finish(dialogs[d], "temp") EXCEPT !.configuration = c]
  <2>1. Lasts(c)
    BY ParsedLasts DEF Lasting
  <2>2. next.configuration = c /\ next.raw = NoRaw
    BY <1>1 DEF Finish, Sound, Fields
  <2>3. Becomes(d, next)
    BY <1>4
  <2> HIDE DEF next
  <2>4. Lasting(next)
    BY <2>1, <2>2, NoRawIsVersion2 DEF Lasting
  <2> QED
    BY <1>2, <1>4, <2>3, <2>4 DEF Parse, Keeps
<1> QED
  BY <1>3, <1>4 DEF Parse

LEMMA PublicationKeeps ==
  ASSUME NEW d \in Dialog, DialogInv, Lasting(dialogs[d]), Write(d) \/ Link(d) \/ Unlink(d)
  PROVE  Keeps(d)
<1> Sound(dialogs[d])
  BY DEF DialogInv
<1>1. CASE Write(d)
  BY <1>1 DEF Write, Keeps, Lasting, Sound, Fields, Early, Asking
<1>2. CASE Link(d)
  <2> DEFINE published == [dialogs[d] EXCEPT !.at = "unlink", !.linked = TRUE]
             refused == [dialogs[d] EXCEPT !.at = "discard"]
  <2>1. dialogs[d].at = "link" /\ dialogs[d].linked = FALSE /\ Lasts(dialogs[d].configuration)
    BY <1>2 DEF Link, Sound, Lasting
  <2>2. /\ published.configuration = dialogs[d].configuration /\ Lasting(published)
        /\ Lasting(refused)
    BY <2>1 DEF Sound, Lasting, Fields
  <2>3. CASE file' = [content |-> Canonical(dialogs[d].configuration), by |-> d] /\ Becomes(d, published)
    <3>1. file'.by = d /\ file'.content = Canonical(dialogs[d].configuration)
      BY <2>3
    <3> HIDE DEF published
    <3> QED
      BY <2>1, <2>2, <2>3, <3>1 DEF Keeps
  <2>4. CASE Becomes(d, refused) /\ UNCHANGED file
    <3> HIDE DEF refused
    <3> QED
      BY <2>1, <2>2, <2>4 DEF Keeps
  <2> QED
    BY <1>2, <2>3, <2>4 DEF Link
<1>3. CASE Unlink(d)
  BY <1>3 DEF Unlink, Keeps, Lasting, Sound, Fields, Early, Asking
<1> QED
  BY <1>1, <1>2, <1>3

LEMMA EndKeeps ==
  ASSUME NEW d \in Dialog, DialogInv, Lasting(dialogs[d]), MakeTemp(d) \/ Discard(d) \/ Kill(d)
  PROVE  Keeps(d)
<1>1. Sound(dialogs[d])
  BY DEF DialogInv
<1>2. ASSUME NEW next, Becomes(d, next), Lasting(next), MakeTemp(d) \/ Discard(d) \/ Kill(d),
             dialogs[d].linked = TRUE => next.configuration = dialogs[d].configuration
      PROVE  Keeps(d)
  BY <1>2 DEF MakeTemp, Discard, Kill, Keeps
<1>3. CASE MakeTemp(d)
  <2> DEFINE next == [dialogs[d] EXCEPT !.at = "write", !.temp = "partial"]
  <2>1. dialogs[d].at = "temp" /\ Lasts(dialogs[d].configuration)
    BY <1>3 DEF MakeTemp, Lasting
  <2>2. Lasting(next) /\ next.configuration = dialogs[d].configuration
    BY <1>1, <2>1 DEF Sound, Fields, Lasting
  <2> QED
    BY <1>1, <1>2, <1>3, <2>2, FinishLasts DEF MakeTemp
<1>4. CASE Discard(d)
  <2> DEFINE done == Finish(dialogs[d], "not_created")
  <2>1. dialogs[d].linked = FALSE
    BY <1>1, <1>4 DEF Discard, Sound
  <2>2. Lasting([done EXCEPT !.temp = "none"]) /\ Lasting([done EXCEPT !.stuck = TRUE])
    BY <1>1, <2>1 DEF Finish, Sound, Fields, Lasting, NoRaw
  <2> QED
    BY <1>2, <1>4, <2>1, <2>2 DEF Discard
<1>5. CASE Kill(d)
  BY <1>1, <1>2, <1>5, FinishLasts DEF Kill
<1> QED
  BY <1>3, <1>4, <1>5

LEMMA DialogsKeep ==
  ASSUME NEW d \in Dialog, DialogInv, SeesInv, Lasting(dialogs[d]), Dialogs(d)
  PROVE  Keeps(d)
<1>1. app # "library"
  BY DEF Dialogs
<1> QED
  BY <1>1, QuestionsKeep, ParseKeeps, PublicationKeeps, EndKeeps DEF Dialogs, DialogStep

LEMMA SeeingIsKept ==
  ASSUME SeesInv, [Next]_vars
  PROVE  SeesInv'
<1>1. /\ registrations' = registrations
      /\ app' = "library" <=> app = "library"
  BY RegistrationsAreFrozen
<1>2. CASE Generate \/ Environment
  BY <1>1, <1>2, DirectoriesResolve DEF Generate, Environment, SeesInv
<1>3. CASE Start \/ Preview \/ Run \/ StartRuntime \/ Preflight \/ Plan \/ Report \/ UNCHANGED vars
  <2>1. world' = world /\ file' = file
    BY <1>3 DEF Start, Preview, Run, Begin, StartRuntime, Preflight, Plan, Report, vars
  <2> QED
    BY <1>1, <2>1 DEF SeesInv
<1>4. ASSUME NEW d \in Dialog, Dialogs(d) PROVE SeesInv'
  <2>1. StartDialog(d) \/ DialogStep(d)
    BY <1>4 DEF Dialogs
  <2>2. (\E next : Becomes(d, next)) => world' = world
    BY DEF Becomes
  <2>3. \E next : Becomes(d, next)
    BY <2>1 DEF StartDialog, DialogStep, AskRecipe, AskName, AskTarget, AskInput, InputEnds, Parse,
                MakeTemp, Write, Link, Unlink, Discard, Kill
  <2>4. app = "ready" /\ app' = app
    BY <1>4 DEF Dialogs
  <2> QED
    BY <1>1, <2>2, <2>3, <2>4 DEF SeesInv
<1> QED
  BY <1>2, <1>3, <1>4 DEF Next

LEMMA PublishedIsKept ==
  ASSUME DialogInv, SeesInv, PublishedInv, [Next]_vars
  PROVE  PublishedInv'
<1>1. registrations' = registrations
  BY RegistrationsAreFrozen
<1>2. \A me : Lasting(me) => Lasting(me)'
  BY <1>1 DEF Lasting, Lasts
<1>3. ASSUME NEW d \in Dialog, Dialogs(d) PROVE PublishedInv'
  <2>1. PICK next :
          /\ Becomes(d, next) /\ Lasting(next)
          /\ dialogs[d].linked = TRUE => next.configuration = dialogs[d].configuration
          /\ \/ file' = file
             \/ file'.by = d /\ file'.content = Canonical(next.configuration)
    BY <1>3, DialogsKeep DEF Keeps, PublishedInv
  <2>2. dialogs'[d] = next /\ \A e \in Dialog \ {d} : dialogs'[e] = dialogs[e]
    BY <2>1 DEF Becomes, DialogInv
  <2>3. ASSUME NEW e \in Dialog PROVE Lasting(dialogs[e])'
    BY <1>1, <2>1, <2>2 DEF PublishedInv, Lasting, Lasts
  <2>4. ASSUME NEW e \in Dialog, Published(e)' PROVE file'.content = Canonical(dialogs'[e].configuration)
    <3>1. CASE file' = file
      <4>1. Published(e) /\ dialogs[e].linked = TRUE /\ file.content = Canonical(dialogs[e].configuration)
        BY <2>4, <3>1 DEF Published, DialogInv, PublishedInv
      <4> QED
        BY <2>1, <2>2, <3>1, <4>1
    <3>2. CASE file'.by = d /\ file'.content = Canonical(next.configuration)
      BY <2>2, <2>4, <3>2 DEF Published
    <3> QED
      BY <2>1, <3>1, <3>2
  <2> QED
    BY <2>3, <2>4 DEF PublishedInv, Canonical
<1>4. CASE \/ Start \/ Preview \/ Run \/ StartRuntime \/ Preflight \/ Plan \/ Report \/ Generate
           \/ Environment \/ UNCHANGED vars
  <2>1. dialogs' = dialogs
    BY <1>4 DEF Start, Preview, Run, Begin, StartRuntime, Preflight, Plan, Report, Generate, Environment, vars
  <2>2. file' = file \/ file' = Nothing \/ file'.by = "others"
    BY <1>4 DEF Start, Preview, Run, Begin, StartRuntime, Preflight, Plan, Report, Generate, Environment, vars
  <2>3. ASSUME NEW e \in Dialog, Published(e)' PROVE file' = file
    BY <2>2, <2>3, NothingIsPublished DEF Published
  <2>4. ASSUME NEW e \in Dialog PROVE Lasting(dialogs[e])'
    BY <1>1, <2>1 DEF PublishedInv, Lasting, Lasts
  <2> QED
    BY <2>1, <2>3, <2>4 DEF PublishedInv, Published, Canonical
<1> QED
  BY <1>3, <1>4 DEF Next

LEMMA PublishedStarts == Init => SeesInv /\ PublishedInv
<1> SUFFICES ASSUME Init PROVE SeesInv /\ PublishedInv
  OBVIOUS
<1>1. \A d \in Dialog : dialogs[d] = NewDialog
  BY DEF Init
<1>2. \A d \in Dialog : Lasting(dialogs[d])
  BY <1>1, NoRawIsVersion2 DEF Lasting, NewDialog
<1>3. CASE LibraryInit
  BY <1>2, <1>3 DEF LibraryInit, SeesInv, PublishedInv, Published
<1>4. CASE ApplicationInit
  <2>1. PICK s \in Situations :
          app = "starting" /\ registrations = s.registrations /\ file = s.file /\ world = s.world
    BY <1>4 DEF ApplicationInit
  <2>2. SeesInv
    BY <2>1, RegistrationsAreSequences, NormalizersAreBuiltIn, DirectoriesResolve DEF SeesInv, BuiltIn
  <2>3. \A d \in Dialog : ~ Published(d)
    BY <2>1, NothingIsPublished DEF Published
  <2> QED
    BY <1>2, <2>2, <2>3 DEF PublishedInv
<1> QED
  BY <1>3, <1>4 DEF Init

\* For any registrations, contents, places and texts, any number of dialogs and
\* whatever happens in between: a file that init published and nobody edited is
\* read as the configuration that was validated, from any working directory.
THEOREM InitWritesWhatIsRead == Spec => []PublishedIsAccepted
<1> DEFINE I == DialogInv /\ SeesInv /\ PublishedInv
<1>1. Init => I
  BY DialogsStart, PublishedStarts
<1>2. I /\ [Next]_vars => I'
  <2>1. DialogInv /\ [Next]_vars => DialogInv'
    BY AdvancingPreserves, OthersPreserve DEF Next
  <2> QED
    BY <2>1, SeeingIsKept, PublishedIsKept
<1>3. I => PublishedIsAccepted
  <2> SUFFICES ASSUME I, NEW d \in Dialog, Published(d), NEW cwd \in Directories,
                      dialogs[d].configuration.target \in Legal,
                      dialogs[d].configuration.target \notin Seen.exists,
                      Parent[dialogs[d].configuration.target] \in Seen.exists
               PROVE  Parsed(file.content, registrations, [Seen EXCEPT !.cwd = cwd])
                        = {dialogs[d].configuration}
    BY DEF PublishedIsAccepted
  <2>1. Lasts(dialogs[d].configuration) /\ file.content = Canonical(dialogs[d].configuration)
    BY DEF DialogInv, PublishedInv, Lasting, Published
  <2>2. app # "library" /\ DOMAIN world = {"cwd", "exists"}
    BY DEF SeesInv, Published
  <2>3. LET seen == [Seen EXCEPT !.cwd = cwd] IN
        seen.cwd = cwd /\ seen.exists = Seen.exists /\ cwd \in DOMAIN Resolve
    BY <2>2, DirectoriesResolve DEF Seen
  <2> QED
    BY <2>1, <2>3, LastingIsParsedAgain
<1> QED
  BY <1>1, <1>2, <1>3, PTL DEF Spec

----------------------------------------------------------------------------
(***************************************************************************)
(* Type correctness.  Only configurations that were accepted are worked    *)
(* on, and their recipe is registered (Accepted): that is why what is      *)
(* compiled for one is a call of the plan compiler.  A command is at its   *)
(* plan exactly while the compiler is busy (CommandTyped).                 *)
(***************************************************************************)

Accepted(c) == c \in Configurations /\ RecipeAt(registrations, c.recipe) # 0

Configured == {"temp", "write", "link", "unlink", "created"}

DialogTyped(me) ==
  /\ me.at \in Asking \cup Ended \cup {"parse", "temp", "write", "link", "unlink", "discard"}
  /\ me.temp \in {"none", "partial", "full"}
  /\ me.configuration = Nothing \/ Accepted(me.configuration)
  /\ me.at \in Configured => me.configuration # Nothing
  /\ me.at \notin Asking \cup {"parse"} => me.raw = NoRaw

CommandTyped ==
  /\ \/ command = NoCommand
     \/ /\ app # "library"
        /\ \E name \in {"preview", "run"}, at \in {"runtime", "preflight", "plan"}, c \in Configurations :
             Accepted(c) /\ command = [name |-> name, at |-> at, configuration |-> c]
  /\ app # "library" => (command.at = "plan" <=> pc # "idle")

StateTyped ==
  /\ app \in {"library", "starting", "ready", "refused"}
  /\ app # "library" => \E s \in Situations : registrations = s.registrations
  /\ file = Nothing \/ file.by \in Dialog \cup {"others"}

TypeInv ==
  PlanTyped /\ StateTyped /\ CommandTyped /\ \A d \in Dialog : DialogTyped(dialogs[d])

LEMMA RecipeAtIsOne ==
  ASSUME NEW R, NEW regs \in Seq(R), NEW id, RecipeAt(regs, id) # 0
  PROVE  RecipeAt(regs, id) \in DOMAIN regs /\ regs[RecipeAt(regs, id)].recipe.id = id
<1> DEFINE I == {i \in 1 .. Len(regs) : regs[i].recipe.id = id}
<1>1. RecipeAt(regs, id) = IF I # {} THEN Min(I) ELSE 0
  BY DEF RecipeAt, SelectInSeq
<1>2. I # {} /\ I \subseteq Nat
  BY <1>1
<1>3. Min(I) \in I
  <2> HIDE DEF I
  <2> QED
    BY <1>2, MinIsMember
<1> QED
  BY <1>1, <1>2, <1>3

LEMMA CheckedIsAllowed ==
  ASSUME NEW answers, NEW values, NEW a \in Checked(answers, values)
  PROVE  a = values /\ \A key \in DOMAIN a : a[key] \in Allowed(key)
BY DEF Checked

LEMMA FreeTexts ==
  /\ Allowed("package_name") = Portable["package_name"] /\ Allowed("target_name") = Portable["target_name"]
  /\ Allowed("binary_name") = Portable["binary_name"] /\ Allowed("module_path") = Portable["module_path"]
  /\ Allowed("container") = Allowed("delivery")
BY DEF Allowed

LEMMA NormalizedIsNormalized ==
  ASSUME NEW normalizer \in BuiltIn, NEW answers, NEW name, NEW a \in Normalize(normalizer, answers, name)
  PROVE  a \in Normalized
<1>1. CASE normalizer = "fastapi"
  <2>1. a \in FastapiAnswers(answers, name)
    BY <1>1 DEF Normalize
  <2>2. PICK x, y, z : a \in Checked(answers, [package_name |-> x, database |-> y, delivery |-> z])
    BY <2>1 DEF FastapiAnswers
  <2>3. a = [package_name |-> x, database |-> y, delivery |-> z] /\ \A key \in DOMAIN a : a[key] \in Allowed(key)
    BY <2>2, CheckedIsAllowed
  <2>4. x \in Allowed("package_name") /\ y \in Allowed("database") /\ z \in Allowed("delivery")
    BY <2>3
  <2> QED
    BY <2>3, <2>4, FreeTexts DEF Normalized
<1>2. CASE normalizer = "cmake"
  <2>1. a \in CmakeAnswers(answers, name)
    BY <1>2 DEF Normalize
  <2>2. PICK x, y : a \in Checked(answers, [target_name |-> x, strict_warnings |-> y])
    BY <2>1 DEF CmakeAnswers
  <2>3. a = [target_name |-> x, strict_warnings |-> y] /\ \A key \in DOMAIN a : a[key] \in Allowed(key)
    BY <2>2, CheckedIsAllowed
  <2>4. x \in Allowed("target_name") /\ y \in Allowed("strict_warnings")
    BY <2>3
  <2> QED
    BY <2>3, <2>4, FreeTexts DEF Normalized
<1>3. CASE normalizer = "go"
  <2>1. a \in GoAnswers(answers, name)
    BY <1>3 DEF Normalize
  <2>2. PICK x, y : a \in Checked(answers, [binary_name |-> x, module_path |-> y])
    BY <2>1 DEF GoAnswers
  <2>3. a = [binary_name |-> x, module_path |-> y] /\ \A key \in DOMAIN a : a[key] \in Allowed(key)
    BY <2>2, CheckedIsAllowed
  <2>4. x \in Allowed("binary_name") /\ y \in Allowed("module_path")
    BY <2>3
  <2> QED
    BY <2>3, <2>4, FreeTexts DEF Normalized
<1> QED
  BY <1>1, <1>2, <1>3 DEF BuiltIn

LEMMA LegacyIsNormalized ==
  ASSUME NEW answers, NEW name, NEW a \in LegacyAnswers(answers, name)
  PROVE  [package_name |-> a.package_name, database |-> a.database, delivery |-> a.container] \in Normalized
<1>1. PICK x, y, z : a \in Checked(answers, [package_name |-> x, database |-> y, container |-> z])
  BY DEF LegacyAnswers
<1>2. a = [package_name |-> x, database |-> y, container |-> z] /\ \A key \in DOMAIN a : a[key] \in Allowed(key)
  BY <1>1, CheckedIsAllowed
<1>3. a.package_name \in Allowed("package_name") /\ a.database \in Allowed("database")
      /\ a.container \in Allowed("container")
  BY <1>2
<1> QED
  BY <1>3, FreeTexts DEF Normalized

LEMMA TargetsAreAbsolute ==
  ASSUME NEW text, NEW seen, seen.cwd \in DOMAIN Resolve, NEW t \in Targets(text, seen)
  PROVE  t \in AbsolutePath
BY TextsAreNormal DEF Targets, AbsolutePath

\* Whatever content it comes from, of either form.
LEMMA ParsedIsAccepted ==
  ASSUME SeesInv, StateTyped, app # "library", NEW raw, NEW c \in Parsed(raw, registrations, Seen)
  PROVE  Accepted(c)
<1>1. registrations \in Seq(ToSet(registrations)) /\ Seen.cwd \in DOMAIN Resolve
  BY DEF SeesInv, Seen
<1>2. ASSUME NEW id, RecipeAt(registrations, id) # 0
      PROVE  id \in {r.recipe.id : r \in UNION {ToSet(s.registrations) : s \in Situations}}
  <2>1. RecipeAt(registrations, id) \in DOMAIN registrations
        /\ registrations[RecipeAt(registrations, id)].recipe.id = id
    BY <1>1, <1>2, RecipeAtIsOne
  <2>2. PICK s \in Situations : registrations = s.registrations
    BY DEF StateTyped
  <2> QED
    BY <2>1, <2>2 DEF ToSet
<1>3. ASSUME NEW id, RecipeAt(registrations, id) # 0, NEW name \in DOMAIN Tidy, NEW t \in AbsolutePath,
             NEW a \in Normalized, c = Configuration(id, Tidy[name], t, a)
      PROVE  Accepted(c)
  BY <1>2, <1>3, TextsAreNormal DEF Accepted, Configurations, Configuration
<1>4. CASE raw.form = "v2"
  <2> DEFINE i == RecipeAt(registrations, raw.recipe)
             n == NormalizerAt(registrations, registrations[i].recipe.parser)
  <2>1. c \in ParsedV2(raw, registrations, Seen)
    BY <1>4 DEF Parsed
  <2>2. i # 0 /\ n # 0 /\ raw.name \in DOMAIN Tidy
    BY <2>1 DEF ParsedV2
  <2>3. PICK t \in Targets(raw.target, Seen),
             a \in Normalize(registrations[n].normalizer, raw.answers, Tidy[raw.name]) :
          c = Configuration(raw.recipe, Tidy[raw.name], t, a)
    BY <2>1, <2>2 DEF ParsedV2
  <2>4. registrations[n].normalizer \in BuiltIn
    <3>1. n \in DOMAIN registrations
      BY <1>1, <2>2, NormalizerIsOne
    <3> QED
      BY <3>1 DEF SeesInv, ToSet
  <2>5. a \in Normalized
    BY <2>4, NormalizedIsNormalized
  <2>6. t \in AbsolutePath
    BY <1>1, TargetsAreAbsolute
  <2> QED
    BY <1>3, <2>2, <2>3, <2>5, <2>6
<1>5. CASE raw.form = "legacy"
  <2>1. c \in ParsedLegacy(raw, registrations, Seen)
    BY <1>5 DEF Parsed
  <2>2. RecipeAt(registrations, Fastapi) # 0 /\ raw.name \in DOMAIN Tidy
    BY <2>1 DEF ParsedLegacy
  <2>3. PICK t \in Targets(raw.target, Seen), a \in LegacyAnswers(raw.answers, Tidy[raw.name]) :
          c = Configuration(Fastapi, Tidy[raw.name], t,
                [package_name |-> a.package_name, database |-> a.database, delivery |-> a.container])
    BY <2>1, <2>2 DEF ParsedLegacy
  <2>4. t \in AbsolutePath
    BY <1>1, TargetsAreAbsolute
  <2> QED
    BY <1>3, <2>2, <2>3, <2>4, LegacyIsNormalized
<1>6. CASE raw.form # "v2" /\ raw.form # "legacy"
  BY <1>6 DEF Parsed
<1> QED
  BY <1>4, <1>5, <1>6

\* What a step of dialog d comes to, for its type.
StaysTyped(d) ==
  \E next : Becomes(d, next) /\ DialogTyped(next) /\ (file' = file \/ file'.by = d)

LEMMA QuestionsAreTyped ==
  ASSUME NEW d \in Dialog, DialogInv, DialogTyped(dialogs[d]),
         StartDialog(d) \/ AskRecipe(d) \/ AskName(d) \/ AskTarget(d) \/ AskInput(d)
  PROVE  StaysTyped(d)
<1> Sound(dialogs[d])
  BY DEF DialogInv
<1>1. CASE StartDialog(d)
  BY <1>1 DEF StartDialog, StaysTyped, DialogTyped, Sound, Fields, Configured, Asking
<1>2. CASE AskRecipe(d)
  BY <1>2 DEF AskRecipe, StaysTyped, DialogTyped, Sound, Fields, Configured, Asking
<1>3. CASE AskName(d)
  BY <1>3 DEF AskName, StaysTyped, DialogTyped, Sound, Fields, Configured, Asking
<1>4. CASE AskTarget(d)
  BY <1>4 DEF AskTarget, StaysTyped, DialogTyped, Sound, Fields, Configured, Asking
<1>5. CASE AskInput(d)
  BY <1>5 DEF AskInput, StaysTyped, DialogTyped, Sound, Fields, Configured, Asking
<1> QED
  BY <1>1, <1>2, <1>3, <1>4, <1>5

LEMMA FinishIsTyped ==
  ASSUME NEW me, Sound(me), DialogTyped(me), NEW at \in {"not_created", "dead"}
  PROVE  DialogTyped(Finish(me, at))
BY DEF Sound, DialogTyped, Finish, Fields, Configured, Asking, Ended

LEMMA ParseIsTyped ==
  ASSUME NEW d \in Dialog, DialogInv, SeesInv, StateTyped, app # "library", DialogTyped(dialogs[d]),
         Parse(d) \/ InputEnds(d)
  PROVE  StaysTyped(d)
<1>1. Sound(dialogs[d])
  BY DEF DialogInv
<1>2. CASE InputEnds(d) \/ (Parse(d) /\ Becomes(d, Finish(dialogs[d], "not_created")))
  BY <1>1, <1>2, FinishIsTyped DEF InputEnds, Parse, StaysTyped
<1>3. ASSUME NEW c \in Parsed(dialogs[d].raw, registrations, Seen), Parse(d),
             Becomes(d, [Finish(dialogs[d], "temp") EXCEPT !.configuration = c])
      PROVE  StaysTyped(d)
  <2> DEFINE next == [Finish(dialogs[d], "temp") EXCEPT !.configuration = c]
  <2>1. Accepted(c) /\ c # Nothing
    BY ParsedIsAccepted, NothingIsNoConfiguration DEF Accepted
  <2>2. /\ next.configuration = c /\ next.raw = NoRaw /\ next.at = "temp"
        /\ next.temp = dialogs[d].temp
    BY <1>1 DEF Finish, Sound, Fields
  <2>3. Becomes(d, next)
    BY <1>3
  <2> HIDE DEF next
  <2>4. DialogTyped(next)
    BY <2>1, <2>2 DEF DialogTyped
  <2> QED
    BY <1>3, <2>3, <2>4 DEF Parse, StaysTyped
<1> QED
  BY <1>2, <1>3 DEF Parse

LEMMA PublicationIsTyped ==
  ASSUME NEW d \in Dialog, DialogInv, DialogTyped(dialogs[d]), Write(d) \/ Link(d) \/ Unlink(d)
  PROVE  StaysTyped(d)
<1> Sound(dialogs[d])
  BY DEF DialogInv
<1>1. CASE Write(d)
  BY <1>1 DEF Write, StaysTyped, DialogTyped, Sound, Fields, Configured, Asking
<1>2. CASE Link(d)
  <2> DEFINE published == [dialogs[d] EXCEPT !.at = "unlink", !.linked = TRUE]
             refused == [dialogs[d] EXCEPT !.at = "discard"]
  <2>1. dialogs[d].at = "link"
    BY <1>2 DEF Link
  <2>2. DialogTyped(published) /\ DialogTyped(refused)
    BY <2>1 DEF Sound, DialogTyped, Fields, Configured, Asking
  <2>3. CASE file' = [content |-> Canonical(dialogs[d].configuration), by |-> d] /\ Becomes(d, published)
    <3>1. file'.by = d
      BY <2>3
    <3> HIDE DEF published
    <3> QED
      BY <2>2, <2>3, <3>1 DEF StaysTyped
  <2>4. CASE Becomes(d, refused) /\ UNCHANGED file
    <3> HIDE DEF refused
    <3> QED
      BY <2>2, <2>4 DEF StaysTyped
  <2> QED
    BY <1>2, <2>3, <2>4 DEF Link
<1>3. CASE Unlink(d)
  BY <1>3 DEF Unlink, StaysTyped, DialogTyped, Sound, Fields, Configured, Asking, Ended
<1> QED
  BY <1>1, <1>2, <1>3

LEMMA EndIsTyped ==
  ASSUME NEW d \in Dialog, DialogInv, DialogTyped(dialogs[d]), MakeTemp(d) \/ Discard(d) \/ Kill(d)
  PROVE  StaysTyped(d)
<1>1. Sound(dialogs[d])
  BY DEF DialogInv
<1>2. ASSUME NEW next, Becomes(d, next), DialogTyped(next), MakeTemp(d) \/ Discard(d) \/ Kill(d)
      PROVE  StaysTyped(d)
  BY <1>2 DEF MakeTemp, Discard, Kill, StaysTyped
<1>3. CASE MakeTemp(d)
  <2>1. dialogs[d].at = "temp"
    BY <1>3 DEF MakeTemp
  <2>2. DialogTyped([dialogs[d] EXCEPT !.at = "write", !.temp = "partial"])
    BY <1>1, <2>1 DEF Sound, Fields, DialogTyped, Configured, Asking
  <2> QED
    BY <1>1, <1>2, <1>3, <2>2, FinishIsTyped DEF MakeTemp
<1>4. CASE Discard(d)
  <2> DEFINE done == Finish(dialogs[d], "not_created")
  <2>1. DOMAIN done = Fields /\ done.at = "not_created" /\ DialogTyped(done)
    BY <1>1, FinishIsTyped DEF Finish, Sound, Fields
  <2>2. DialogTyped([done EXCEPT !.temp = "none"]) /\ DialogTyped([done EXCEPT !.stuck = TRUE])
    <3> HIDE DEF done
    <3> QED
      BY <2>1 DEF Fields, DialogTyped, Configured
  <2> QED
    BY <1>2, <1>4, <2>2 DEF Discard
<1>5. CASE Kill(d)
  BY <1>1, <1>2, <1>5, FinishIsTyped DEF Kill
<1> QED
  BY <1>3, <1>4, <1>5

\* Nobody compiles while a dialog is asked.
LEMMA DialogsAreTyped ==
  ASSUME DialogInv, SeesInv, TypeInv, NEW d \in Dialog, Dialogs(d)
  PROVE  TypeInv'
<1>1. app = "ready" /\ app' = app /\ UNCHANGED planVars /\ command' = command
  BY DEF Dialogs
<1>2. StaysTyped(d)
  BY <1>1, QuestionsAreTyped, ParseIsTyped, PublicationIsTyped, EndIsTyped DEF Dialogs, DialogStep, TypeInv
<1>3. PICK next : Becomes(d, next) /\ DialogTyped(next) /\ (file' = file \/ file'.by = d)
  BY <1>2 DEF StaysTyped
<1>4. /\ registrations' = registrations /\ dialogs'[d] = next
      /\ \A e \in Dialog \ {d} : dialogs'[e] = dialogs[e]
  BY <1>3 DEF Becomes, DialogInv
<1>5. \A e \in Dialog : DialogTyped(dialogs[e])'
  BY <1>3, <1>4 DEF TypeInv, DialogTyped, Accepted
<1>6. PlanTyped' /\ StateTyped' /\ CommandTyped'
  BY <1>1, <1>3, <1>4 DEF TypeInv, PlanTyped, planVars, StateTyped, CommandTyped, Accepted
<1> QED
  BY <1>5, <1>6 DEF TypeInv

\* A registered recipe's declaration makes a call.
LEMMA CompiledCallIsTyped ==
  ASSUME SeesInv, StateTyped, app # "library", NEW c, Accepted(c), Compile(Recipe(c.recipe), c.answers),
         PlanTyped
  PROVE  PlanTyped' /\ pc = "idle" /\ pc' # "idle"
<1> DEFINE recipe == Recipe(c.recipe)
<1>1. PICK r \in ToSet(registrations) : recipe = r.recipe
  <2>1. RecipeAt(registrations, c.recipe) \in DOMAIN registrations
    BY RecipeAtIsOne DEF Accepted, SeesInv
  <2> QED
    BY <2>1 DEF Recipe, ToSet
<1>2. /\ ToSet(recipe.blueprints) \subseteq Nat /\ ToSet(recipe.gates) \subseteq Gate
      /\ ToSet(recipe.required) \subseteq Capability
      /\ \A rule \in ToSet(recipe.rules) : ToSet(rule.request) \subseteq Capability
  BY <1>1, DeclarationsAreTyped DEF StateTyped
<1>3. Resolved(recipe, c.answers) \subseteq Capability
  BY <1>2 DEF Resolved
<1>4. /\ pc = "idle" /\ pc' = "index" /\ pending' = pending
      /\ call' = [mode |-> "recipe", allowed |-> ToSet(recipe.blueprints), gates |-> ToSet(recipe.gates),
                  required |-> ToSet(recipe.required), requested |-> Resolved(recipe, c.answers)]
  BY DEF Compile
<1> HIDE DEF recipe
<1>5. call' \in Call
  BY <1>2, <1>3, <1>4 DEF Call
<1> QED
  BY <1>4, <1>5 DEF PlanTyped

LEMMA CommandsAreTyped ==
  ASSUME DialogInv, SeesInv, PlanInv, OrderInv, TypeInv,
         Preview \/ Run \/ StartRuntime \/ Preflight \/ Plan \/ Report \/ Generate
  PROVE  PlanTyped' /\ CommandTyped'
<1>1. registrations' = registrations /\ app' = app
  BY DEF Preview, Run, Begin, StartRuntime, Preflight, Plan, Report, Generate
<1>2. PlanTyped /\ StateTyped /\ CommandTyped /\ IsCatalog(catalog)
  BY DEF TypeInv, OrderInv
<1>3. \A c : Accepted(c)' = Accepted(c)
  BY <1>1 DEF Accepted
<1>4. NoCommand.at = "none" /\ NoCommand.configuration = Nothing
  BY DEF NoCommand
<1>5. ASSUME NEW c \in Loaded, app # "library" PROVE Accepted(c) /\ c \in Configurations
  <2>1. c \in Parsed(file.content, registrations, Seen)
    BY <1>5 DEF Loaded
  <2> QED
    BY <1>2, <1>5, <2>1, ParsedIsAccepted DEF Accepted
<1>6. UNCHANGED planVars => PlanTyped' /\ pc' = pc
  BY <1>2 DEF PlanTyped, planVars
<1>7. CASE Preview
  <2>1. app = "ready" /\ command = NoCommand
    BY <1>7 DEF Preview, Begin
  <2>2. CASE UNCHANGED <<planVars, command>>
    BY <1>1, <1>2, <1>6, <2>1, <2>2 DEF CommandTyped
  <2>3. ASSUME NEW c \in Loaded, Compile(Recipe(c.recipe), c.answers),
               command' = [name |-> "preview", at |-> "plan", configuration |-> c]
        PROVE  PlanTyped' /\ CommandTyped'
    <3>1. Accepted(c) /\ c \in Configurations
      BY <1>5, <2>1
    <3>2. PlanTyped' /\ pc' # "idle"
      BY <1>2, <2>1, <2>3, <3>1, CompiledCallIsTyped
    <3> QED
      BY <1>1, <1>3, <2>1, <2>3, <3>1, <3>2 DEF CommandTyped
  <2> QED
    BY <1>7, <2>2, <2>3 DEF Preview
<1>8. CASE Run
  <2>1. app = "ready" /\ command = NoCommand /\ UNCHANGED planVars /\ pc = "idle"
    BY <1>8 DEF Run, Begin, Quiet
  <2>2. CASE UNCHANGED command
    BY <1>1, <1>2, <1>6, <2>1, <2>2 DEF CommandTyped
  <2>3. ASSUME NEW c \in Loaded, command' = [name |-> "run", at |-> "runtime", configuration |-> c]
        PROVE  CommandTyped'
    <3>1. Accepted(c) /\ c \in Configurations
      BY <1>5, <2>1
    <3> QED
      BY <1>1, <1>3, <1>6, <2>1, <2>3, <3>1 DEF CommandTyped
  <2> QED
    BY <1>6, <1>8, <2>1, <2>2, <2>3 DEF Run
<1>9. ASSUME command.at \in {"runtime", "preflight", "plan"}
      PROVE  /\ app # "library" /\ Accepted(command.configuration)
             /\ command.configuration \in Configurations
             /\ command.name \in {"preview", "run"}
             /\ DOMAIN command = {"name", "at", "configuration"}
  BY <1>2, <1>4, <1>9 DEF CommandTyped
<1>10. ASSUME NEW at \in {"runtime", "preflight", "plan"}, command' = [command EXCEPT !.at = at],
              command.at \in {"runtime", "preflight", "plan"}, at = "plan" <=> pc' # "idle"
       PROVE  CommandTyped'
  <2>1. command' = [name |-> command.name, at |-> at, configuration |-> command.configuration]
    BY <1>9, <1>10
  <2> QED
    BY <1>1, <1>3, <1>9, <1>10, <2>1 DEF CommandTyped
<1>11. ASSUME command' = NoCommand, pc' = "idle" PROVE CommandTyped'
  BY <1>4, <1>11 DEF CommandTyped
<1>12. CASE StartRuntime
  <2>1. command.at = "runtime" /\ UNCHANGED planVars /\ pc = "idle"
    BY <1>12 DEF StartRuntime, Quiet
  <2> QED
    BY <1>6, <1>10, <1>11, <1>12, <2>1 DEF StartRuntime
<1>13. CASE Preflight
  <2>1. command.at = "preflight" /\ pc = "idle"
    BY <1>13 DEF Preflight, Quiet
  <2>2. CASE command' = NoCommand /\ UNCHANGED planVars
    BY <1>6, <1>11, <2>1, <2>2
  <2>3. CASE /\ command' = [command EXCEPT !.at = "plan"]
             /\ Compile(MyRecipe, command.configuration.answers)
    <3>1. PlanTyped' /\ pc' # "idle"
      BY <1>2, <1>9, <2>1, <2>3, CompiledCallIsTyped DEF MyRecipe
    <3> QED
      BY <1>10, <2>1, <2>3, <3>1
  <2> QED
    BY <1>13, <2>2, <2>3 DEF Preflight
<1>14. CASE Plan
  <2>1. PlanTyped' /\ pc # "idle" /\ pc' # "idle"
    BY <1>2, <1>14, PlanNextTyped DEF Plan
  <2>2. command' = command
    BY <1>14 DEF Plan
  <2> QED
    BY <1>1, <1>2, <1>3, <2>1, <2>2 DEF CommandTyped
<1>15. CASE Report \/ Generate
  <2>1. command' = NoCommand /\ pc' = "idle" /\ call' = NoCall /\ pending' = {}
    BY <1>15 DEF Report, Generate, Taken
  <2> QED
    BY <1>11, <2>1, EmptyCallIsCall DEF PlanTyped
<1> QED
  BY <1>7, <1>8, <1>12, <1>13, <1>14, <1>15

LEMMA TypesAreKept ==
  ASSUME DialogInv, SeesInv, PlanInv, OrderInv, TypeInv, [Next]_vars
  PROVE  TypeInv'
<1>1. /\ registrations' = registrations
      /\ app' = app \/ (app = "starting" /\ app' \in {"ready", "refused"})
  BY RegistrationsAreFrozen
<1>2. ASSUME NEW d \in Dialog, Dialogs(d) PROVE TypeInv'
  BY <1>2, DialogsAreTyped
<1>3. ASSUME UNCHANGED dialogs, file' = file \/ file' = Nothing \/ file'.by = "others"
      PROVE  StateTyped' /\ \A d \in Dialog : DialogTyped(dialogs[d])'
  BY <1>1, <1>3 DEF TypeInv, StateTyped, DialogTyped, Accepted
<1>4. CASE Preview \/ Run \/ StartRuntime \/ Preflight \/ Plan \/ Report \/ Generate
  <2>1. UNCHANGED <<dialogs, file>>
    BY <1>4 DEF Preview, Run, Begin, StartRuntime, Preflight, Plan, Report, Generate
  <2> QED
    BY <1>3, <1>4, <2>1, CommandsAreTyped DEF TypeInv
<1>5. CASE Start \/ Environment \/ UNCHANGED vars
  <2>1. UNCHANGED <<call, pc, pending, command, dialogs>>
    BY <1>5 DEF Start, Environment, vars, planVars
  <2>2. file' = file \/ file' = Nothing \/ file'.by = "others"
    BY <1>5 DEF Start, Environment, vars
  <2>3. PlanTyped' /\ CommandTyped'
    BY <1>1, <2>1 DEF TypeInv, PlanTyped, CommandTyped, Accepted
  <2> QED
    BY <1>3, <2>1, <2>2, <2>3 DEF TypeInv
<1> QED
  BY <1>2, <1>4, <1>5 DEF Next

LEMMA TypesStart == Init => TypeInv
<1> SUFFICES ASSUME Init PROVE TypeInv
  OBVIOUS
<1>1. \A d \in Dialog : DialogTyped(dialogs[d])
  BY DEF Init, NewDialog, DialogTyped, Configured, Asking, Ended
<1>2. command = NoCommand /\ NoCommand.at = "none"
  BY DEF Init, NoCommand
<1>3. CASE LibraryInit
  <2>1. app = "library" /\ file = Nothing /\ pc = "index" /\ pending = {} /\ call \in Calls
    BY <1>3 DEF LibraryInit, PlanInit
  <2> QED
    BY <1>1, <1>2, <2>1, CallsAreCalls DEF TypeInv, PlanTyped, StateTyped, CommandTyped
<1>4. CASE ApplicationInit
  <2>1. PICK s \in Situations : app = "starting" /\ registrations = s.registrations /\ file = s.file
    BY <1>4 DEF ApplicationInit
  <2>2. pc = "idle" /\ pending = {} /\ call = NoCall
    BY <1>4 DEF ApplicationInit, PlanIdle
  <2> QED
    BY <1>1, <1>2, <2>1, <2>2, NothingIsPublished, EmptyCallIsCall
       DEF TypeInv, PlanTyped, StateTyped, CommandTyped
<1> QED
  BY <1>3, <1>4 DEF Init

\* For any catalogs, registrations, contents, dialogs and budgets.
THEOREM CommandsStayTyped == Spec => []TypeOK
<1> DEFINE I == DialogInv /\ SeesInv /\ TypeInv
<1>1. Init => I
  BY DialogsStart, PublishedStarts, TypesStart
<1>2. I /\ PlanInv /\ OrderInv /\ [Next]_vars => I'
  <2>1. DialogInv /\ [Next]_vars => DialogInv'
    BY AdvancingPreserves, OthersPreserve DEF Next
  <2> QED
    BY <2>1, SeeingIsKept, TypesAreKept
<1>3. I /\ PlanInv /\ OrderInv => TypeOK
  <2> SUFFICES ASSUME I, PlanInv, OrderInv PROVE TypeOK
    OBVIOUS
  <2>1. PlanTypeOK
    BY PlanTypes DEF TypeInv
  <2>2. \A d \in Dialog : DialogTyped(dialogs[d]) /\ Sound(dialogs[d])
    BY DEF TypeInv, DialogInv
  <2>3. DialogTypeOK
    BY <2>2 DEF DialogTypeOK, DialogTyped, Sound, Configured, Asking, Ended
  <2>4. CommandTyped /\ StateTyped
    BY DEF TypeInv
  <2>5. command.name \in {"none", "preview", "run"} /\ command.at \in {"none", "runtime", "preflight", "plan"}
    BY <2>4 DEF CommandTyped, NoCommand
  <2>6. command.at = "none" <=> command.configuration = Nothing
    BY <2>4, NothingIsNoConfiguration DEF CommandTyped, NoCommand
  <2>7. command.configuration \in Configurations \cup {Nothing}
    BY <2>4 DEF CommandTyped, NoCommand
  <2>8. \A d \in Dialog : dialogs[d].configuration \in Configurations \cup {Nothing}
    BY <2>2 DEF DialogTyped, Accepted
  <2> QED
    BY <2>1, <2>3, <2>4, <2>5, <2>6, <2>7, <2>8 DEF TypeOK, StateTyped, CommandTyped
<1> QED
  BY <1>1, <1>2, <1>3, CommandsKeepThePlan, PTL DEF Spec

----------------------------------------------------------------------------
(***************************************************************************)
(* What is accepted is served.  A recipe that fits a catalog lists each of *)
(* its blueprints after those it needs, and they have nothing in common:   *)
(* whatever the answers are, its request is Feasible for the compiler.     *)
(* That the three bundled recipes fit is read off the tables.              *)
(***************************************************************************)

Rated(recipe, k) ==
  \A i \in DOMAIN recipe.blueprints :
    LET me == k[recipe.blueprints[i]]
        earlier == {recipe.blueprints[j] : j \in 1 .. i - 1}
    IN
    /\ me.after \subseteq earlier
    /\ \A c \in me.requires : \E p \in earlier : c \in k[p].provides
    /\ me.validations \subseteq ToSet(recipe.gates) /\ me.conflicts = {}

Apart(recipe, k) ==
  \A i, j \in DOMAIN recipe.blueprints :
    LET a == k[recipe.blueprints[i]]
        b == k[recipe.blueprints[j]]
    IN i # j => a.provides \cap b.provides = {} /\ a.files \cap b.files = {}

Answered(recipe, k) ==
  /\ ToSet(recipe.required) # {}
  /\ \A c \in ToSet(recipe.required) \cup UNION {ToSet(rule.request) : rule \in ToSet(recipe.rules)} :
       \E b \in ToSet(recipe.blueprints) : c \in k[b].provides

\* Each blueprint after what it needs in the recipe's own list.
Fits(recipe, k) ==
  /\ ToSet(recipe.blueprints) \subseteq DOMAIN k
  /\ IsInjective(recipe.blueprints)
  /\ Rated(recipe, k) /\ Apart(recipe, k) /\ Answered(recipe, k)

CallOf(recipe, answers) ==
  [mode |-> "recipe", allowed |-> ToSet(recipe.blueprints), gates |-> ToSet(recipe.gates),
   required |-> ToSet(recipe.required), requested |-> Resolved(recipe, answers)]

LEMMA FittingIsFeasible ==
  ASSUME NEW recipe, NEW answers, recipe.blueprints \in Seq(Nat),
         Fits(recipe, catalog), call = CallOf(recipe, answers)
  PROVE  Feasible
<1> DEFINE bs == recipe.blueprints
<1>1. /\ call.mode = "recipe" /\ call.allowed = ToSet(bs) /\ call.gates = ToSet(recipe.gates)
      /\ Request = ToSet(recipe.required) \cup Resolved(recipe, answers)
  BY DEF CallOf, Request
<1>2. Scope = ToSet(bs) /\ ScopeAvailable
  BY <1>1 DEF Fits, Scope, ScopeAvailable
<1>3. \A b \in Scope : \E i \in DOMAIN bs : b = bs[i]
  BY <1>2 DEF ToSet
<1>4. UniqueProviders /\ ~Clashing(Scope)
  BY <1>3 DEF Fits, Apart, UniqueProviders, Clashing, Of
<1>5. ~Conflicting(Scope)
  BY <1>3 DEF Fits, Rated, Conflicting, Of
\* Everything that is needed comes earlier in the recipe's list.
<1>6. ASSUME NEW i \in DOMAIN bs
      PROVE  /\ {bs[j] : j \in 1 .. i - 1} \subseteq Scope
             /\ Of(bs[i]).after \subseteq {bs[j] : j \in 1 .. i - 1}
             /\ \A c \in Of(bs[i]).requires : \E p \in {bs[j] : j \in 1 .. i - 1} : p \in Providers(c)
             /\ Of(bs[i]).validations \subseteq call.gates
  <2>1. {bs[j] : j \in 1 .. i - 1} \subseteq Scope
    BY <1>2 DEF ToSet
  <2> QED
    BY <1>1, <2>1 DEF Fits, Rated, Of, Providers
<1>7. GraphValid
  <2>1. \A b \in Scope : \A c \in Of(b).requires : Providers(c) # {}
    BY <1>3, <1>6
  <2>2. \A b \in Scope : Of(b).after \subseteq Scope /\ Of(b).validations \subseteq call.gates
    BY <1>3, <1>6
  <2> QED
    BY <1>1, <2>1, <2>2 DEF GraphValid
<1>8. Request # {} /\ \A c \in Request : Providers(c) # {}
  <2>1. ToSet(recipe.required) # {}
    BY DEF Fits, Answered
  <2>2. Resolved(recipe, answers) \subseteq
          ToSet(recipe.required) \cup UNION {ToSet(rule.request) : rule \in ToSet(recipe.rules)}
    BY DEF Resolved
  <2> QED
    BY <1>1, <1>2, <2>1, <2>2 DEF Fits, Answered, Providers, Of
<1>9. \E rank \in [Scope -> Nat] : \A b \in Scope : \A p \in Before(Scope, b) : rank[p] < rank[b]
  <2> DEFINE rank == [b \in Scope |-> CHOOSE i \in DOMAIN bs : b = bs[i]]
  <2>1. \A b \in Scope : rank[b] \in DOMAIN bs /\ b = bs[rank[b]] /\ rank[b] \in Nat
    BY <1>3
  <2>2. rank \in [Scope -> Nat]
    BY <2>1
  <2> HIDE DEF rank
  <2>3. ASSUME NEW i \in DOMAIN bs PROVE rank[bs[i]] = i
    <3>1. bs[i] \in Scope
      BY <1>2 DEF ToSet
    <3> QED
      BY <2>1, <3>1 DEF Fits, IsInjective
  <2>4. ASSUME NEW b \in Scope, NEW p \in Before(Scope, b) PROVE rank[p] < rank[b]
    <3>1. p \in {bs[j] : j \in 1 .. rank[b] - 1}
      <4>1. CASE p \in Of(b).after
        BY <1>6, <2>1, <4>1
      <4>2. ASSUME NEW c \in Of(b).requires, p \in Providers(c)
            PROVE  p \in {bs[j] : j \in 1 .. rank[b] - 1}
        <5>1. PICK q \in {bs[j] : j \in 1 .. rank[b] - 1} : q \in Providers(c)
          BY <1>6, <2>1
        <5>2. p = q
          BY <1>4, <4>2, <5>1 DEF UniqueProviders, Providers
        <5> QED
          BY <5>1, <5>2
      <4> QED
        BY <4>1, <4>2 DEF Before
    <3>2. PICK j \in 1 .. rank[b] - 1 : p = bs[j]
      BY <3>1
    <3>3. j \in DOMAIN bs /\ rank[b] \in DOMAIN bs
      BY <2>1
    <3> QED
      BY <2>3, <3>2, <3>3
  <2> QED
    BY <2>2, <2>4
<1> QED
  BY <1>2, <1>4, <1>5, <1>7, <1>8, <1>9 DEF Feasible

LEMMA EntryFields ==
  ASSUME NEW provides, NEW requires, NEW after, NEW gates, NEW files,
         NEW e, e = Entry(provides, requires, after, gates, files)
  PROVE  /\ e.provides = {provides} /\ e.requires = requires /\ e.after = after
         /\ e.conflicts = {} /\ e.validations = ToSet(gates) /\ e.files = files
BY DEF Entry

LEMMA GoFits ==
  ASSUME NEW k, ShippedWith(k)
  PROVE  Fits(GoRecipe, k)
<1>1. DOMAIN BundledCatalog = 1 .. 13
  BY DEF BundledCatalog
<1>2. k[8] = Entry("go-cli-project", {"go-project-quality"}, {}, GoGates, {"README.md"})
      /\ k[9] = Entry("go-project-quality", {}, {}, <<>>, Ignores \cup {"quality.yml"})
  <2>1. k[8] = BundledCatalog[8] /\ k[9] = BundledCatalog[9]
    BY <1>1 DEF ShippedWith
  <2> QED
    BY <2>1 DEF BundledCatalog
<1>3. /\ k[8].provides = {"go-cli-project"} /\ k[8].requires = {"go-project-quality"} /\ k[8].after = {}
      /\ k[8].conflicts = {} /\ k[8].validations = ToSet(GoGates) /\ k[8].files = {"README.md"}
  BY <1>2, EntryFields
<1>4. /\ k[9].provides = {"go-project-quality"} /\ k[9].requires = {} /\ k[9].after = {}
      /\ k[9].conflicts = {} /\ k[9].validations = {} /\ k[9].files = Ignores \cup {"quality.yml"}
  <2>1. ToSet(<<>>) = {}
    BY DEF ToSet
  <2> QED
    BY <1>2, <2>1, EntryFields
<1>5. /\ GoRecipe.blueprints = <<9, 8>> /\ GoRecipe.gates = GoGates /\ GoRecipe.required = <<"go-cli-project">>
      /\ GoRecipe.rules = <<>>
  BY DEF GoRecipe
<1>6. ToSet(GoRecipe.blueprints) = {8, 9}
  BY <1>5 DEF ToSet
<1>7. Rated(GoRecipe, k)
  BY <1>3, <1>4, <1>5 DEF Rated
<1>8. Apart(GoRecipe, k)
  BY <1>3, <1>4, <1>5 DEF Apart, Ignores
<1>9. Answered(GoRecipe, k)
  BY <1>3, <1>4, <1>5, <1>6 DEF Answered, ToSet
<1> QED
  BY <1>1, <1>5, <1>6, <1>7, <1>8, <1>9 DEF Fits, ShippedWith, IsInjective

LEMMA Concatenated ==
  ASSUME NEW S, NEW s \in Seq(S), NEW t \in Seq(S)
  PROVE  s \o t \in Seq(S) /\ ToSet(s \o t) = ToSet(s) \cup ToSet(t)
<1>1. s \o t \in Seq(S) /\ Len(s \o t) = Len(s) + Len(t)
  OBVIOUS
<1>2. \A i \in DOMAIN s : i \in DOMAIN (s \o t) /\ (s \o t)[i] = s[i]
  OBVIOUS
<1>3. \A i \in DOMAIN t : i + Len(s) \in DOMAIN (s \o t) /\ (s \o t)[i + Len(s)] = t[i]
  OBVIOUS
<1>4. ASSUME NEW i \in DOMAIN (s \o t) PROVE (s \o t)[i] \in ToSet(s) \cup ToSet(t)
  <2>1. CASE i <= Len(s)
    BY <2>1 DEF ToSet
  <2>2. CASE i > Len(s)
    <3>1. i - Len(s) \in DOMAIN t /\ (s \o t)[i] = t[i - Len(s)]
      BY <1>1, <2>2
    <3> QED
      BY <3>1 DEF ToSet
  <2> QED
    BY <1>1, <2>1, <2>2
<1>5. ToSet(s \o t) \subseteq ToSet(s) \cup ToSet(t)
  BY <1>4 DEF ToSet
<1> DEFINE st == s \o t
<1>6. ToSet(s) \subseteq ToSet(st)
  <2>1. \A i \in DOMAIN s : i \in DOMAIN st /\ st[i] = s[i]
    BY <1>2
  <2> HIDE DEF st
  <2> QED
    BY <2>1 DEF ToSet
<1>7. ToSet(t) \subseteq ToSet(st)
  <2>1. \A i \in DOMAIN t : i + Len(s) \in DOMAIN st /\ st[i + Len(s)] = t[i]
    BY <1>3
  <2> HIDE DEF st
  <2> QED
    BY <2>1 DEF ToSet
<1> QED
  BY <1>1, <1>5, <1>6, <1>7

LEMMA PythonGatesAre ==
  \A gates \in {QualityGates, <<"python-syntax">>, RuntimeGates, DatabaseGates, ImageGates, ComposeGates, <<>>} :
    ToSet(gates) \subseteq ToSet(PythonGates)
<1> DEFINE G == {"ruff-format", "ruff-lint", "mypy", "pytest", "python-syntax",
                 "application-start", "health-live", "health-ready", "openapi",
                 "postgres-connect", "alembic-upgrade", "database-readiness", "session-rollback",
                 "docker-build", "container-non-root", "container-health",
                 "compose-config", "compose-up", "compose-health", "compose-cleanup"}
<1>1. QualityGates \in Seq(G) /\ RuntimeGates \in Seq(G) /\ DatabaseGates \in Seq(G)
      /\ ImageGates \in Seq(G) /\ ComposeGates \in Seq(G) /\ <<"python-syntax">> \in Seq(G)
  BY DEF QualityGates, RuntimeGates, DatabaseGates, ImageGates, ComposeGates
<1>2. ToSet(<<>>) = {}
  BY DEF ToSet
<1> HIDE DEF G
<1>3. ToSet(PythonGates) = ToSet(QualityGates) \cup ToSet(<<"python-syntax">>) \cup ToSet(RuntimeGates)
                           \cup ToSet(DatabaseGates) \cup ToSet(ImageGates) \cup ToSet(ComposeGates)
  <2> DEFINE a == QualityGates \o <<"python-syntax">>
             b == a \o RuntimeGates
             c == b \o DatabaseGates
             d == c \o ImageGates
  <2>1. a \in Seq(G) /\ ToSet(a) = ToSet(QualityGates) \cup ToSet(<<"python-syntax">>)
    BY <1>1, Concatenated
  <2>2. b \in Seq(G) /\ ToSet(b) = ToSet(a) \cup ToSet(RuntimeGates)
    <3> HIDE DEF a
    <3> QED BY <1>1, <2>1, Concatenated
  <2>3. c \in Seq(G) /\ ToSet(c) = ToSet(b) \cup ToSet(DatabaseGates)
    <3> HIDE DEF b
    <3> QED BY <1>1, <2>2, Concatenated
  <2>4. d \in Seq(G) /\ ToSet(d) = ToSet(c) \cup ToSet(ImageGates)
    <3> HIDE DEF c
    <3> QED BY <1>1, <2>3, Concatenated
  <2>5. ToSet(d \o ComposeGates) = ToSet(d) \cup ToSet(ComposeGates)
    <3> HIDE DEF d
    <3> QED BY <1>1, <2>4, Concatenated
  <2>6. PythonGates = d \o ComposeGates
    BY DEF PythonGates
  <2> HIDE DEF a, b, c, d
  <2> QED
    BY <2>1, <2>2, <2>3, <2>4, <2>5, <2>6
<1> QED
  BY <1>2, <1>3

LEMMA CmakeFits ==
  ASSUME NEW k, ShippedWith(k)
  PROVE  Fits(CmakeRecipe, k)
<1>1. DOMAIN BundledCatalog = 1 .. 13
  BY DEF BundledCatalog
<1>2. /\ k[1] = Entry("c-project-quality", {}, {}, <<>>, Ignores \cup {"quality.yml"})
      /\ k[2] = Entry("c-runtime", {"c-project-quality"}, {}, <<>>, {})
      /\ k[3] = Entry("cmake-project", {"c-runtime"}, {}, CMakeGates, {"README.md"})
      /\ k[4] = Entry("cmake-strict-warnings", {"cmake-project"}, {3}, <<>>, {})
  <2>1. \A b \in 1 .. 4 : k[b] = BundledCatalog[b]
    BY <1>1 DEF ShippedWith
  <2> QED
    BY <2>1 DEF BundledCatalog
<1>3. ToSet(<<>>) = {}
  BY DEF ToSet
<1>4. /\ k[1].provides = {"c-project-quality"} /\ k[1].requires = {} /\ k[1].after = {}
      /\ k[2].provides = {"c-runtime"} /\ k[2].requires = {"c-project-quality"} /\ k[2].after = {}
      /\ k[3].provides = {"cmake-project"} /\ k[3].requires = {"c-runtime"} /\ k[3].after = {}
      /\ k[4].provides = {"cmake-strict-warnings"} /\ k[4].requires = {"cmake-project"} /\ k[4].after = {3}
  BY <1>2, EntryFields
<1>5. /\ k[1].files = Ignores \cup {"quality.yml"} /\ k[2].files = {} /\ k[3].files = {"README.md"} /\ k[4].files = {}
      /\ \A b \in 1 .. 4 : k[b].conflicts = {}
      /\ k[1].validations = {} /\ k[2].validations = {} /\ k[3].validations = ToSet(CMakeGates) /\ k[4].validations = {}
  BY <1>2, <1>3, EntryFields
<1>6. /\ CmakeRecipe.blueprints = <<1, 2, 3, 4>> /\ CmakeRecipe.gates = CMakeGates
      /\ CmakeRecipe.required = <<"cmake-project">>
      /\ CmakeRecipe.rules = << Rule([strict_warnings |-> "true"], "cmake-strict-warnings") >>
  BY DEF CmakeRecipe
<1>7. ToSet(CmakeRecipe.blueprints) = 1 .. 4
  BY <1>6 DEF ToSet
<1>8. Rated(CmakeRecipe, k)
  BY <1>4, <1>5, <1>6 DEF Rated
<1>9. Apart(CmakeRecipe, k)
  BY <1>4, <1>5, <1>6 DEF Apart, Ignores
<1>10. Answered(CmakeRecipe, k)
  BY <1>4, <1>6, <1>7 DEF Answered, ToSet, Rule
<1> QED
  BY <1>1, <1>6, <1>7, <1>8, <1>9, <1>10 DEF Fits, ShippedWith, IsInjective

LEMMA FastapiFits ==
  ASSUME NEW k, ShippedWith(k)
  PROVE  Fits(FastapiRecipe, k)
<1> DEFINE B == {5, 6, 7, 10, 11, 12, 13}
<1>1. DOMAIN BundledCatalog = 1 .. 13
  BY DEF BundledCatalog
<1>2. /\ k[5] = Entry("docker-delivery", {"fastapi-http-api"}, {11}, ImageGates, {})
      /\ k[6] = Entry("fastapi-http-api", {"python-runtime"}, {}, RuntimeGates, {})
      /\ k[7] = Entry("final-project-assembly", {"fastapi-http-api"}, {5, 10, 11}, <<>>, {})
      /\ k[10] = Entry("postgres-docker-integration", {"docker-delivery", "postgres-persistence"}, {},
                       ComposeGates, {})
      /\ k[11] = Entry("postgres-persistence", {"fastapi-http-api"}, {}, DatabaseGates, {})
      /\ k[12] = Entry("project-quality", {}, {}, QualityGates, Ignores)
      /\ k[13] = Entry("python-runtime", {"project-quality"}, {}, <<"python-syntax">>, {})
  <2>1. \A b \in B : k[b] = BundledCatalog[b]
    BY <1>1 DEF ShippedWith
  <2> QED
    BY <2>1 DEF BundledCatalog
<1>3. /\ k[12].provides = {"project-quality"} /\ k[12].requires = {} /\ k[12].after = {}
      /\ k[13].provides = {"python-runtime"} /\ k[13].requires = {"project-quality"} /\ k[13].after = {}
      /\ k[6].provides = {"fastapi-http-api"} /\ k[6].requires = {"python-runtime"} /\ k[6].after = {}
      /\ k[11].provides = {"postgres-persistence"} /\ k[11].requires = {"fastapi-http-api"} /\ k[11].after = {}
      /\ k[5].provides = {"docker-delivery"} /\ k[5].requires = {"fastapi-http-api"} /\ k[5].after = {11}
      /\ k[10].provides = {"postgres-docker-integration"} /\ k[10].after = {}
      /\ k[10].requires = {"docker-delivery", "postgres-persistence"}
      /\ k[7].provides = {"final-project-assembly"} /\ k[7].requires = {"fastapi-http-api"}
      /\ k[7].after = {5, 10, 11}
  BY <1>2, EntryFields
<1>4. /\ \A b \in B : k[b].conflicts = {} /\ (b # 12 => k[b].files = {})
      /\ \A b \in B : k[b].validations \subseteq ToSet(PythonGates)
  BY <1>2, EntryFields, PythonGatesAre
<1>5. /\ FastapiRecipe.blueprints = <<12, 13, 6, 11, 5, 10, 7>> /\ FastapiRecipe.gates = PythonGates
      /\ FastapiRecipe.required = <<"final-project-assembly">>
      /\ FastapiRecipe.rules =
           << Rule([database |-> "postgres"], "postgres-persistence"),
              Rule([delivery |-> "docker"], "docker-delivery"),
              Rule([database |-> "postgres", delivery |-> "docker"], "postgres-docker-integration") >>
  BY DEF FastapiRecipe
<1>6. ToSet(FastapiRecipe.blueprints) = B
  BY <1>5 DEF ToSet
<1>7. Rated(FastapiRecipe, k)
  BY <1>3, <1>4, <1>5 DEF Rated
<1>8. Apart(FastapiRecipe, k)
  BY <1>3, <1>4, <1>5 DEF Apart
<1>9. Answered(FastapiRecipe, k)
  BY <1>3, <1>5, <1>6 DEF Answered, ToSet, Rule
<1> QED
  BY <1>1, <1>5, <1>6, <1>7, <1>8, <1>9 DEF Fits, ShippedWith, IsInjective

LEMMA BundledFit ==
  ASSUME NEW k, ShippedWith(k), NEW id, RecipeAt(BundledRegistrations, id) # 0
  PROVE  LET recipe == BundledRegistrations[RecipeAt(BundledRegistrations, id)].recipe IN
         Fits(recipe, k) /\ recipe.blueprints \in Seq(Nat)
<1> DEFINE i == RecipeAt(BundledRegistrations, id)
           R == {FastapiRegistration, CmakeRegistration, GoRegistration}
<1>1. BundledRegistrations \in Seq(R)
  BY DEF BundledRegistrations
<1>2. i \in DOMAIN BundledRegistrations
  BY <1>1, RecipeAtIsOne
<1>3. BundledRegistrations[i] \in R
  BY <1>1, <1>2
<1>4. BundledRegistrations[i].recipe \in {FastapiRecipe, CmakeRecipe, GoRecipe}
  BY <1>3 DEF FastapiRegistration, CmakeRegistration, GoRegistration, Registration
<1>5. \A recipe \in {FastapiRecipe, CmakeRecipe, GoRecipe} : Fits(recipe, k)
  BY FastapiFits, CmakeFits, GoFits
<1>6. \A recipe \in {FastapiRecipe, CmakeRecipe, GoRecipe} : recipe.blueprints \in Seq(Nat)
  <2>1. <<12, 13, 6, 11, 5, 10, 7>> \in Seq(Nat) /\ <<1, 2, 3, 4>> \in Seq(Nat) /\ <<9, 8>> \in Seq(Nat)
    OBVIOUS
  <2>2. /\ FastapiRecipe.blueprints = <<12, 13, 6, 11, 5, 10, 7>>
        /\ CmakeRecipe.blueprints = <<1, 2, 3, 4>> /\ GoRecipe.blueprints = <<9, 8>>
    BY DEF FastapiRecipe, CmakeRecipe, GoRecipe
  <2> QED
    BY <2>1, <2>2
<1> QED
  BY <1>4, <1>5, <1>6

\* What is compiled is what the command is about.
CallInv ==
  /\ command # NoCommand => app = "ready"
  /\ command.at = "plan" => call = CallOf(MyRecipe, command.configuration.answers)

\* Nothing hinders the plan of a bundled recipe.
ServedInv ==
  command.at = "plan" /\ registrations = BundledRegistrations /\ ShippedWith(catalog) => Unhindered


\* A plan is asked for with CallOf, and Plan alone goes on with it.
LEMMA CallsAreKept ==
  ASSUME TypeInv, CallInv, [Next]_vars
  PROVE  CallInv'
<1>1. registrations' = registrations /\ (app = "ready" => app' = app)
  BY RegistrationsAreFrozen
<1>2. NoCommand.at = "none"
  BY DEF NoCommand
<1>3. CASE Preview
  <2>1. app = "ready" /\ command = NoCommand
    BY <1>3 DEF Preview, Begin
  <2>2. CASE UNCHANGED <<planVars, command>>
    BY <1>1, <1>2, <2>1, <2>2 DEF CallInv
  <2>3. ASSUME NEW c, Compile(Recipe(c.recipe), c.answers),
               command' = [name |-> "preview", at |-> "plan", configuration |-> c]
        PROVE  CallInv'
    <3>1. call' = CallOf(Recipe(c.recipe), c.answers)
      BY <2>3 DEF Compile, CallOf
    <3>2. MyRecipe' = Recipe(c.recipe) /\ command'.configuration.answers = c.answers
      BY <1>1, <2>3 DEF MyRecipe, Recipe
    <3> QED
      BY <1>1, <2>1, <3>1, <3>2 DEF CallInv
  <2> QED
    BY <1>3, <2>2, <2>3 DEF Preview
<1>4. CASE Run \/ StartRuntime \/ Report \/ Generate
  <2>1. CASE Run
    BY <1>1, <1>2, <2>1 DEF Run, Begin, CallInv
  <2>2. CASE StartRuntime /\ command' # NoCommand
    <3>1. command.at = "runtime" /\ command' = [command EXCEPT !.at = "preflight"]
      BY <2>2 DEF StartRuntime
    <3>2. app = "ready" /\ command'.at = "preflight"
      BY <1>2, <3>1 DEF CallInv, TypeInv, CommandTyped
    <3> QED
      BY <1>1, <3>2 DEF CallInv
  <2>3. CASE command' = NoCommand
    BY <1>2, <2>3 DEF CallInv
  <2> QED
    BY <1>4, <2>1, <2>2, <2>3 DEF Report, Generate
<1>5. CASE Preflight
  <2>1. command.at = "preflight" /\ app = "ready"
    BY <1>2, <1>5 DEF Preflight, CallInv
  <2>2. CASE command' = NoCommand
    BY <1>2, <2>2 DEF CallInv
  <2>3. CASE command' = [command EXCEPT !.at = "plan"] /\ Compile(MyRecipe, command.configuration.answers)
    <3>1. call' = CallOf(MyRecipe, command.configuration.answers)
      BY <2>3 DEF Compile, CallOf
    <3>2. MyRecipe' = MyRecipe /\ command'.configuration = command.configuration
      BY <1>1, <2>3 DEF MyRecipe, Recipe
    <3> QED
      BY <1>1, <2>1, <3>1, <3>2 DEF CallInv
  <2> QED
    BY <1>5, <2>2, <2>3 DEF Preflight
<1>6. CASE Plan
  <2>1. command' = command /\ call' = call
    BY <1>6 DEF Plan, PlanNext, Index, ValidateGraph, Select, CheckSelection, Place, FinishOrder, Pass
  <2> QED
    BY <1>1, <2>1 DEF CallInv, MyRecipe, Recipe
<1>7. CASE Start \/ Environment \/ UNCHANGED vars \/ \E d \in Dialog : Dialogs(d)
  <2>1. command' = command /\ call' = call
    BY <1>7 DEF Start, Environment, Dialogs, vars, planVars
  <2> QED
    BY <1>1, <2>1 DEF CallInv, MyRecipe, Recipe
<1> QED
  BY <1>3, <1>4, <1>5, <1>6, <1>7 DEF Next

LEMMA ServingIsKept ==
  ASSUME PlanInv, TypeInv, CallInv, ServedInv, [Next]_vars
  PROVE  ServedInv'
<1> SUFFICES ASSUME command'.at = "plan", registrations' = BundledRegistrations, ShippedWith(catalog')
             PROVE  Unhindered'
  BY DEF ServedInv, ShippedWith
<1>1. registrations = BundledRegistrations
  BY RegistrationsAreFrozen
<1>2. NoCommand.at = "none"
  BY DEF NoCommand
<1>3. ASSUME NEW recipe, NEW answers, Compile(recipe, answers) PROVE Unhindered'
  BY <1>3 DEF Compile, Unhindered
<1>4. CASE Plan
  <2>1. command' = command /\ catalog' = catalog
    BY <1>4 DEF Plan, PlanNext, Index, ValidateGraph, Select, CheckSelection, Place, FinishOrder, Pass
  <2>2. RecipeAt(registrations, command.configuration.recipe) # 0
    BY <1>2, <2>1 DEF TypeInv, CommandTyped, Accepted
  <2>3. Fits(MyRecipe, catalog) /\ MyRecipe.blueprints \in Seq(Nat)
    BY <1>1, <2>1, <2>2, BundledFit DEF MyRecipe, Recipe
  <2>4. Feasible
    BY <2>1, <2>3, FittingIsFeasible DEF CallInv
  <2> QED
    BY <1>1, <1>4, <2>1, <2>4, FeasibleIsUnhindered DEF Plan, ServedInv
<1>5. CASE Preview
  BY <1>2, <1>3, <1>5 DEF Preview, Begin
<1>6. CASE Preflight
  BY <1>2, <1>3, <1>6 DEF Preflight
<1>7. CASE Run \/ StartRuntime \/ Report \/ Generate
  <2>1. command'.at # "plan" \/ (command' = command /\ command = NoCommand)
    BY <1>2, <1>7 DEF Run, Begin, StartRuntime, Report, Generate, TypeInv, CommandTyped
  <2> QED
    BY <1>2, <2>1
<1>8. CASE Start \/ Environment \/ UNCHANGED vars \/ \E d \in Dialog : Dialogs(d)
  <2>1. UNCHANGED <<command, catalog, pc, pending, call>>
    BY <1>8 DEF Start, Environment, Dialogs, vars, planVars
  <2>2. Unhindered
    BY <1>1, <2>1 DEF ServedInv
  <2> QED
    BY <2>1, <2>2, ScopeStays DEF Unhindered
<1> QED
  BY <1>4, <1>5, <1>6, <1>7, <1>8 DEF Next

\* A plan that is finished can be assembled and validated.  This is true of all
\* registrations that compile, with any catalog.
LEMMA PlansCanBeUsed ==
  ASSUME PlanInv, OrderInv, TypeInv, CallInv, RegistrationInv, command.at = "plan", pc = "planned"
  PROVE  /\ AdaptersTakeIt
         /\ Resolved(MyRecipe, command.configuration.answers) \subseteq
              UNION {Of(b).provides : b \in ToSet(order)}
<1> DEFINE i == RecipeAt(registrations, command.configuration.recipe)
           regs == registrations
<1>1. command # NoCommand /\ app = "ready"
  BY DEF NoCommand, CallInv
<1>2. regs \in Seq(ToSet(regs)) /\ Compiles(regs)
  BY <1>1 DEF RegistrationInv
<1>3. i # 0
  BY <1>1 DEF TypeInv, CommandTyped, Accepted
<1>4. i \in DOMAIN regs /\ MyRecipe = regs[i].recipe
  BY <1>2, <1>3, RecipeAtIsOne DEF MyRecipe, Recipe
<1>5. Served(regs, i) /\ Bound(regs[i])
  <2>1. Serviceable(regs)
    BY <1>2, RegistrationsCompileIffServiceable
  <2> QED
    BY <1>2, <1>4, <2>1 DEF Serviceable, Compiles
<1>6. /\ Found(regs, "assembly", MyRecipe.assembly) = i
      /\ Found(regs, "validation", MyRecipe.validation) = i
      /\ ToSet(MyRecipe.gates) \subseteq ToSet(regs[i].reports)
  BY <1>4, <1>5 DEF Served, Bound
<1>7. ToSet(order) \subseteq Scope /\ Scope \subseteq DOMAIN catalog
  BY DEF PlanInv, ToSet, Scope
<1>8. /\ call.mode = "recipe" /\ call.gates = ToSet(MyRecipe.gates)
      /\ Request = ToSet(MyRecipe.required) \cup Resolved(MyRecipe, command.configuration.answers)
  BY DEF CallInv, CallOf, Request
<1>9. RequiredGates \subseteq ToSet(MyRecipe.gates)
  <2>1. \A b \in Scope : Of(b).validations \subseteq call.gates
    BY <1>8 DEF OrderInv, Working, GraphValid
  <2> QED
    BY <1>7, <1>8, <2>1 DEF RequiredGates
<1>10. AdaptersTakeIt
  BY <1>3, <1>6, <1>7, <1>9 DEF AdaptersTakeIt
<1>11. Closed(ToSet(order))
  BY PlanInvSuffices DEF PlanIsNecessaryAndSufficient, LeastClosed
<1> QED
  BY <1>8, <1>10, <1>11 DEF Closed, Providers

\* For every catalog that has the bundled blueprints, whatever else it has, and
\* all answers: no configuration of a bundled recipe that was accepted fails for
\* want of a blueprint, a rule, an order or a gate.
THEOREM AcceptedIsServed == Spec => []ConfigurationIsServed
<1> DEFINE I == DialogInv /\ SeesInv /\ TypeInv /\ RegistrationInv /\ CallInv /\ ServedInv
<1>1. Init => I
  <2> SUFFICES ASSUME Init PROVE I
    OBVIOUS
  <2>1. command = NoCommand /\ NoCommand.at = "none"
    BY DEF Init, NoCommand
  <2>2. RegistrationInv
    BY RegistrationsAreSequences DEF Init, LibraryInit, ApplicationInit, RegistrationInv
  <2> QED
    BY <2>1, <2>2, DialogsStart, PublishedStarts, TypesStart DEF CallInv, ServedInv
<1>2. I /\ PlanInv /\ OrderInv /\ [Next]_vars => I'
  <2>1. DialogInv /\ [Next]_vars => DialogInv'
    BY AdvancingPreserves, OthersPreserve DEF Next
  <2>2. RegistrationInv /\ [Next]_vars => RegistrationInv'
    BY RegistrationsAreFrozen DEF RegistrationInv
  <2> QED
    BY <2>1, <2>2, SeeingIsKept, TypesAreKept, CallsAreKept, ServingIsKept
<1>3. I /\ PlanInv /\ OrderInv => ConfigurationIsServed
  BY PlansCanBeUsed DEF ConfigurationIsServed, ServedInv, Unhindered
<1> QED
  BY <1>1, <1>2, <1>3, CommandsKeepThePlan, PTL DEF Spec
=============================================================================

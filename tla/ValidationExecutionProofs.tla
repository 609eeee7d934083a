---------------------- MODULE ValidationExecutionProofs ----------------------
(***************************************************************************)
(* Proofs about the validation of one candidate, the docker gates          *)
(* included.                                                               *)
(*                                                                         *)
(* The report grows along the labels of the validation: Upto(label) are    *)
(* the names that it may have there, and it has those of them that are     *)
(* required, each once (Named).  What is in it of the earlier phases       *)
(* passed unless something blocks the rest (Passed).  Of the resources     *)
(* under the names of this run, those that were there before are found by  *)
(* the preflights (OwnersKnown), and what the run leaves behind is in the  *)
(* report when the lifecycle that made it is over (ResidueTold).           *)
(***************************************************************************)
EXTENDS ValidationExecution, FiniteSetTheorems, SequenceTheorems, WellFoundedInduction, TLAPS

----------------------------------------------------------------------------
(***************************************************************************)
(* What a state consists of.                                               *)
(***************************************************************************)

ReportName == Gate \cup {"static-safety", "locked-install", "docker-cleanup"}
Check == [name : ReportName, status : Status]
Resource == Kind \cup {"helper"}

ImageCleanup == {"own_container", "remove_container", "own_image", "remove_image", "image_residue"}
ComposeCleanup == {"down", "compose_residue"}
ImageStages == ImageTry \cup ImageCleanup
ComposeStages == ComposeTry \cup ComposeCleanup
Docker == {"image_preflight", "compose_preflight"} \cup ImageStages \cup ComposeStages
Ending == {"verify", "accepting", "reported"}
Label == {"static", "install", "gates", "chain", "raised"} \cup Docker \cup Ending

DaemonTyped ==
  daemon \in [image : {"none", "ours", "other"}, container : {"none", "ours", "other"},
              stack : {"none", "ours", "other"}, volume : BOOLEAN, helper : BOOLEAN,
              late : SUBSET Resource, cameLate : SUBSET Resource, preexisting : SUBSET Kind]

ValTyped ==
  val \in [pc : Label, required : SUBSET Gate, todo : SUBSET Gate, checks : Seq(Check),
           database : BOOLEAN, docker : BOOLEAN, tools : SUBSET {"go", "gofmt", "cmake", "ctest"},
           blocking : BOOLEAN, phase : {"none", "quality", "runtime"}, phaseFailed : BOOLEAN,
           polls : 0 .. PollAttempts - 1, containerAttempted : BOOLEAN, raising : BOOLEAN]

BudgetTyped == budget \in [faults : 0 .. MaxFaults, rivals : 0 .. MaxRivals]

----------------------------------------------------------------------------
(***************************************************************************)
(* The resources.                                                          *)
(***************************************************************************)

\* What others had under the names is what the preflights find.
OwnersKnown ==
  /\ \A k \in daemon.preexisting : daemon[k] = "other" /\ k \notin daemon.late
  /\ val.pc \in ImageStages => daemon.preexisting \cap {"image", "container"} = {}
  /\ val.pc \in ComposeStages => "stack" \notin daemon.preexisting
  /\ At("remove_container") => daemon.container = "ours"

\* Nothing of this run under the name, and nothing on its way.
Untouched(k) == daemon[k] # "ours" /\ k \notin daemon.late
\* What is left of it is reported, or came late.
Told(k, gate) ==
  daemon[k] = "ours" /\ k \notin daemon.cameLate => Entry(gate, "FAIL") \in ToSet(val.checks)

BeforeImage == {"static", "install", "gates", "chain", "image_preflight"}
BeforeUp == BeforeImage \cup ImageStages \cup {"compose_preflight", "compose_config"}

ResidueTold ==
  /\ val.pc \in BeforeImage => Untouched("image") /\ Untouched("container")
  /\ val.pc \in {"compose_preflight"} \cup ComposeStages \cup Ending
       => Told("image", "docker-cleanup") /\ Told("container", "docker-cleanup")
  /\ val.pc \in BeforeUp => Untouched("stack")
  /\ val.pc \in Ending => Told("stack", "compose-cleanup")

----------------------------------------------------------------------------
(***************************************************************************)
(* The names in the report.                                                *)
(***************************************************************************)

Distinct(s) == \A i, j \in DOMAIN s : s[i].name = s[j].name => i = j

ByProject == {"static-safety", "locked-install"} \cup ToSet(ProjectGates)
ByImage == ByProject \cup {"docker-build", "container-non-root", "docker-cleanup"}
                     \cup (IF DeferHealth THEN {} ELSE {"container-health"})

\* The names that a validation may have reported when it is at a label.
Upto(label) ==
  CASE label = "static" -> {}
    [] label = "install" -> {"static-safety"}
    [] label = "gates" -> ByProject \ val.todo
    [] label = "chain" -> AdapterGates(val.required) \ val.todo
    [] label \in {"image_preflight", "build", "build_owned"} -> ByProject
    [] label = "non_root" -> ByProject \cup {"docker-build"}
    [] label \in {"start", "start_owned", "poll"} -> ByProject \cup {"docker-build", "container-non-root"}
    [] label \in ImageCleanup -> ByImage \ {"docker-cleanup"}
    [] label \in {"compose_preflight", "compose_config"} -> ByImage
    [] label = "up" -> ByImage \cup {"compose-config"}
    [] label = "compose_health" -> ByImage \cup {"compose-config", "compose-up"}
    [] label \in ComposeCleanup -> ByImage \cup {"compose-config", "compose-up", "compose-health"}
    [] OTHER -> AdapterGates(val.required)

\* A request is for one adapter, and what is still to do is part of it.
Requested ==
  /\ val.required \subseteq AdapterGates(val.required)
  /\ val.pc \in {"static", "install", "gates"} \cup Docker => val.required \subseteq PythonGates
  /\ val.todo \subseteq val.required
  /\ val.pc \in {"static", "install"} => val.todo = val.required \cap ToSet(ProjectGates)
  /\ At("gates") => val.todo \subseteq ToSet(ProjectGates)
  /\ val.pc \in {"start", "start_owned", "poll"} => ~DeferHealth
  /\ val.raising => val.pc \in ImageCleanup \cup ComposeCleanup \cup {"raised"}

Named ==
  ~val.raising /\ ~At("raised") =>
    /\ Distinct(val.checks)
    /\ Names(val.checks) \subseteq Upto(val.pc)
    /\ val.required \cap Upto(val.pc) \subseteq Names(val.checks)

----------------------------------------------------------------------------
(***************************************************************************)
(* What passed.                                                            *)
(***************************************************************************)

PassedBelow(s, rank) == \A e \in ToSet(s) : Rank(e.name) < rank => e.status = "PASS"
Reach == CASE val.phase = "none" -> 1 [] val.phase = "quality" -> 2 [] OTHER -> 3

Passed ==
  /\ At("static") => val.checks = <<>>
  /\ At("install") => Len(val.checks) = 1 /\ val.checks[1].name = "static-safety"
  /\ val.pc \in {"static", "install"} => val.phase = "none" /\ ~val.phaseFailed
  /\ At("gates") =>
       /\ \A e \in ToSet(val.checks) : Rank(e.name) <= Reach
       /\ ~val.blocking => PassedBelow(val.checks, Reach)
       /\ ~val.blocking /\ ~val.phaseFailed => PassedBelow(val.checks, 4)
       /\ val.phase = "none" => ~val.phaseFailed
       /\ val.phase = "runtime" => val.todo \cap ToSet(QualityGates) = {}
  /\ At("chain") =>
       /\ val.todo \subseteq ToSet(Chains)
       /\ \A e \in ToSet(val.checks) : Rank(e.name) = 3
       /\ ~val.blocking => PassedBelow(val.checks, 4)
  /\ val.pc \in Docker => PassedBelow(val.checks, 4)

----------------------------------------------------------------------------
(***************************************************************************)
(* The inductive invariant: what it says about the validation, about the   *)
(* resources, and the bounds.                                              *)
(***************************************************************************)
ValInv == ValTyped /\ Requested /\ Named /\ PrerequisitesPassed /\ Passed
DaemonInv == DaemonTyped /\ OwnersKnown /\ ResidueTold
IInv == ValInv /\ DaemonInv /\ BudgetTyped

----------------------------------------------------------------------------
(***************************************************************************)
(* Reports.                                                                *)
(***************************************************************************)

IsReport(s, names) == s \in Seq(Check) /\ Distinct(s) /\ Names(s) = names

\* A report with one entry.
LEMMA OneEntry ==
  ASSUME NEW n \in ReportName, NEW status \in Status
  PROVE  /\ IsReport(<<Entry(n, status)>>, {n})
         /\ ToSet(<<Entry(n, status)>>) = {Entry(n, status)}
<1> DEFINE e == Entry(n, status)
           s == <<e>>
<1>1. e \in Check /\ e.name = n
  BY DEF Check, Entry
<1> HIDE DEF e
<1>2. s \in Seq(Check) /\ DOMAIN s = {1} /\ s[1] = e
  BY <1>1
<1> HIDE DEF s
<1> QED
  BY <1>1, <1>2 DEF IsReport, Distinct, Names, ToSet, e, s

\* No entry.
LEMMA NoEntry == IsReport(<<>>, {}) /\ ToSet(<<>>) = {}
<1>1. <<>> \in Seq(Check) /\ DOMAIN <<>> = {}
  OBVIOUS
<1> QED
  BY <1>1 DEF IsReport, Distinct, Names, ToSet

\* A report goes on with entries of other names.
LEMMA Joined ==
  ASSUME NEW s, NEW M, NEW t, NEW N, IsReport(s, M), IsReport(t, N), M \cap N = {}
  PROVE  IsReport(s \o t, M \cup N) /\ ToSet(s \o t) = ToSet(s) \cup ToSet(t)
<1> DEFINE u == s \o t
           m == Len(s)
           n == Len(t)
<1>1. s \in Seq(Check) /\ t \in Seq(Check) /\ m \in Nat /\ n \in Nat
  BY DEF IsReport
<1>2. /\ u \in Seq(Check) /\ DOMAIN u = 1 .. m + n
      /\ DOMAIN s = 1 .. m /\ DOMAIN t = 1 .. n
      /\ \A i \in 1 .. m : u[i] = s[i]
      /\ \A i \in 1 .. n : u[m + i] = t[i]
  BY <1>1
<1> HIDE DEF u, m, n
<1>3. \A i \in DOMAIN u : i \in DOMAIN s \/ (i - m \in DOMAIN t /\ i = m + (i - m) /\ i \notin DOMAIN s)
  BY <1>1, <1>2
<1>4. /\ \A i \in DOMAIN s : i \in DOMAIN u /\ u[i] = s[i]
      /\ \A i \in DOMAIN t : m + i \in DOMAIN u /\ u[m + i] = t[i]
  BY <1>1, <1>2
<1>5. /\ \A i \in DOMAIN s : s[i].name \in M
      /\ \A i \in DOMAIN t : t[i].name \in N
  BY DEF IsReport, Names
<1>6. ToSet(u) = ToSet(s) \cup ToSet(t)
  BY <1>3, <1>4 DEF ToSet
<1>7. Names(u) = M \cup N
  BY <1>3, <1>4 DEF IsReport, Names
<1>8. ASSUME NEW i \in DOMAIN u, NEW j \in DOMAIN u, u[i].name = u[j].name PROVE i = j
  <2>1. CASE i \in DOMAIN s /\ j \in DOMAIN s
    BY <1>4, <1>8, <2>1 DEF IsReport, Distinct
  <2>2. CASE i \notin DOMAIN s /\ j \notin DOMAIN s
    <3>1. i - m \in DOMAIN t /\ j - m \in DOMAIN t /\ u[i] = t[i - m] /\ u[j] = t[j - m]
      BY <1>3, <1>4, <2>2
    <3>2. i - m = j - m
      BY <1>8, <3>1 DEF IsReport, Distinct
    <3> QED
      BY <1>1, <1>2, <3>2
  <2>3. CASE ~(i \in DOMAIN s <=> j \in DOMAIN s)
    <3>1. \E k \in DOMAIN s, l \in DOMAIN t : s[k].name = t[l].name
      BY <1>3, <1>4, <1>8, <2>3
    <3> QED
      BY <1>5, <3>1
  <2> QED
    BY <2>1, <2>2, <2>3
<1>9. Distinct(u)
  BY <1>8 DEF Distinct
<1> QED
  BY <1>2, <1>6, <1>7, <1>9 DEF IsReport, u

\* One entry more.
LEMMA JoinedByOne ==
  ASSUME NEW s, NEW M, IsReport(s, M), NEW n \in ReportName \ M, NEW status \in Status
  PROVE  /\ IsReport(Append(s, Entry(n, status)), M \cup {n})
         /\ ToSet(Append(s, Entry(n, status))) = ToSet(s) \cup {Entry(n, status)}
<1> DEFINE e == Entry(n, status)
<1>1. IsReport(<<e>>, {n}) /\ ToSet(<<e>>) = {e}
  BY OneEntry
<1>2. e \in Check
  BY DEF Check, Entry
<1> HIDE DEF e
<1>3. Append(s, e) = s \o <<e>>
  BY <1>2 DEF IsReport
<1>4. M \cap {n} = {}
  OBVIOUS
<1>5. IsReport(s \o <<e>>, M \cup {n}) /\ ToSet(s \o <<e>>) = ToSet(s) \cup {e}
  BY <1>1, <1>4, Joined
<1> QED
  BY <1>3, <1>5 DEF e

\* The names are those of the entries.
LEMMA NamesOfEntries ==
  ASSUME NEW s
  PROVE  Names(s) = {e.name : e \in ToSet(s)}
BY DEF Names, ToSet

\* A skipped gate, if it was requested.
LEMMA SkippedOne ==
  ASSUME NEW n \in ReportName, NEW requested
  PROVE  /\ IsReport(Skipped(n, requested), {n} \cap requested)
         /\ \A e \in ToSet(Skipped(n, requested)) : e.status = "SKIPPED"
<1>1. CASE n \in requested
  <2>1. {n} \cap requested = {n} /\ Skipped(n, requested) = <<Entry(n, "SKIPPED")>>
    BY <1>1 DEF Skipped
  <2>2. Entry(n, "SKIPPED").status = "SKIPPED" /\ "SKIPPED" \in Status
    BY DEF Entry, Status
  <2> QED
    BY <2>1, <2>2, OneEntry
<1>2. CASE n \notin requested
  <2>1. {n} \cap requested = {} /\ Skipped(n, requested) = <<>>
    BY <1>2 DEF Skipped
  <2> QED
    BY <2>1, NoEntry
<1> QED
  BY <1>1, <1>2

\* An entry is put between two others.
LEMMA Inserted ==
  ASSUME NEW s, NEW M, IsReport(s, M), NEW at \in 1 .. Len(s) + 1,
         NEW n \in ReportName \ M, NEW status \in Status
  PROVE  /\ IsReport(InsertAt(s, at, Entry(n, status)), M \cup {n})
         /\ ToSet(InsertAt(s, at, Entry(n, status))) = ToSet(s) \cup {Entry(n, status)}
<1> DEFINE m == Len(s)
           a == SubSeq(s, 1, at - 1)
           b == SubSeq(s, at, m)
           A == {s[i].name : i \in 1 .. at - 1}
           B == {s[i].name : i \in at .. m}
           e == Entry(n, status)
<1>1. s \in Seq(Check) /\ m \in Nat /\ DOMAIN s = 1 .. m /\ at \in Nat
  BY DEF IsReport
<1>2. /\ a \in Seq(Check) /\ DOMAIN a = 1 .. at - 1
      /\ \A i \in 1 .. at - 1 : a[i] = s[i]
  BY <1>1, SubSeqProperties
<1>3. /\ b \in Seq(Check) /\ DOMAIN b = 1 .. m - at + 1
      /\ \A i \in 1 .. m - at + 1 : b[i] = s[at + i - 1]
  BY <1>1, SubSeqProperties
<1> HIDE DEF a, b
<1>4. \A i \in at .. m : i - at + 1 \in 1 .. m - at + 1 /\ at + (i - at + 1) - 1 = i
  BY <1>1
<1>5. \A i \in 1 .. m - at + 1 : at + i - 1 \in at .. m
  BY <1>1
<1>6. Names(a) = A /\ ToSet(a) = {s[i] : i \in 1 .. at - 1}
  BY <1>2 DEF Names, ToSet
<1>7. Names(b) = B /\ ToSet(b) = {s[i] : i \in at .. m}
  <2>1. \A i \in at .. m : b[i - at + 1] = s[i]
    BY <1>1, <1>3, <1>4
  <2>2. {b[i] : i \in DOMAIN b} = {s[i] : i \in at .. m}
    <3>1. \A i \in DOMAIN b : at + i - 1 \in at .. m /\ b[i] = s[at + i - 1]
      BY <1>3, <1>5
    <3>2. \A i \in at .. m : i - at + 1 \in DOMAIN b /\ b[i - at + 1] = s[i]
      BY <1>3, <1>4, <2>1
    <3> QED
      BY <3>1, <3>2
  <2>3. ToSet(b) = {s[i] : i \in at .. m}
    BY <2>2 DEF ToSet
  <2>4. Names(b) = {e0.name : e0 \in ToSet(b)}
    BY NamesOfEntries
  <2> QED
    BY <2>3, <2>4
<1>8. \A i \in 1 .. m : i \in 1 .. at - 1 \/ i \in at .. m
  BY <1>1
<1>9. 1 .. at - 1 \subseteq 1 .. m /\ at .. m \subseteq 1 .. m
  BY <1>1
<1>10. A \cup B = M /\ ToSet(a) \cup ToSet(b) = ToSet(s)
  <2>1. M = {s[i].name : i \in 1 .. m} /\ ToSet(s) = {s[i] : i \in 1 .. m}
    BY <1>1 DEF IsReport, Names, ToSet
  <2> QED
    BY <1>6, <1>7, <1>8, <1>9, <2>1
<1>11. \A i, j \in 1 .. m : s[i].name = s[j].name => i = j
  BY <1>1 DEF IsReport, Distinct
<1>12. A \cap B = {}
  <2> SUFFICES ASSUME NEW i \in 1 .. at - 1, NEW j \in at .. m, s[i].name = s[j].name PROVE FALSE
    OBVIOUS
  <2>1. i = j
    BY <1>9, <1>11
  <2> QED
    BY <1>1, <2>1
<1>13. IsReport(a, A)
  <2>1. Distinct(a)
    BY <1>2, <1>9, <1>11 DEF Distinct
  <2> QED
    BY <1>2, <1>6, <2>1 DEF IsReport
<1>14. IsReport(b, B)
  <2>1. ASSUME NEW i \in DOMAIN b, NEW j \in DOMAIN b, b[i].name = b[j].name PROVE i = j
    <3>1. at + i - 1 \in 1 .. m /\ at + j - 1 \in 1 .. m
      BY <1>1, <1>3
    <3>2. at + i - 1 = at + j - 1
      BY <1>3, <1>11, <2>1, <3>1
    <3> QED
      BY <1>1, <1>3, <3>2
  <2> QED
    BY <1>3, <1>7, <2>1 DEF IsReport, Distinct
<1>15. IsReport(<<e>>, {n}) /\ ToSet(<<e>>) = {e}
  BY OneEntry
<1> HIDE DEF e, A, B
<1>16. IsReport(a \o <<e>>, A \cup {n}) /\ ToSet(a \o <<e>>) = ToSet(a) \cup {e}
  <2>1. A \cap {n} = {}
    BY <1>10
  <2> QED
    BY <1>13, <1>15, <2>1, Joined
<1>17. /\ IsReport(a \o <<e>> \o b, A \cup {n} \cup B)
       /\ ToSet(a \o <<e>> \o b) = ToSet(a) \cup {e} \cup ToSet(b)
  <2>1. (A \cup {n}) \cap B = {}
    BY <1>10, <1>12
  <2> QED
    BY <1>14, <1>16, <2>1, Joined
<1>18. InsertAt(s, at, e) = a \o <<e>> \o b
  BY DEF InsertAt, a, b, m
<1>19. A \cup {n} \cup B = M \cup {n}
  BY <1>10
<1> QED
  BY <1>10, <1>17, <1>18, <1>19 DEF e

----------------------------------------------------------------------------
(***************************************************************************)
(* The gates.                                                              *)
(***************************************************************************)

\* Where the elements are when two sequences are put together.
LEMMA Places ==
  ASSUME NEW S, NEW s \in Seq(S), NEW t \in Seq(S)
  PROVE  /\ Len(s) \in Nat /\ Len(t) \in Nat
         /\ DOMAIN s = 1 .. Len(s) /\ DOMAIN t = 1 .. Len(t) /\ DOMAIN (s \o t) = 1 .. Len(s) + Len(t)
         /\ \A i \in 1 .. Len(s) : (s \o t)[i] = s[i]
         /\ \A i \in 1 .. Len(t) : (s \o t)[Len(s) + i] = t[i]
OBVIOUS

\* The elements of two sequences in a row.
LEMMA ToSetOfBoth ==
  ASSUME NEW S, NEW s \in Seq(S), NEW t \in Seq(S)
  PROVE  ToSet(s \o t) = ToSet(s) \cup ToSet(t)
<1>1. /\ Len(s) \in Nat /\ Len(t) \in Nat
      /\ DOMAIN s = 1 .. Len(s) /\ DOMAIN t = 1 .. Len(t) /\ DOMAIN (s \o t) = 1 .. Len(s) + Len(t)
      /\ \A i \in 1 .. Len(s) : (s \o t)[i] = s[i]
      /\ \A i \in 1 .. Len(t) : (s \o t)[Len(s) + i] = t[i]
  BY Places
<1>2. \A i \in DOMAIN (s \o t) : i \in DOMAIN s \/ (i - Len(s) \in DOMAIN t /\ i = Len(s) + (i - Len(s)))
  BY <1>1
<1>3. \A i \in DOMAIN s : i \in DOMAIN (s \o t)
  BY <1>1
<1>4. \A i \in DOMAIN t : Len(s) + i \in DOMAIN (s \o t)
  BY <1>1
<1>5. ToSet(s \o t) \subseteq ToSet(s) \cup ToSet(t)
  <2> SUFFICES ASSUME NEW i \in DOMAIN (s \o t) PROVE (s \o t)[i] \in ToSet(s) \cup ToSet(t)
    BY DEF ToSet
  <2> QED
    BY <1>1, <1>2 DEF ToSet
<1>6. ToSet(s) \subseteq ToSet(s \o t) /\ ToSet(t) \subseteq ToSet(s \o t)
  BY <1>1, <1>3, <1>4 DEF ToSet
<1> QED
  BY <1>5, <1>6

\* What the lists of gates hold.
LEMMA TheGates ==
  /\ ToSet(QualityGates) = {"python-syntax", "ruff-format", "ruff-lint", "mypy", "pytest"}
  /\ ToSet(DatabaseGates) = {"postgres-connect", "alembic-upgrade", "database-readiness",
                             "session-rollback"}
  /\ ToSet(HttpGates) = {"application-start", "health-live", "health-ready", "openapi"}
  /\ ToSet(GoGates) = {"go-format", "go-test", "go-build", "go-executable-run"}
  /\ ToSet(CMakeGates) = {"cmake-configure", "cmake-build", "ctest", "executable-run"}
<1>1. ToSet(QualityGates) = {"python-syntax", "ruff-format", "ruff-lint", "mypy", "pytest"}
  <2>1. DOMAIN QualityGates = 1 .. 5
    BY DEF QualityGates
  <2>2. 1 .. 5 = {1, 2, 3, 4, 5}
    OBVIOUS
  <2> QED
    BY <2>1, <2>2 DEF ToSet, QualityGates
<1>2. 1 .. 4 = {1, 2, 3, 4}
  OBVIOUS
<1>3. ToSet(DatabaseGates) = {"postgres-connect", "alembic-upgrade", "database-readiness",
                              "session-rollback"}
  <2>1. DOMAIN DatabaseGates = 1 .. 4
    BY DEF DatabaseGates
  <2> QED
    BY <1>2, <2>1 DEF ToSet, DatabaseGates
<1>4. ToSet(HttpGates) = {"application-start", "health-live", "health-ready", "openapi"}
  <2>1. DOMAIN HttpGates = 1 .. 4
    BY DEF HttpGates
  <2> QED
    BY <1>2, <2>1 DEF ToSet, HttpGates
<1>5. ToSet(GoGates) = {"go-format", "go-test", "go-build", "go-executable-run"}
  <2>1. DOMAIN GoGates = 1 .. 4
    BY DEF GoGates
  <2> QED
    BY <1>2, <2>1 DEF ToSet, GoGates
<1>6. ToSet(CMakeGates) = {"cmake-configure", "cmake-build", "ctest", "executable-run"}
  <2>1. DOMAIN CMakeGates = 1 .. 4
    BY DEF CMakeGates
  <2> QED
    BY <1>2, <2>1 DEF ToSet, CMakeGates
<1> QED
  BY <1>1, <1>3, <1>4, <1>5, <1>6

\* The gates in the lists.
ListedGate ==
  ToSet(QualityGates) \cup ToSet(DatabaseGates) \cup ToSet(HttpGates) \cup ToSet(GoGates)
  \cup ToSet(CMakeGates)

\* The gates after the quality gates.
AfterQuality == DatabaseGates \o HttpGates \o Chains

\* What the longer lists hold, and that the quality gates are the first five.
LEMMA TheOrder ==
  /\ ToSet(ProjectGates) = ToSet(QualityGates) \cup ToSet(DatabaseGates) \cup ToSet(HttpGates)
  /\ ToSet(Chains) = ToSet(GoGates) \cup ToSet(CMakeGates)
  /\ ToSet(AfterQuality) = ToSet(DatabaseGates) \cup ToSet(HttpGates) \cup ToSet(Chains)
  /\ QualityGates \in Seq(ListedGate) /\ Len(QualityGates) = 5 /\ AfterQuality \in Seq(ListedGate)
  /\ ProjectGates \o Chains = QualityGates \o AfterQuality
<1>1. /\ QualityGates \in Seq(ListedGate) /\ DatabaseGates \in Seq(ListedGate) /\ HttpGates \in Seq(ListedGate)
      /\ GoGates \in Seq(ListedGate) /\ CMakeGates \in Seq(ListedGate)
  <2>1. QualityGates \in Seq(ListedGate)
    BY TheGates DEF QualityGates, ListedGate
  <2>2. DatabaseGates \in Seq(ListedGate)
    BY TheGates DEF DatabaseGates, ListedGate
  <2>3. HttpGates \in Seq(ListedGate)
    BY TheGates DEF HttpGates, ListedGate
  <2>4. GoGates \in Seq(ListedGate)
    BY TheGates DEF GoGates, ListedGate
  <2>5. CMakeGates \in Seq(ListedGate)
    BY TheGates DEF CMakeGates, ListedGate
  <2> QED
    BY <2>1, <2>2, <2>3, <2>4, <2>5
<1>2. Len(QualityGates) = 5
  BY DEF QualityGates
<1>3. /\ Chains \in Seq(ListedGate) /\ QualityGates \o DatabaseGates \in Seq(ListedGate)
      /\ DatabaseGates \o HttpGates \in Seq(ListedGate)
      /\ AfterQuality = (DatabaseGates \o HttpGates) \o Chains /\ AfterQuality \in Seq(ListedGate)
      /\ ProjectGates = (QualityGates \o DatabaseGates) \o HttpGates
  BY <1>1, ConcatProperties DEF Chains, AfterQuality, ProjectGates
<1>4. ToSet(Chains) = ToSet(GoGates) \cup ToSet(CMakeGates)
  BY <1>1, ToSetOfBoth DEF Chains
<1>5. ToSet(ProjectGates) = ToSet(QualityGates) \cup ToSet(DatabaseGates) \cup ToSet(HttpGates)
  <2>1. ToSet(QualityGates \o DatabaseGates) = ToSet(QualityGates) \cup ToSet(DatabaseGates)
    BY <1>1, ToSetOfBoth
  <2>2. ToSet(ProjectGates) = ToSet(QualityGates \o DatabaseGates) \cup ToSet(HttpGates)
    BY <1>1, <1>3, ToSetOfBoth
  <2> QED
    BY <2>1, <2>2
<1>6. ToSet(AfterQuality) = ToSet(DatabaseGates) \cup ToSet(HttpGates) \cup ToSet(Chains)
  <2>1. ToSet(DatabaseGates \o HttpGates) = ToSet(DatabaseGates) \cup ToSet(HttpGates)
    BY <1>1, ToSetOfBoth
  <2>2. ToSet(AfterQuality) = ToSet(DatabaseGates \o HttpGates) \cup ToSet(Chains)
    BY <1>3, ToSetOfBoth
  <2> QED
    BY <2>1, <2>2
<1>7. ProjectGates \o Chains = QualityGates \o AfterQuality
  <2>1. (QualityGates \o DatabaseGates) \o HttpGates = QualityGates \o (DatabaseGates \o HttpGates)
    BY <1>1
  <2>2. ASSUME NEW t \in Seq(ListedGate), NEW u \in Seq(ListedGate)
        PROVE  (QualityGates \o t) \o u = QualityGates \o (t \o u)
    BY <1>1
  <2>3. (QualityGates \o (DatabaseGates \o HttpGates)) \o Chains
          = QualityGates \o ((DatabaseGates \o HttpGates) \o Chains)
    BY <1>3, <2>2
  <2> QED
    BY <1>3, <2>1, <2>3
<1>8. AfterQuality \in Seq(ListedGate)
  BY <1>3
<1> QED
  BY <1>1, <1>2, <1>4, <1>5, <1>6, <1>7, <1>8

\* A quality gate has its turn before any other.
LEMMA QualityFirst ==
  ASSUME NEW m \in ToSet(QualityGates), NEW n \in ToSet(AfterQuality)
  PROVE  ~(Position(n) <= Position(m))
<1> DEFINE P == QualityGates \o AfterQuality
<1>1. /\ QualityGates \in Seq(ListedGate) /\ AfterQuality \in Seq(ListedGate) /\ Len(QualityGates) = 5
      /\ ProjectGates \o Chains = P
  BY TheOrder
<1>2. ToSet(QualityGates) \cap ToSet(AfterQuality) = {}
  BY TheOrder, TheGates
<1>3. /\ DOMAIN QualityGates = 1 .. 5 /\ DOMAIN AfterQuality = 1 .. Len(AfterQuality) /\ Len(AfterQuality) \in Nat
      /\ DOMAIN P = 1 .. 5 + Len(AfterQuality)
      /\ \A i \in 1 .. 5 : P[i] = QualityGates[i]
      /\ \A i \in 1 .. Len(AfterQuality) : P[5 + i] = AfterQuality[i]
  <2>1. \A s, t \in Seq(ListedGate) :
          /\ DOMAIN s = 1 .. Len(s) /\ DOMAIN t = 1 .. Len(t) /\ Len(t) \in Nat
          /\ DOMAIN (s \o t) = 1 .. Len(s) + Len(t)
          /\ \A i \in 1 .. Len(s) : (s \o t)[i] = s[i]
          /\ \A i \in 1 .. Len(t) : (s \o t)[Len(s) + i] = t[i]
    BY Places
  <2>2. \A t \in Seq(ListedGate) :
          /\ DOMAIN QualityGates = 1 .. 5 /\ DOMAIN t = 1 .. Len(t) /\ Len(t) \in Nat
          /\ DOMAIN (QualityGates \o t) = 1 .. 5 + Len(t)
          /\ \A i \in 1 .. 5 : (QualityGates \o t)[i] = QualityGates[i]
          /\ \A i \in 1 .. Len(t) : (QualityGates \o t)[5 + i] = t[i]
    <3>1. QualityGates \in Seq(ListedGate) /\ Len(QualityGates) = 5
      BY <1>1
    <3>2. \A t \in Seq(ListedGate) :
            /\ DOMAIN QualityGates = 1 .. Len(QualityGates) /\ DOMAIN t = 1 .. Len(t) /\ Len(t) \in Nat
            /\ DOMAIN (QualityGates \o t) = 1 .. Len(QualityGates) + Len(t)
            /\ \A i \in 1 .. Len(QualityGates) : (QualityGates \o t)[i] = QualityGates[i]
            /\ \A i \in 1 .. Len(t) : (QualityGates \o t)[Len(QualityGates) + i] = t[i]
      BY <2>1, <3>1, Zenon
    <3> QED
      BY <3>1, <3>2
  <2>3. AfterQuality \in Seq(ListedGate)
    BY <1>1
  <2> QED
    BY <2>2, <2>3, Zenon
<1> HIDE DEF P
<1>4. \A i \in DOMAIN P : P[i] \in ToSet(QualityGates) => i <= 5
  <2> SUFFICES ASSUME NEW i \in DOMAIN P, ~(i <= 5) PROVE P[i] \notin ToSet(QualityGates)
    BY <1>3
  <2>1. i - 5 \in DOMAIN AfterQuality /\ i = 5 + (i - 5)
    BY <1>3
  <2>2. P[i] = AfterQuality[i - 5]
    BY <1>3, <2>1
  <2> QED
    BY <1>2, <2>1, <2>2 DEF ToSet
<1>5. \A i \in DOMAIN P : P[i] \in ToSet(AfterQuality) => i > 5
  <2> SUFFICES ASSUME NEW i \in DOMAIN P, ~(i > 5) PROVE P[i] \notin ToSet(AfterQuality)
    BY <1>3
  <2>1. i \in DOMAIN QualityGates
    BY <1>3
  <2>2. P[i] = QualityGates[i]
    BY <1>3, <2>1
  <2> QED
    BY <1>2, <2>1, <2>2 DEF ToSet
<1>6. (\E i \in DOMAIN P : P[i] = m) /\ (\E i \in DOMAIN P : P[i] = n)
  <2>1. PICK i \in DOMAIN QualityGates : QualityGates[i] = m
    BY DEF ToSet
  <2>2. PICK j \in DOMAIN AfterQuality : AfterQuality[j] = n
    BY DEF ToSet
  <2>3. i \in DOMAIN P /\ P[i] = m
    BY <1>3, <2>1
  <2>4. 5 + j \in DOMAIN P /\ P[5 + j] = n
    BY <1>3, <2>2
  <2> QED
    BY <2>3, <2>4
<1>7. /\ Position(m) = CHOOSE i \in DOMAIN P : P[i] = m
      /\ Position(n) = CHOOSE i \in DOMAIN P : P[i] = n
  BY <1>1 DEF Position
<1>8. /\ Position(m) \in DOMAIN P /\ P[Position(m)] = m
      /\ Position(n) \in DOMAIN P /\ P[Position(n)] = n
  BY <1>6, <1>7
<1>9. Position(m) <= 5 /\ Position(n) > 5 /\ Position(m) \in Nat /\ Position(n) \in Nat
  BY <1>3, <1>4, <1>5, <1>8
<1> QED
  BY <1>9

\* How far the gates are.
LEMMA Ranks ==
  /\ Rank("static-safety") = 0 /\ Rank("locked-install") = 1
  /\ \A n \in ToSet(QualityGates) : Rank(n) = 2
  /\ \A n \in ToSet(AfterQuality) : Rank(n) = 3
  /\ \A n \in DeliveryGates \cup {"docker-cleanup"} : Rank(n) = 4
<1>1. ToSet(DatabaseGates \o HttpGates \o Chains) = ToSet(AfterQuality)
  BY DEF AfterQuality
<1> QED
  BY <1>1, TheGates, TheOrder DEF Rank, DeliveryGates, ImageGates, ComposeGates

\* The elements of a sequence with one more.
LEMMA ToSetOfOneMore ==
  ASSUME NEW S, NEW s \in Seq(S), NEW e \in S
  PROVE  ToSet(Append(s, e)) = ToSet(s) \cup {e}
<1> DEFINE t == Append(s, e)
           m == Len(s)
<1>1. /\ m \in Nat /\ DOMAIN s = 1 .. m /\ DOMAIN t = 1 .. m + 1
      /\ \A i \in 1 .. m : t[i] = s[i]
  OBVIOUS
<1>2. t[m + 1] = e
  OBVIOUS
<1> HIDE DEF t, m
<1>3. (\A i \in DOMAIN t : i \in DOMAIN s \/ i = m + 1) /\ m + 1 \in DOMAIN t
      /\ \A i \in DOMAIN s : i \in DOMAIN t
  BY <1>1
<1>4. ToSet(t) = ToSet(s) \cup {e}
  BY <1>1, <1>2, <1>3 DEF ToSet
<1> QED
  BY <1>4 DEF t

----------------------------------------------------------------------------
(***************************************************************************)
(* What the stages report.                                                 *)
(***************************************************************************)

\* The names of the delivery gates are names of a report.
LEMMA DeliveryNames ==
  /\ DeliveryGates \cup {"docker-cleanup"} \subseteq ReportName
  /\ {"PASS", "FAIL", "SKIPPED"} = Status
BY DEF ReportName, Gate, PythonGates, Status

\* The gates of the image lifecycle that are skipped.
LEMMA ImageSkipsReport ==
  /\ IsReport(ImageSkips, ImageRequested \cap {"container-non-root", "container-health"})
  /\ \A e \in ToSet(ImageSkips) : e.status = "SKIPPED"
<1>1. {"container-non-root", "container-health"} \subseteq ReportName
  BY DeliveryNames DEF DeliveryGates, ImageGates
<1>2. /\ IsReport(Skipped("container-non-root", ImageRequested), {"container-non-root"} \cap ImageRequested)
      /\ IsReport(Skipped("container-health", ImageRequested), {"container-health"} \cap ImageRequested)
      /\ \A e \in ToSet(Skipped("container-non-root", ImageRequested)) : e.status = "SKIPPED"
      /\ \A e \in ToSet(Skipped("container-health", ImageRequested)) : e.status = "SKIPPED"
  BY <1>1, SkippedOne
<1>3. ({"container-non-root"} \cap ImageRequested) \cap ({"container-health"} \cap ImageRequested) = {}
  OBVIOUS
<1>4. /\ IsReport(ImageSkips, ({"container-non-root"} \cap ImageRequested)
                               \cup ({"container-health"} \cap ImageRequested))
      /\ ToSet(ImageSkips) = ToSet(Skipped("container-non-root", ImageRequested))
                             \cup ToSet(Skipped("container-health", ImageRequested))
  BY <1>2, <1>3, Joined DEF ImageSkips
<1>5. ({"container-non-root"} \cap ImageRequested) \cup ({"container-health"} \cap ImageRequested)
        = ImageRequested \cap {"container-non-root", "container-health"}
  OBVIOUS
<1> QED
  BY <1>2, <1>4, <1>5

\* The gates of the compose lifecycle that are skipped.
LEMMA ComposeSkipsReport ==
  /\ IsReport(ComposeSkips, val.required \cap {"compose-up", "compose-health"})
  /\ \A e \in ToSet(ComposeSkips) : e.status = "SKIPPED"
<1>1. {"compose-up", "compose-health"} \subseteq ReportName
  BY DeliveryNames DEF DeliveryGates, ComposeGates
<1>2. /\ IsReport(Skipped("compose-up", val.required), {"compose-up"} \cap val.required)
      /\ IsReport(Skipped("compose-health", val.required), {"compose-health"} \cap val.required)
      /\ \A e \in ToSet(Skipped("compose-up", val.required)) : e.status = "SKIPPED"
      /\ \A e \in ToSet(Skipped("compose-health", val.required)) : e.status = "SKIPPED"
  BY <1>1, SkippedOne
<1>3. ({"compose-up"} \cap val.required) \cap ({"compose-health"} \cap val.required) = {}
  OBVIOUS
<1>4. /\ IsReport(ComposeSkips, ({"compose-up"} \cap val.required) \cup ({"compose-health"} \cap val.required))
      /\ ToSet(ComposeSkips) = ToSet(Skipped("compose-up", val.required))
                               \cup ToSet(Skipped("compose-health", val.required))
  BY <1>2, <1>3, Joined DEF ComposeSkips
<1>5. ({"compose-up"} \cap val.required) \cup ({"compose-health"} \cap val.required)
        = val.required \cap {"compose-up", "compose-health"}
  OBVIOUS
<1> QED
  BY <1>2, <1>4, <1>5

\* A report of skipped gates, and one gate more.
SkipsOnly(s, names) == IsReport(s, names) /\ \A e \in ToSet(s) : e.status = "SKIPPED"

\* One name more that is skipped if it is requested.
LEMMA OneSkipMore ==
  ASSUME NEW s, NEW names, SkipsOnly(s, names \cap val.required), NEW n \in ReportName \ names
  PROVE  SkipsOnly(s \o Skipped(n, val.required), (names \cup {n}) \cap val.required)
<1>1. /\ IsReport(Skipped(n, val.required), {n} \cap val.required)
      /\ \A e \in ToSet(Skipped(n, val.required)) : e.status = "SKIPPED"
  BY SkippedOne
<1>2. (names \cap val.required) \cap ({n} \cap val.required) = {}
  OBVIOUS
<1>3. /\ IsReport(s \o Skipped(n, val.required), (names \cap val.required) \cup ({n} \cap val.required))
      /\ ToSet(s \o Skipped(n, val.required)) = ToSet(s) \cup ToSet(Skipped(n, val.required))
  BY <1>1, <1>2, Joined DEF SkipsOnly
<1>4. (names \cap val.required) \cup ({n} \cap val.required) = (names \cup {n}) \cap val.required
  OBVIOUS
<1> QED
  BY <1>1, <1>3, <1>4 DEF SkipsOnly

\* The delivery gates that are skipped.
LEMMA DeliverySkipsReport == SkipsOnly(DeliverySkips, DeliveryGates \cap val.required)
<1> DEFINE Skip(n) == Skipped(n, val.required)
           s1 == Skip("docker-build")
           s2 == s1 \o Skip("container-non-root")
           s3 == s2 \o Skip("container-health")
           s4 == s3 \o Skip("compose-config")
           s5 == s4 \o Skip("compose-up")
           s6 == s5 \o Skip("compose-health")
           s7 == s6 \o Skip("compose-cleanup")
           n3 == {"docker-build", "container-non-root", "container-health"}
<1>1. {"docker-build", "container-non-root", "container-health", "compose-config", "compose-up",
       "compose-health", "compose-cleanup"} \subseteq ReportName
  BY DeliveryNames DEF DeliveryGates, ImageGates, ComposeGates
<1>2. SkipsOnly(s1, {"docker-build"} \cap val.required)
  BY <1>1, SkippedOne DEF SkipsOnly
<1>3. SkipsOnly(s2, {"docker-build", "container-non-root"} \cap val.required)
  <2>1. {"docker-build"} \cup {"container-non-root"} = {"docker-build", "container-non-root"}
    OBVIOUS
  <2> HIDE DEF s1
  <2> QED
    BY <1>1, <1>2, <2>1, OneSkipMore
<1>4. SkipsOnly(s3, n3 \cap val.required)
  <2>1. {"docker-build", "container-non-root"} \cup {"container-health"} = n3
    OBVIOUS
  <2> HIDE DEF s2, n3
  <2> QED
    BY <1>1, <1>3, <2>1, OneSkipMore
<1>5. SkipsOnly(s4, (n3 \cup {"compose-config"}) \cap val.required)
  <2>1. "compose-config" \in ReportName \ n3
    BY <1>1
  <2> HIDE DEF s3, n3
  <2> QED
    BY <1>4, <2>1, OneSkipMore
<1>6. SkipsOnly(s5, (n3 \cup {"compose-config"} \cup {"compose-up"}) \cap val.required)
  <2>1. "compose-up" \in ReportName \ (n3 \cup {"compose-config"})
    BY <1>1
  <2> HIDE DEF s4, n3
  <2> QED
    BY <1>5, <2>1, OneSkipMore
<1>7. SkipsOnly(s6, (n3 \cup {"compose-config"} \cup {"compose-up"} \cup {"compose-health"}) \cap val.required)
  <2>1. "compose-health" \in ReportName \ (n3 \cup {"compose-config"} \cup {"compose-up"})
    BY <1>1
  <2> HIDE DEF s5, n3
  <2> QED
    BY <1>6, <2>1, OneSkipMore
<1>8. SkipsOnly(s7, (n3 \cup {"compose-config"} \cup {"compose-up"} \cup {"compose-health"}
                     \cup {"compose-cleanup"}) \cap val.required)
  <2>1. "compose-cleanup" \in ReportName
                              \ (n3 \cup {"compose-config"} \cup {"compose-up"} \cup {"compose-health"})
    BY <1>1
  <2> HIDE DEF s6, n3
  <2> QED
    BY <1>7, <2>1, OneSkipMore
<1>9. n3 \cup {"compose-config"} \cup {"compose-up"} \cup {"compose-health"} \cup {"compose-cleanup"}
        = DeliveryGates
  BY DEF DeliveryGates, ImageGates, ComposeGates
<1>10. DeliverySkips = s7
  BY DEF DeliverySkips
<1> QED
  BY <1>8, <1>9, <1>10

\* The least of a set of numbers is one of them.
LEMMA LeastIsIn ==
  ASSUME NEW T \in SUBSET Nat, T # {}
  PROVE  Min(T) \in T
<1> DEFINE R == OpToRel(<, Nat)
<1>1. IsWellFoundedOn(R, Nat)
  BY NatLessThanWellFounded
<1>2. \A k, m \in Nat : k < m => <<k, m>> \in R
  BY DEF OpToRel
<1> HIDE DEF R
<1>3. PICK m \in T : \A k \in T : <<k, m>> \notin R
  BY <1>1, WFMin
<1>4. ASSUME NEW k \in T PROVE m <= k
  <2>1. m \in Nat /\ k \in Nat /\ ~(k < m)
    BY <1>2, <1>3
  <2> QED
    BY <2>1
<1> QED
  BY <1>4 DEF Min

\* The health of the container as the compose stack proved it: one entry more,
\* which keeps the others.
LEMMA DeferredHealthReport ==
  ASSUME NEW s, NEW N, IsReport(s, N),
         DeferHealth => "container-health" \notin N /\ "compose-health" \in N
  PROVE  /\ IsReport(WithDeferredHealth(s), N \cup (IF DeferHealth THEN {"container-health"} ELSE {}))
         /\ ToSet(s) \subseteq ToSet(WithDeferredHealth(s))
         /\ \A e \in ToSet(WithDeferredHealth(s)) : e \in ToSet(s) \/ e.name = "container-health"
<1>1. CASE ~DeferHealth
  BY <1>1 DEF WithDeferredHealth
<1>2. CASE DeferHealth
  <2> DEFINE Of(n) == {i \in 1 .. Len(s) : s[i].name = n}
             found(n) == IF Of(n) # {} THEN Min(Of(n)) ELSE 0
             at == IF found("docker-cleanup") = 0 THEN Len(s) + 1 ELSE found("docker-cleanup")
             status == s[found("compose-health")].status
  <2>1. s \in Seq(Check) /\ Len(s) \in Nat /\ DOMAIN s = 1 .. Len(s)
    BY DEF IsReport
  <2>2. ASSUME NEW n, Of(n) # {} PROVE found(n) \in Of(n)
    <3>1. Of(n) \in SUBSET Nat
      BY <2>1
    <3> QED
      BY <2>2, <3>1, LeastIsIn
  <2>3. at \in 1 .. Len(s) + 1
    <3>1. CASE Of("docker-cleanup") = {}
      BY <2>1, <3>1
    <3>2. CASE Of("docker-cleanup") # {}
      <4>1. found("docker-cleanup") \in 1 .. Len(s)
        BY <2>2, <3>2
      <4> HIDE DEF found
      <4> QED
        BY <2>1, <4>1
    <3> QED
      BY <3>1, <3>2
  <2>4. status \in Status
    <3>1. Of("compose-health") # {}
      BY <1>2, <2>1 DEF IsReport, Names
    <3>2. found("compose-health") \in 1 .. Len(s)
      BY <2>2, <3>1
    <3>3. \A i \in 1 .. Len(s) : s[i] \in Check
      BY <2>1
    <3> QED
      BY <3>2, <3>3 DEF Check
  <2>5. WithDeferredHealth(s) = InsertAt(s, at, Entry("container-health", status))
    BY <1>2 DEF WithDeferredHealth, StatusOf, SelectInSeq
  <2>6. "container-health" \in ReportName \ N
    BY <1>2, DeliveryNames DEF DeliveryGates, ImageGates
  <2> HIDE DEF at, status
  <2>7. /\ IsReport(WithDeferredHealth(s), N \cup {"container-health"})
        /\ ToSet(WithDeferredHealth(s)) = ToSet(s) \cup {Entry("container-health", status)}
    BY <2>3, <2>4, <2>5, <2>6, Inserted
  <2>8. Entry("container-health", status).name = "container-health"
    BY DEF Entry
  <2> QED
    BY <1>2, <2>7, <2>8
<1> QED
  BY <1>1, <1>2

----------------------------------------------------------------------------
(***************************************************************************)
(* The docker gates add to the report.                                     *)
(***************************************************************************)

\* Where the validation goes, and what its report becomes.
Turns(label, c, raising) ==
  /\ val'.pc = label /\ val'.checks = c /\ val'.raising = raising
  /\ val'.required = val.required /\ val'.todo = val.todo

CleanupLabel == ImageCleanup \cup ComposeCleanup \cup {"raised"}
DockerName == DeliveryGates \cup {"docker-cleanup"}

\* What a report must name when the validation goes to a label.
Fits(c, label) ==
  /\ Distinct(c) /\ Names(c) \subseteq Upto(label)
  /\ val.required \cap Upto(label) \subseteq Names(c)

\* The sets of labels do not overlap.
LEMMA TheLabels ==
  /\ \A label \in Docker \cup Ending \cup {"raised"} :
       label \notin {"static", "install", "gates", "chain"} /\ label \in Label
  /\ \A label \in Docker : label \notin Ending \cup {"raised"}
  /\ \A label \in CleanupLabel : label \in Docker \cup {"raised"}
BY DEF Docker, Ending, Label, ImageStages, ComposeStages, ImageTry, ComposeTry, ImageCleanup,
       ComposeCleanup, CleanupLabel

\* A move of the validation.
LEMMA MoveTurns ==
  ASSUME ValTyped, NEW label \in Label, NEW E \in Seq(Check), Move(label, E)
  PROVE  ValTyped' /\ Turns(label, val.checks \o E, val.raising)
<1>1. val.checks \o E \in Seq(Check)
  BY DEF ValTyped
<1> QED
  BY <1>1 DEF ValTyped, Move, Turns

\* Entries of docker gates keep what a report says about the gates before them.
LEMMA Advance ==
  ASSUME ValInv, val.pc \in Docker, ValTyped',
         NEW label \in Docker \cup Ending \cup {"raised"}, NEW c \in Seq(Check), NEW r \in BOOLEAN,
         Turns(label, c, r),
         \A e \in ToSet(c) : e \in ToSet(val.checks) \/ e.name \in DockerName,
         r => label \in CleanupLabel,
         label \in {"start", "start_owned", "poll"} => ~DeferHealth,
         ~r /\ label # "raised" => Fits(c, label)
  PROVE  ValInv'
<1>1. label \notin {"static", "install", "gates", "chain"}
  BY TheLabels
<1>2. val.required \subseteq PythonGates /\ val.required' = val.required /\ val.todo' = val.todo
  BY DEF ValInv, Requested, Turns
<1>3. AdapterGates(val.required)' = AdapterGates(val.required) /\ DeferHealth' = DeferHealth
  BY <1>2 DEF AdapterGates, DeferHealth
<1>4. Requested'
  <2>1. val.pc' = label /\ val.raising' = r
    BY DEF Turns
  <2> QED
    BY <1>1, <1>2, <1>3, <2>1 DEF Requested, ValInv, CleanupLabel, At
<1>5. Upto(label)' = Upto(label)
  BY <1>2, <1>3 DEF Upto, ByImage
<1>6. Named'
  <2>1. val.pc' = label /\ val.raising' = r /\ val.checks' = c
    BY DEF Turns
  <2> QED
    BY <1>2, <1>5, <2>1 DEF Named, Fits, At
<1>7. \A e \in ToSet(c) : Rank(e.name) < 4 => e.status = "PASS"
  <2>1. \A e \in ToSet(val.checks) : Rank(e.name) < 4 => e.status = "PASS"
    BY DEF ValInv, Passed, PassedBelow
  <2>2. \A n \in DockerName : ~(Rank(n) < 4)
    BY Ranks DEF DockerName
  <2> QED
    BY <2>1, <2>2
<1>8. Passed'
  <2>1. val.pc' = label /\ val.checks' = c
    BY DEF Turns
  <2> QED
    BY <1>1, <1>7, <2>1 DEF Passed, PassedBelow, At
<1>9. \A n \in ReportName : Rank(n) \in 0 .. 4
  BY DEF Rank
<1>10. PrerequisitesPassed'
  <2>1. val.checks' = c
    BY DEF Turns
  <2>2. ASSUME NEW i \in DOMAIN c, NEW j \in DOMAIN c, c[j].status # "SKIPPED",
               \/ Rank(c[i].name) < Rank(c[j].name)
               \/ Rank(c[i].name) = 3 /\ Rank(c[j].name) = 3 /\ i < j
        PROVE  c[i].status = "PASS"
    <3>1. c[i] \in Check /\ c[j] \in Check
      OBVIOUS
    <3>2. Rank(c[i].name) \in 0 .. 4 /\ Rank(c[j].name) \in 0 .. 4
      BY <1>9, <3>1 DEF Check
    <3>3. Rank(c[i].name) < 4
      BY <2>2, <3>2
    <3>4. c[i] \in ToSet(c)
      BY DEF ToSet
    <3> QED
      BY <1>7, <3>3, <3>4
  <2> QED
    BY <2>1, <2>2 DEF PrerequisitesPassed
<1> QED
  BY <1>4, <1>6, <1>8, <1>10 DEF ValInv

\* The report goes on with entries that fit the next label.
LEMMA FitsOn ==
  ASSUME ValInv, ~val.raising, ~At("raised"), NEW E, NEW M, IsReport(E, M), NEW label,
         M \cap Upto(val.pc) = {}, Upto(val.pc) \cup M \subseteq Upto(label),
         val.required \cap Upto(label) \subseteq Upto(val.pc) \cup M
  PROVE  /\ Fits(val.checks \o E, label)
         /\ IsReport(val.checks \o E, Names(val.checks) \cup M)
<1> DEFINE N == Names(val.checks)
<1>1. IsReport(val.checks, N) /\ N \subseteq Upto(val.pc) /\ val.required \cap Upto(val.pc) \subseteq N
  BY DEF ValInv, ValTyped, Named, IsReport
<1> HIDE DEF N
<1>2. IsReport(val.checks \o E, N \cup M)
  <2>1. N \cap M = {}
    BY <1>1
  <2> QED
    BY <1>1, <2>1, Joined
<1>3. N \cup M \subseteq Upto(label) /\ val.required \cap Upto(label) \subseteq N \cup M
  BY <1>1
<1> QED
  BY <1>2, <1>3 DEF Fits, IsReport, N

\* So a move that adds such entries keeps the invariant.
LEMMA MoveAdvances ==
  ASSUME ValInv, val.pc \in Docker, NEW label \in Docker \cup Ending \cup {"raised"},
         NEW E, NEW M \in SUBSET DockerName, IsReport(E, M), Move(label, E),
         val.raising => label \in CleanupLabel,
         label \in {"start", "start_owned", "poll"} => ~DeferHealth,
         ~val.raising /\ label # "raised" =>
           /\ M \cap Upto(val.pc) = {} /\ Upto(val.pc) \cup M \subseteq Upto(label)
           /\ val.required \cap Upto(label) \subseteq Upto(val.pc) \cup M
  PROVE  ValInv'
<1> DEFINE c == val.checks \o E
<1>1. E \in Seq(Check) /\ val.checks \in Seq(Check) /\ label \in Label /\ val.raising \in BOOLEAN
  BY TheLabels DEF IsReport, ValInv, ValTyped
<1>2. c \in Seq(Check)
  BY <1>1
<1>3. ValTyped' /\ Turns(label, c, val.raising)
  BY <1>1, MoveTurns DEF ValInv
<1>4. \A e \in ToSet(c) : e \in ToSet(val.checks) \/ e.name \in DockerName
  <2>1. ToSet(c) = ToSet(val.checks) \cup ToSet(E)
    BY <1>1, ToSetOfBoth
  <2>2. \A e \in ToSet(E) : e.name \in M
    BY NamesOfEntries DEF IsReport
  <2> QED
    BY <2>1, <2>2
<1>5. ~val.raising /\ label # "raised" => Fits(c, label)
  <2>1. ~At("raised")
    BY TheLabels DEF At
  <2> QED
    BY <2>1, FitsOn
<1> HIDE DEF c
<1> QED
  BY <1>1, <1>2, <1>3, <1>4, <1>5, Advance

\* A move leaves the entries where they are.
LEMMA MoveKeeps ==
  ASSUME ValTyped, NEW label, NEW E \in Seq(Check), Move(label, E)
  PROVE  /\ val'.pc = label
         /\ ToSet(val.checks) \subseteq ToSet(val'.checks) /\ ToSet(E) \subseteq ToSet(val'.checks)
<1>1. val.checks \in Seq(Check) /\ val'.pc = label /\ val'.checks = val.checks \o E
  BY DEF ValTyped, Move
<1> QED
  BY <1>1, ToSetOfBoth

----------------------------------------------------------------------------
(***************************************************************************)
(* The steps of the docker gates.                                          *)
(***************************************************************************)

\* A verdict alone.
LEMMA OneVerdict ==
  ASSUME NEW n \in DockerName, NEW ok \in BOOLEAN
  PROVE  /\ IsReport(<<Verdict(n, ok)>>, {n})
         /\ ToSet(<<Verdict(n, ok)>>) = {Verdict(n, ok)}
         /\ Verdict(n, FALSE) = Entry(n, "FAIL")
<1>1. n \in ReportName /\ (IF ok THEN "PASS" ELSE "FAIL") \in Status
  BY DeliveryNames DEF DockerName
<1> QED
  BY <1>1, OneEntry DEF Verdict

\* What a failed build reports, and what an image lifecycle that did not begin.
LEMMA BuildFailedReport ==
  /\ IsReport(<<Verdict("docker-build", FALSE)>> \o ImageSkips,
              {"docker-build"} \cup (ImageRequested \cap {"container-non-root", "container-health"}))
  /\ IsReport(<<Verdict("docker-build", FALSE)>> \o ImageSkips \o <<Verdict("docker-cleanup", TRUE)>>,
              {"docker-build"} \cup (ImageRequested \cap {"container-non-root", "container-health"})
              \cup {"docker-cleanup"})
<1>1. "docker-build" \in DockerName /\ "docker-cleanup" \in DockerName
  BY DEF DockerName, DeliveryGates, ImageGates
<1>2. /\ IsReport(<<Verdict("docker-build", FALSE)>>, {"docker-build"})
      /\ IsReport(<<Verdict("docker-cleanup", TRUE)>>, {"docker-cleanup"})
  BY <1>1, OneVerdict
<1>3. IsReport(<<Verdict("docker-build", FALSE)>> \o ImageSkips,
              {"docker-build"} \cup (ImageRequested \cap {"container-non-root", "container-health"}))
  <2>1. {"docker-build"} \cap (ImageRequested \cap {"container-non-root", "container-health"}) = {}
    OBVIOUS
  <2> QED
    BY <1>2, <2>1, ImageSkipsReport, Joined
<1>4. ({"docker-build"} \cup (ImageRequested \cap {"container-non-root", "container-health"}))
        \cap {"docker-cleanup"} = {}
  OBVIOUS
<1>5. IsReport((<<Verdict("docker-build", FALSE)>> \o ImageSkips) \o <<Verdict("docker-cleanup", TRUE)>>,
              ({"docker-build"} \cup (ImageRequested \cap {"container-non-root", "container-health"}))
              \cup {"docker-cleanup"})
  BY <1>2, <1>3, <1>4, Joined
<1> QED
  BY <1>3, <1>5

\* What a failed check of the compose file reports, and what a compose
\* lifecycle that did not begin.
LEMMA ConfigFailedReport ==
  /\ IsReport(<<Verdict("compose-config", FALSE)>> \o ComposeSkips,
              {"compose-config"} \cup (val.required \cap {"compose-up", "compose-health"}))
  /\ IsReport(<<Verdict("compose-config", FALSE)>> \o ComposeSkips \o <<Verdict("compose-cleanup", TRUE)>>,
              {"compose-config"} \cup (val.required \cap {"compose-up", "compose-health"})
              \cup {"compose-cleanup"})
<1>1. "compose-config" \in DockerName /\ "compose-cleanup" \in DockerName
  BY DEF DockerName, DeliveryGates, ComposeGates
<1>2. /\ IsReport(<<Verdict("compose-config", FALSE)>>, {"compose-config"})
      /\ IsReport(<<Verdict("compose-cleanup", TRUE)>>, {"compose-cleanup"})
  BY <1>1, OneVerdict
<1>3. IsReport(<<Verdict("compose-config", FALSE)>> \o ComposeSkips,
              {"compose-config"} \cup (val.required \cap {"compose-up", "compose-health"}))
  <2>1. {"compose-config"} \cap (val.required \cap {"compose-up", "compose-health"}) = {}
    OBVIOUS
  <2> QED
    BY <1>2, <2>1, ComposeSkipsReport, Joined
<1>4. ({"compose-config"} \cup (val.required \cap {"compose-up", "compose-health"}))
        \cap {"compose-cleanup"} = {}
  OBVIOUS
<1>5. IsReport((<<Verdict("compose-config", FALSE)>> \o ComposeSkips) \o <<Verdict("compose-cleanup", TRUE)>>,
              ({"compose-config"} \cup (val.required \cap {"compose-up", "compose-health"}))
              \cup {"compose-cleanup"})
  BY <1>2, <1>3, <1>4, Joined
<1> QED
  BY <1>3, <1>5

\* The names that each label of the docker gates allows.
LEMMA TheNames ==
  /\ DockerName = {"docker-build", "container-non-root", "container-health", "compose-config",
                   "compose-up", "compose-health", "compose-cleanup", "docker-cleanup"}
  /\ \A n \in DockerName : n \notin ByProject
  /\ \A label \in {"image_preflight", "build", "build_owned"} : Upto(label) = ByProject
  /\ Upto("non_root") = ByProject \cup {"docker-build"}
  /\ \A label \in {"start", "start_owned", "poll"} :
       Upto(label) = ByProject \cup {"docker-build", "container-non-root"}
  /\ \A label \in ImageCleanup : Upto(label) = ByImage \ {"docker-cleanup"}
  /\ \A label \in {"compose_preflight", "compose_config"} : Upto(label) = ByImage
  /\ Upto("up") = ByImage \cup {"compose-config"}
  /\ Upto("compose_health") = ByImage \cup {"compose-config", "compose-up"}
  /\ \A label \in ComposeCleanup :
       Upto(label) = ByImage \cup {"compose-config", "compose-up", "compose-health"}
<1>1. DockerName = {"docker-build", "container-non-root", "container-health", "compose-config",
                    "compose-up", "compose-health", "compose-cleanup", "docker-cleanup"}
  BY DEF DockerName, DeliveryGates, ImageGates, ComposeGates
<1>2. \A n \in DockerName : n \notin ByProject
  BY <1>1, TheGates, TheOrder DEF ByProject
<1> QED
  BY <1>1, <1>2 DEF Upto, ImageCleanup, ComposeCleanup

\* At the end, those of the adapter of a Python project.
LEMMA TheLastNames ==
  ASSUME val.required \subseteq PythonGates
  PROVE  \A label \in Ending : Upto(label) = ByProject \cup DockerName
<1>1. AdapterGates(val.required) = ByProject \cup DockerName
  <2>1. AdapterGates(val.required) = PythonGates \cup {"static-safety", "locked-install", "docker-cleanup"}
    BY DEF AdapterGates
  <2> QED
    BY <2>1 DEF PythonGates, ByProject, DockerName
<1>2. \A label \in Ending : Upto(label) = AdapterGates(val.required)
  BY DEF Upto, Ending, ImageCleanup, ComposeCleanup
<1> QED
  BY <1>1, <1>2

\* While the image lifecycle is in its try block.
LEMMA NotRaising ==
  ASSUME ValInv, val.pc \in Docker \ CleanupLabel
  PROVE  val.raising = FALSE /\ val.required \subseteq PythonGates
BY DEF ValInv, ValTyped, Requested, CleanupLabel

\* Where the image lifecycle leads.
LEMMA AfterTheImage ==
  ASSUME ValInv, val.pc \in Docker
  PROVE  /\ AfterImage \in {"raised", "compose_preflight", "verify"}
         /\ val.raising => AfterImage = "raised"
         /\ ~val.raising => AfterImage # "raised" /\ val.required \subseteq PythonGates
         /\ AfterImage = "verify" => val.required \cap ComposeGates = {} /\ ~DeferHealth
BY DEF AfterImage, ComposeRequested, DeferHealth, ComposeGates, ValInv, ValTyped, Requested

\* The steps of the image lifecycle keep the report in order.
LEMMA ImageSteps ==
  ASSUME ValInv, ImageLifecycle
  PROVE  ValInv'
<1> USE DEF At
<1>0. /\ {"docker-build", "container-non-root", "container-health", "docker-cleanup"} \subseteq DockerName
      /\ \A n \in {"docker-build", "container-non-root", "container-health", "docker-cleanup"} :
           n \notin ByProject
  BY TheNames
<1>1. /\ ImageRequested \subseteq val.required
      /\ (DeferHealth => "container-health" \notin ImageRequested)
      /\ (~DeferHealth => ImageRequested = val.required)
      /\ "container-non-root" \in val.required => "container-non-root" \in ImageRequested
  BY DEF ImageRequested
<1>2. /\ ByImage \ {"docker-cleanup"}
           = ByProject \cup {"docker-build", "container-non-root"}
                       \cup (IF DeferHealth THEN {} ELSE {"container-health"})
      /\ ByImage = (ByImage \ {"docker-cleanup"}) \cup {"docker-cleanup"}
  BY <1>0 DEF ByImage
<1>3. /\ \A label \in ImageStages \cup {"image_preflight", "compose_preflight"} : label \in Docker
      /\ \A label \in ImageTry \cup {"image_preflight"} : label \in Docker \ CleanupLabel
      /\ \A label \in ImageCleanup : label \in CleanupLabel /\ label \in Docker
  BY DEF Docker, ImageStages, ImageTry, ImageCleanup, CleanupLabel, ComposeCleanup
<1>4. IsReport(<<>>, {}) /\ {} \in SUBSET DockerName
  BY NoEntry
<1>5. ASSUME ImagePreflight PROVE ValInv'
  <2>1. val.pc = "image_preflight" /\ val.pc \in Docker \ CleanupLabel
    BY <1>3, <1>5 DEF ImagePreflight
  <2>2. CASE Move("build", <<>>)
    <3>1. "build" \in Docker /\ Upto("build") = Upto(val.pc)
      BY <1>3, <2>1, TheNames DEF ImageTry
    <3> QED
      BY <1>4, <2>1, <2>2, <3>1, NotRaising, MoveAdvances
  <2>3. CASE Move(AfterImage, <<Verdict("docker-build", FALSE)>> \o ImageSkips
                              \o <<Verdict("docker-cleanup", TRUE)>>)
    <3> DEFINE E == <<Verdict("docker-build", FALSE)>> \o ImageSkips \o <<Verdict("docker-cleanup", TRUE)>>
               M == {"docker-build"} \cup (ImageRequested \cap {"container-non-root", "container-health"})
                    \cup {"docker-cleanup"}
    <3>1. IsReport(E, M) /\ M \in SUBSET DockerName
      BY <1>0, BuildFailedReport
    <3>2. /\ AfterImage \in {"compose_preflight", "verify"}
          /\ AfterImage = "verify" => val.required \cap ComposeGates = {} /\ ~DeferHealth
          /\ val.raising = FALSE /\ val.required \subseteq PythonGates
      BY <2>1, AfterTheImage, NotRaising
    <3>3. AfterImage \in Docker \cup Ending
      BY <1>3, <3>2 DEF Ending
    <3>4. Upto(val.pc) = ByProject
      BY <2>1, TheNames
    <3>5. M \cap ByProject = {}
      BY <1>0
    <3>6. ByProject \cup M \subseteq Upto(AfterImage) /\ val.required \cap Upto(AfterImage) \subseteq ByProject \cup M
      <4>1. CASE AfterImage = "compose_preflight"
        <5>1. Upto(AfterImage) = ByImage
          BY <4>1, TheNames
        <5> QED
          BY <1>0, <1>1, <1>2, <5>1
      <4>2. CASE AfterImage = "verify"
        <5>1. Upto(AfterImage) = ByProject \cup DockerName
          BY <3>2, <4>2, TheLastNames DEF Ending
        <5> QED
          BY <1>1, <3>2, <4>2, <5>1 DEF DockerName, DeliveryGates, ImageGates
      <4> QED
        BY <3>2, <4>1, <4>2
    <3>7. AfterImage \notin {"start", "start_owned", "poll"}
      BY <3>2
    <3> HIDE DEF E, M
    <3>8. Move(AfterImage, E)
      BY <2>3 DEF E
    <3> QED
      BY <2>1, <3>1, <3>2, <3>3, <3>4, <3>5, <3>6, <3>7, <3>8, MoveAdvances
  <2> QED
    BY <1>5, <2>2, <2>3 DEF ImagePreflight
<1>6. ASSUME val.pc \in {"build", "build_owned"}, BuildFailed PROVE ValInv'
  <2> DEFINE E == <<Verdict("docker-build", FALSE)>> \o ImageSkips
             M == {"docker-build"} \cup (ImageRequested \cap {"container-non-root", "container-health"})
  <2>1. IsReport(E, M) /\ M \in SUBSET DockerName
    BY <1>0, BuildFailedReport
  <2>2. val.pc \in Docker \ CleanupLabel /\ val.raising = FALSE
    BY <1>3, <1>6, NotRaising DEF ImageTry
  <2>3. Upto(val.pc) = ByProject /\ Upto("own_container") = ByImage \ {"docker-cleanup"}
    BY <1>6, TheNames DEF ImageCleanup
  <2>4. M \cap ByProject = {}
    BY <1>0
  <2>5. /\ ByProject \cup M \subseteq ByImage \ {"docker-cleanup"}
        /\ val.required \cap (ByImage \ {"docker-cleanup"}) \subseteq ByProject \cup M
    BY <1>0, <1>1, <1>2
  <2>6. "own_container" \in Docker /\ "own_container" \notin {"start", "start_owned", "poll"}
    BY <1>3 DEF ImageCleanup
  <2>7. Move("own_container", E)
    BY <1>6 DEF BuildFailed
  <2> HIDE DEF E, M
  <2> QED
    BY <2>1, <2>2, <2>3, <2>4, <2>5, <2>6, <2>7, MoveAdvances
<1>7. ASSUME BuildImage PROVE ValInv'
  <2>1. val.pc = "build" /\ val.pc \in Docker \ CleanupLabel /\ "build_owned" \in Docker
    BY <1>3, <1>7 DEF BuildImage, ImageTry
  <2>2. CASE Move("build_owned", <<>>)
    <3>1. Upto("build_owned") = Upto(val.pc)
      BY <2>1, TheNames
    <3> QED
      BY <1>4, <2>1, <2>2, <3>1, NotRaising, MoveAdvances
  <2> QED
    BY <1>6, <1>7, <2>1, <2>2 DEF BuildImage
<1>8. ASSUME CheckBuilt PROVE ValInv'
  <2>1. val.pc = "build_owned" /\ val.pc \in Docker \ CleanupLabel
    BY <1>3, <1>8 DEF CheckBuilt, ImageTry
  <2>2. CASE Move(AfterBuild, <<Verdict("docker-build", TRUE)>>)
    <3>1. IsReport(<<Verdict("docker-build", TRUE)>>, {"docker-build"})
      BY <1>0, OneVerdict
    <3>2. AfterBuild \in {"non_root", "start", "own_container"} /\ AfterBuild \in Docker
      BY <1>3 DEF AfterBuild, ImageTry, ImageCleanup
    <3>3. Upto(val.pc) = ByProject /\ {"docker-build"} \cap ByProject = {}
      BY <1>0, <2>1, TheNames
    <3>4. /\ ByProject \cup {"docker-build"} \subseteq Upto(AfterBuild)
          /\ val.required \cap Upto(AfterBuild) \subseteq ByProject \cup {"docker-build"}
          /\ AfterBuild = "start" => ~DeferHealth
      <4>1. CASE AfterBuild = "non_root"
        BY <4>1, TheNames
      <4>2. CASE AfterBuild = "start"
        <5>1. Upto(AfterBuild) = ByProject \cup {"docker-build", "container-non-root"}
          BY <4>2, TheNames
        <5>2. "container-non-root" \notin val.required /\ "container-health" \in ImageRequested
          BY <1>1, <4>2 DEF AfterBuild
        <5> QED
          BY <1>1, <5>1, <5>2
      <4>3. CASE AfterBuild = "own_container"
        <5>1. Upto(AfterBuild) = ByImage \ {"docker-cleanup"}
          BY <4>3, TheNames DEF ImageCleanup
        <5>2. "container-non-root" \notin val.required /\ "container-health" \notin ImageRequested
          BY <1>1, <4>3 DEF AfterBuild
        <5> QED
          BY <1>1, <1>2, <4>3, <5>1, <5>2
      <4> QED
        BY <3>2, <4>1, <4>2, <4>3
    <3> QED
      BY <1>0, <2>1, <2>2, <3>1, <3>2, <3>3, <3>4, NotRaising, MoveAdvances
  <2> QED
    BY <1>6, <1>8, <2>1, <2>2 DEF CheckBuilt
<1>9. ASSUME NonRoot PROVE ValInv'
  <2>1. val.pc = "non_root" /\ val.pc \in Docker \ CleanupLabel /\ val.raising = FALSE
    BY <1>3, <1>9, NotRaising DEF NonRoot, ImageTry
  <2>2. Upto(val.pc) = ByProject \cup {"docker-build"}
    BY <2>1, TheNames
  <2>3. "own_container" \in Docker /\ Upto("own_container") = ByImage \ {"docker-cleanup"}
    BY <1>3, TheNames DEF ImageCleanup
  <2>4. ASSUME NEW label \in {"start", "own_container"},
               label = (IF "container-health" \in ImageRequested THEN "start" ELSE "own_container"),
               Move(label, <<Verdict("container-non-root", TRUE)>>)
        PROVE  ValInv'
    <3>1. IsReport(<<Verdict("container-non-root", TRUE)>>, {"container-non-root"})
      BY <1>0, OneVerdict
    <3>2. label \in Docker /\ (label = "start" => ~DeferHealth)
      BY <1>1, <1>3, <2>3, <2>4 DEF ImageTry
    <3>3. {"container-non-root"} \cap Upto(val.pc) = {}
      BY <1>0, <2>2
    <3>4. /\ Upto(val.pc) \cup {"container-non-root"} \subseteq Upto(label)
          /\ val.required \cap Upto(label) \subseteq Upto(val.pc) \cup {"container-non-root"}
      <4>1. CASE label = "start"
        <5>1. Upto(label) = ByProject \cup {"docker-build", "container-non-root"}
          BY <4>1, TheNames
        <5> QED
          BY <2>2, <5>1
      <4>2. CASE label = "own_container"
        BY <1>1, <1>2, <2>2, <2>3, <2>4, <4>2
      <4> QED
        BY <4>1, <4>2
    <3> QED
      BY <1>0, <2>1, <2>4, <3>1, <3>2, <3>3, <3>4, MoveAdvances
  <2>5. ASSUME Move("own_container", <<Verdict("container-non-root", FALSE)>>
                                     \o Skipped("container-health", ImageRequested))
        PROVE  ValInv'
    <3> DEFINE E == <<Verdict("container-non-root", FALSE)>> \o Skipped("container-health", ImageRequested)
               M == {"container-non-root"} \cup ({"container-health"} \cap ImageRequested)
    <3>1. IsReport(<<Verdict("container-non-root", FALSE)>>, {"container-non-root"})
      BY <1>0, OneVerdict
    <3>2. IsReport(Skipped("container-health", ImageRequested), {"container-health"} \cap ImageRequested)
      BY <1>0, SkippedOne, DeliveryNames DEF DockerName
    <3>3. {"container-non-root"} \cap ({"container-health"} \cap ImageRequested) = {}
      OBVIOUS
    <3>4. IsReport(E, M) /\ M \in SUBSET DockerName
      BY <1>0, <3>1, <3>2, <3>3, Joined
    <3>5. M \cap Upto(val.pc) = {}
      BY <1>0, <2>2
    <3>6. /\ Upto(val.pc) \cup M \subseteq Upto("own_container")
          /\ val.required \cap Upto("own_container") \subseteq Upto(val.pc) \cup M
      BY <1>1, <1>2, <2>2, <2>3
    <3> HIDE DEF E, M
    <3>7. Move("own_container", E)
      BY <2>5 DEF E
    <3> QED
      BY <2>1, <2>3, <3>4, <3>5, <3>6, <3>7, MoveAdvances
  <2> QED
    BY <1>9, <2>4, <2>5 DEF NonRoot
<1>10. ASSUME val.pc \in {"start", "start_owned", "poll"}
       PROVE  /\ val.pc \in Docker \ CleanupLabel /\ val.raising = FALSE /\ ~DeferHealth
              /\ Upto(val.pc) = ByProject \cup {"docker-build", "container-non-root"}
              /\ "own_container" \in Docker
              /\ Upto("own_container") = Upto(val.pc) \cup {"container-health"}
              /\ "container-health" \notin Upto(val.pc)
  <2>1. val.pc \in Docker \ CleanupLabel
    BY <1>3, <1>10 DEF ImageTry
  <2>2. ~DeferHealth
    BY <1>10 DEF ValInv, Requested
  <2>3. Upto("own_container") = ByImage \ {"docker-cleanup"} /\ "own_container" \in Docker
    BY <1>3, TheNames DEF ImageCleanup
  <2>4. Upto(val.pc) = ByProject \cup {"docker-build", "container-non-root"}
    BY <1>10, TheNames
  <2> QED
    BY <1>0, <1>2, <2>1, <2>2, <2>3, <2>4, NotRaising
<1>11. ASSUME NEW ok \in BOOLEAN, HealthIs(ok), val.pc \in {"start", "start_owned", "poll"} PROVE ValInv'
  <2>1. IsReport(<<Verdict("container-health", ok)>>, {"container-health"})
    BY <1>0, OneVerdict
  <2>2. Move("own_container", <<Verdict("container-health", ok)>>)
    BY <1>11 DEF HealthIs
  <2>3. {"container-health"} \in SUBSET DockerName /\ {"container-health"} \cap Upto(val.pc) = {}
    BY <1>0, <1>10, <1>11
  <2> QED
    BY <1>10, <1>11, <2>1, <2>2, <2>3, MoveAdvances
<1>12. ASSUME StartContainer PROVE ValInv'
  <2>1. val.pc = "start" /\ "start_owned" \in Docker
    BY <1>3, <1>12 DEF StartContainer, ImageTry
  <2>2. ValTyped /\ val.raising = FALSE
    BY <1>10, <2>1 DEF ValInv
  <2>3. CASE val' = [val EXCEPT !.pc = "start_owned", !.containerAttempted = TRUE]
    <3>1. ValTyped' /\ Turns("start_owned", val.checks, val.raising)
      BY <2>1, <2>2, <2>3, TheLabels DEF ValTyped, Turns
    <3>2. val.checks \in Seq(Check) /\ Upto("start_owned") = Upto(val.pc)
      BY <2>1, <2>2, TheNames DEF ValTyped
    <3>3. Fits(val.checks, "start_owned")
      BY <2>1, <2>2, <3>2 DEF Fits, ValInv, Named
    <3> QED
      BY <1>10, <2>1, <2>2, <3>1, <3>2, <3>3, Advance
  <2>4. CASE val' = [val EXCEPT !.pc = "own_container", !.containerAttempted = TRUE,
                                !.checks = Append(@, Verdict("container-health", FALSE))]
    <3> DEFINE v == Verdict("container-health", FALSE)
               c == val.checks \o <<v>>
    <3>1. IsReport(<<v>>, {"container-health"}) /\ ToSet(<<v>>) = {v} /\ v = Entry("container-health", "FAIL")
      BY <1>0, OneVerdict
    <3>2. val.checks \in Seq(Check) /\ v \in Check /\ v.name = "container-health"
      <4>1. val.checks \in Seq(Check) /\ "container-health" \in ReportName /\ "FAIL" \in Status
        BY <1>0, <2>2, DeliveryNames DEF ValTyped, DockerName
      <4> HIDE DEF v
      <4> QED
        BY <3>1, <4>1 DEF Check, Entry
    <3> HIDE DEF v
    <3>3. Append(val.checks, v) = c /\ c \in Seq(Check)
      BY <3>2
    <3>4. Fits(c, "own_container")
      <4>1. {"container-health"} \cap Upto(val.pc) = {}
        BY <1>10, <2>1
      <4> HIDE DEF c
      <4> QED
        BY <1>10, <2>1, <2>2, <3>1, <4>1, FitsOn DEF c
    <3>5. ToSet(c) = ToSet(val.checks) \cup {v}
      BY <3>1, <3>2, ToSetOfBoth
    <3> HIDE DEF c
    <3>6. val' = [val EXCEPT !.pc = "own_container", !.containerAttempted = TRUE, !.checks = c]
      BY <2>4, <3>3 DEF v
    <3>7. ValTyped' /\ Turns("own_container", c, val.raising)
      BY <1>10, <2>1, <2>2, <3>3, <3>6, TheLabels DEF ValTyped, Turns
    <3>8. \A e \in ToSet(c) : e \in ToSet(val.checks) \/ e.name \in DockerName
      BY <1>0, <3>2, <3>5
    <3>9. "own_container" \in Docker /\ val.raising \in BOOLEAN /\ val.pc \in Docker
      BY <1>10, <2>1, <2>2
    <3> QED
      BY <2>2, <3>3, <3>4, <3>7, <3>8, <3>9, Advance
  <2> QED
    BY <1>12, <2>3, <2>4 DEF StartContainer
<1>13. ASSUME CheckStarted PROVE ValInv'
  <2>1. val.pc = "start_owned" /\ "poll" \in Docker
    BY <1>3, <1>13 DEF CheckStarted, ImageTry
  <2>2. CASE Move("poll", <<>>)
    <3>1. Upto("poll") = Upto(val.pc)
      BY <2>1, TheNames
    <3> QED
      BY <1>4, <1>10, <2>1, <2>2, <3>1, MoveAdvances
  <2> QED
    BY <1>11, <1>13, <2>1, <2>2 DEF CheckStarted
<1>14. ASSUME Poll PROVE ValInv'
  <2>1. val.pc = "poll" /\ "poll" \in Docker
    BY <1>3, <1>14 DEF Poll, ImageTry
  <2>2. ValTyped /\ val.raising = FALSE
    BY <1>10, <2>1 DEF ValInv
  <2>3. CASE val.polls + 1 < PollAttempts /\ val' = [val EXCEPT !.polls = @ + 1]
    <3>1. val.polls + 1 \in 0 .. PollAttempts - 1
      BY <2>2, <2>3, BoundsAreNat DEF ValTyped
    <3>2. ValTyped' /\ Turns("poll", val.checks, val.raising)
      BY <2>1, <2>2, <2>3, <3>1 DEF ValTyped, Turns
    <3>3. val.checks \in Seq(Check)
      BY <2>2 DEF ValTyped
    <3>4. Fits(val.checks, "poll")
      BY <2>1, <2>2 DEF Fits, ValInv, Named
    <3> QED
      BY <1>10, <2>1, <2>2, <3>2, <3>3, <3>4, Advance
  <2> QED
    BY <1>11, <1>14, <2>1, <2>3 DEF Poll
<1>15. ASSUME NEW from \in ImageCleanup, NEW to \in ImageCleanup, val.pc = from, Move(to, <<>>)
       PROVE  ValInv'
  <2>1. Upto(from) = Upto(to)
    BY TheNames
  <2>2. to \in CleanupLabel /\ to \in Docker /\ from \in Docker /\ to \notin {"start", "start_owned", "poll"}
    BY <1>3 DEF ImageCleanup
  <2> QED
    BY <1>4, <1>15, <2>1, <2>2, MoveAdvances
<1>16. ASSUME ImageResidue PROVE ValInv'
  <2>1. PICK absent \in BOOLEAN : Move(AfterImage, <<Verdict("docker-cleanup", absent)>>)
    BY <1>16 DEF ImageResidue
  <2>2. val.pc = "image_residue" /\ val.pc \in Docker
    BY <1>3, <1>16 DEF ImageResidue, ImageCleanup
  <2>3. IsReport(<<Verdict("docker-cleanup", absent)>>, {"docker-cleanup"})
    BY <1>0, OneVerdict
  <2>4. /\ AfterImage \in {"raised", "compose_preflight", "verify"}
        /\ val.raising => AfterImage = "raised"
        /\ ~val.raising => AfterImage # "raised" /\ val.required \subseteq PythonGates
        /\ AfterImage = "verify" => val.required \cap ComposeGates = {} /\ ~DeferHealth
    BY <2>2, AfterTheImage
  <2>5. AfterImage \in Docker \cup Ending \cup {"raised"} /\ AfterImage \notin {"start", "start_owned", "poll"}
        /\ "raised" \in CleanupLabel
    BY <1>3, <2>4 DEF Ending, CleanupLabel
  <2>6. Upto(val.pc) = ByImage \ {"docker-cleanup"}
    BY <2>2, TheNames DEF ImageCleanup
  <2>7. ASSUME ~val.raising
        PROVE  /\ {"docker-cleanup"} \cap Upto(val.pc) = {}
               /\ Upto(val.pc) \cup {"docker-cleanup"} \subseteq Upto(AfterImage)
               /\ val.required \cap Upto(AfterImage) \subseteq Upto(val.pc) \cup {"docker-cleanup"}
    <3>1. CASE AfterImage = "compose_preflight"
      <4>1. Upto(AfterImage) = ByImage
        BY <3>1, TheNames
      <4> QED
        BY <1>2, <2>6, <4>1
    <3>2. CASE AfterImage = "verify"
      <4>1. Upto(AfterImage) = ByProject \cup DockerName
        BY <2>4, <2>7, <3>2, TheLastNames DEF Ending
      <4>2. DockerName = {"docker-build", "container-non-root", "container-health", "docker-cleanup"}
                         \cup ComposeGates
        BY DEF DockerName, DeliveryGates, ImageGates
      <4> QED
        BY <1>2, <2>4, <2>6, <3>2, <4>1, <4>2
    <3> QED
      BY <2>4, <2>7, <3>1, <3>2
  <2> QED
    BY <1>0, <2>1, <2>2, <2>3, <2>4, <2>5, <2>7, MoveAdvances
<1>17. ASSUME OwnContainer PROVE ValInv'
  <2>1. val.pc = "own_container" /\ (Move("own_image", <<>>) \/ Move("remove_container", <<>>))
    BY <1>17 DEF OwnContainer
  <2> QED
    BY <1>15, <2>1 DEF ImageCleanup
<1>18. ASSUME OwnImage PROVE ValInv'
  <2>1. val.pc = "own_image" /\ (Move("remove_image", <<>>) \/ Move("image_residue", <<>>))
    BY <1>18 DEF OwnImage
  <2> QED
    BY <1>15, <2>1 DEF ImageCleanup
<1>19. ASSUME RemoveResource("container", "remove_container", "own_image") PROVE ValInv'
  BY <1>15, <1>19 DEF RemoveResource, ImageCleanup
<1>20. ASSUME RemoveResource("image", "remove_image", "image_residue") PROVE ValInv'
  BY <1>15, <1>20 DEF RemoveResource, ImageCleanup
<1> QED
  BY <1>5, <1>7, <1>8, <1>9, <1>12, <1>13, <1>14, <1>16, <1>17, <1>18, <1>19, <1>20 DEF ImageLifecycle

\* The end of the compose lifecycle: every requested gate is in the report now.
LEMMA ComposeEndsFit ==
  ASSUME ValInv, val.pc \in {"compose_preflight", "compose_residue"},
         NEW E, NEW M \in SUBSET DockerName, IsReport(E, M), ComposeEnds(E),
         M \cap Upto(val.pc) = {}, val.required \cap ComposeGates \subseteq Upto(val.pc) \cup M,
         "container-health" \notin M
  PROVE  /\ ValInv'
         /\ val'.pc \in {"raised", "verify"} /\ ToSet(val.checks) \subseteq ToSet(val'.checks)
         /\ val'.pc = "verify" => ToSet(E) \subseteq ToSet(val'.checks)
<1> USE DEF At
<1>1. val.pc \in Docker
  BY DEF Docker, ComposeStages, ComposeCleanup
<1>2. CASE val.raising
  <2>1. Move("raised", <<>>)
    BY <1>2 DEF ComposeEnds
  <2>2. "raised" \in CleanupLabel
    BY DEF CleanupLabel
  <2>3. IsReport(<<>>, {}) /\ {} \in SUBSET DockerName
    BY NoEntry
  <2>4. val'.pc = "raised" /\ ToSet(val.checks) \subseteq ToSet(val'.checks)
    BY <2>1, <2>3, MoveKeeps DEF ValInv, IsReport
  <2> QED
    BY <1>1, <1>2, <2>1, <2>2, <2>3, <2>4, MoveAdvances
<1>3. CASE ~val.raising
  <2> DEFINE N == Names(val.checks)
             s == val.checks \o E
             c == WithDeferredHealth(s)
             D == IF DeferHealth THEN {"container-health"} ELSE {}
  <2>1. /\ val.required \subseteq PythonGates /\ ValTyped /\ val.raising = FALSE
        /\ val.pc \notin {"raised"} /\ val.checks \in Seq(Check) /\ E \in Seq(Check)
    BY <1>1, <1>3 DEF ValInv, ValTyped, Requested, IsReport
  <2>2. IsReport(val.checks, N) /\ N \subseteq Upto(val.pc) /\ val.required \cap Upto(val.pc) \subseteq N
    BY <1>3, <2>1 DEF ValInv, Named, IsReport
  <2>3. /\ ByImage \subseteq Upto(val.pc)
        /\ Upto(val.pc) \subseteq ByImage \cup {"compose-config", "compose-up", "compose-health"}
    BY TheNames DEF ComposeCleanup
  <2>4. /\ DeferHealth => "container-health" \notin ByImage /\ "compose-health" \in val.required
        /\ ByImage \subseteq ByProject \cup DockerName
        /\ PythonGates \subseteq ByImage \cup ComposeGates \cup D
    <3>1. /\ "container-health" \notin ByProject
          /\ PythonGates = ToSet(ProjectGates) \cup ImageGates \cup ComposeGates
      BY TheNames DEF PythonGates, DeliveryGates
    <3> QED
      BY <3>1 DEF ByImage, DeferHealth, DockerName, DeliveryGates, ImageGates, ByProject
  <2> HIDE DEF N, D
  <2>5. IsReport(s, N \cup M) /\ ToSet(s) = ToSet(val.checks) \cup ToSet(E)
    <3>1. N \cap M = {}
      BY <2>2
    <3> QED
      BY <2>2, <3>1, Joined
  <2>6. DeferHealth => "container-health" \notin N \cup M /\ "compose-health" \in N \cup M
    BY <2>2, <2>3, <2>4 DEF ComposeGates
  <2> HIDE DEF s
  <2>7. /\ IsReport(c, N \cup M \cup D)
        /\ \A e \in ToSet(c) : e \in ToSet(s) \/ e.name = "container-health"
        /\ ToSet(s) \subseteq ToSet(c)
    BY <2>5, <2>6, DeferredHealthReport DEF D
  <2> HIDE DEF c
  <2>8. \A e \in ToSet(c) : e \in ToSet(val.checks) \/ e.name \in DockerName
    <3>1. \A e \in ToSet(E) : e.name \in M
      BY NamesOfEntries DEF IsReport
    <3> QED
      BY <2>5, <2>7, <3>1 DEF DockerName, DeliveryGates, ImageGates
  <2>9. Fits(c, "verify")
    <3>1. Upto("verify") = ByProject \cup DockerName
      BY <2>1, TheLastNames DEF Ending
    <3>2. N \cup M \cup D \subseteq ByProject \cup DockerName
      BY <2>2, <2>3, <2>4 DEF D, DockerName, DeliveryGates, ImageGates, ComposeGates
    <3>3. val.required \subseteq N \cup M \cup D
      <4> SUFFICES ASSUME NEW n \in val.required PROVE n \in N \cup M \cup D
        OBVIOUS
      <4>1. n \in ByImage \cup ComposeGates \cup D
        BY <2>1, <2>4
      <4> QED
        BY <2>2, <2>3, <4>1
    <3> QED
      BY <2>7, <3>1, <3>2, <3>3 DEF Fits, IsReport
  <2>10. c \in Seq(Check)
    BY <2>7 DEF IsReport
  <2>11. val' = [val EXCEPT !.pc = "verify", !.checks = c]
    BY <1>3 DEF ComposeEnds, c, s
  <2>12. "verify" \in Docker \cup Ending \cup {"raised"} /\ "verify" \in Label
    BY DEF Ending, Label
  <2>13. ValTyped' /\ Turns("verify", c, val.raising)
    BY <2>1, <2>10, <2>11, <2>12 DEF ValTyped, Turns
  <2>14. val'.pc = "verify" /\ val'.checks = c
    BY <2>13 DEF Turns
  <2>15. ValInv'
    BY <1>1, <2>1, <2>8, <2>9, <2>10, <2>12, <2>13, Advance
  <2> QED
    BY <2>5, <2>7, <2>14, <2>15
<1> QED
  BY <1>2, <1>3

\* The steps of the compose lifecycle keep the report in order.
LEMMA ComposeSteps ==
  ASSUME ValInv, ComposeLifecycle
  PROVE  ValInv'
<1> USE DEF At
<1>0. /\ {"compose-config", "compose-up", "compose-health", "compose-cleanup"} \subseteq DockerName
      /\ {"compose-config", "compose-up", "compose-health", "compose-cleanup"} \cap ByImage = {}
      /\ ComposeGates = {"compose-config", "compose-up", "compose-health", "compose-cleanup"}
  BY TheNames DEF ByImage, ComposeGates
<1>1. /\ \A label \in ComposeTry \cup {"compose_preflight"} : label \in Docker \ CleanupLabel
      /\ \A label \in ComposeCleanup : label \in CleanupLabel /\ label \in Docker
      /\ \A label \in ComposeStages : label \notin {"start", "start_owned", "poll"}
  BY DEF Docker, ComposeStages, ComposeTry, ImageCleanup, CleanupLabel, ComposeCleanup
<1>2. IsReport(<<>>, {}) /\ {} \in SUBSET DockerName
  BY NoEntry
<1>3. ASSUME ComposePreflight PROVE ValInv'
  <2>1. val.pc = "compose_preflight" /\ val.pc \in Docker \ CleanupLabel /\ Upto(val.pc) = ByImage
    BY <1>1, <1>3, TheNames DEF ComposePreflight
  <2>2. CASE Move("compose_config", <<>>)
    <3>1. Upto("compose_config") = ByImage /\ "compose_config" \in Docker
      BY <1>1, TheNames DEF ComposeTry
    <3> QED
      BY <1>2, <2>1, <2>2, <3>1, NotRaising, MoveAdvances
  <2>3. CASE ComposeEnds(<<Verdict("compose-config", FALSE)>> \o ComposeSkips
                         \o <<Verdict("compose-cleanup", TRUE)>>)
    <3> DEFINE E == <<Verdict("compose-config", FALSE)>> \o ComposeSkips
                    \o <<Verdict("compose-cleanup", TRUE)>>
               M == {"compose-config"} \cup (val.required \cap {"compose-up", "compose-health"})
                    \cup {"compose-cleanup"}
    <3>1. IsReport(E, M) /\ M \in SUBSET DockerName
      BY <1>0, ConfigFailedReport
    <3>2. M \cap Upto(val.pc) = {} /\ "container-health" \notin M /\ val.required \cap ComposeGates \subseteq M
      BY <1>0, <2>1
    <3> HIDE DEF E, M
    <3>3. ComposeEnds(E)
      BY <2>3 DEF E
    <3> QED
      BY <2>1, <3>1, <3>2, <3>3, ComposeEndsFit
  <2> QED
    BY <1>3, <2>2, <2>3 DEF ComposePreflight
<1>4. ASSUME ComposeConfig PROVE ValInv'
  <2>1. /\ val.pc = "compose_config" /\ val.pc \in Docker \ CleanupLabel /\ Upto(val.pc) = ByImage
        /\ val.raising = FALSE
    BY <1>1, <1>4, TheNames, NotRaising DEF ComposeConfig, ComposeTry
  <2>2. CASE Move("up", <<Verdict("compose-config", TRUE)>>)
    <3>1. IsReport(<<Verdict("compose-config", TRUE)>>, {"compose-config"})
      BY <1>0, OneVerdict
    <3>2. "up" \in Docker /\ Upto("up") = ByImage \cup {"compose-config"}
      BY <1>1, TheNames DEF ComposeTry
    <3>3. {"compose-config"} \in SUBSET DockerName /\ {"compose-config"} \cap Upto(val.pc) = {}
      BY <1>0, <2>1
    <3> QED
      BY <2>1, <2>2, <3>1, <3>2, <3>3, MoveAdvances
  <2>3. CASE Move("compose_residue", <<Verdict("compose-config", FALSE)>> \o ComposeSkips)
    <3> DEFINE E == <<Verdict("compose-config", FALSE)>> \o ComposeSkips
               M == {"compose-config"} \cup (val.required \cap {"compose-up", "compose-health"})
    <3>1. IsReport(E, M) /\ M \in SUBSET DockerName
      BY <1>0, ConfigFailedReport
    <3>2. /\ "compose_residue" \in Docker
          /\ Upto("compose_residue") = ByImage \cup {"compose-config", "compose-up", "compose-health"}
          /\ "compose_residue" \notin {"start", "start_owned", "poll"}
      BY <1>1, TheNames DEF ComposeCleanup
    <3>3. /\ M \cap Upto(val.pc) = {} /\ Upto(val.pc) \cup M \subseteq Upto("compose_residue")
          /\ val.required \cap Upto("compose_residue") \subseteq Upto(val.pc) \cup M
      BY <1>0, <2>1, <3>2
    <3> HIDE DEF E, M
    <3>4. Move("compose_residue", E)
      BY <2>3 DEF E
    <3> QED
      BY <2>1, <3>1, <3>2, <3>3, <3>4, MoveAdvances
  <2> QED
    BY <1>4, <2>2, <2>3 DEF ComposeConfig
<1>5. ASSUME ComposeUp PROVE ValInv'
  <2>1. /\ val.pc = "up" /\ val.pc \in Docker \ CleanupLabel /\ Upto(val.pc) = ByImage \cup {"compose-config"}
        /\ val.raising = FALSE
    BY <1>1, <1>5, TheNames, NotRaising DEF ComposeUp, ComposeTry
  <2>2. CASE Move("compose_health", <<Verdict("compose-up", TRUE)>>)
    <3>1. IsReport(<<Verdict("compose-up", TRUE)>>, {"compose-up"})
      BY <1>0, OneVerdict
    <3>2. "compose_health" \in Docker /\ Upto("compose_health") = ByImage \cup {"compose-config", "compose-up"}
      BY <1>1, TheNames DEF ComposeTry
    <3>3. {"compose-up"} \in SUBSET DockerName /\ {"compose-up"} \cap Upto(val.pc) = {}
      BY <1>0, <2>1
    <3>4. Upto(val.pc) \cup {"compose-up"} = Upto("compose_health")
      BY <2>1, <3>2
    <3> QED
      BY <2>1, <2>2, <3>1, <3>2, <3>3, <3>4, MoveAdvances
  <2>3. CASE Move("down", <<Verdict("compose-up", FALSE)>> \o Skipped("compose-health", val.required))
    <3> DEFINE E == <<Verdict("compose-up", FALSE)>> \o Skipped("compose-health", val.required)
               M == {"compose-up"} \cup ({"compose-health"} \cap val.required)
    <3>1. IsReport(<<Verdict("compose-up", FALSE)>>, {"compose-up"})
      BY <1>0, OneVerdict
    <3>2. IsReport(Skipped("compose-health", val.required), {"compose-health"} \cap val.required)
      BY <1>0, SkippedOne, DeliveryNames DEF DockerName
    <3>3. {"compose-up"} \cap ({"compose-health"} \cap val.required) = {}
      OBVIOUS
    <3>4. IsReport(E, M) /\ M \in SUBSET DockerName
      BY <1>0, <3>1, <3>2, <3>3, Joined
    <3>5. /\ "down" \in Docker /\ "down" \notin {"start", "start_owned", "poll"}
          /\ Upto("down") = ByImage \cup {"compose-config", "compose-up", "compose-health"}
      BY <1>1, TheNames DEF ComposeCleanup
    <3>6. /\ M \cap Upto(val.pc) = {} /\ Upto(val.pc) \cup M \subseteq Upto("down")
          /\ val.required \cap Upto("down") \subseteq Upto(val.pc) \cup M
      BY <1>0, <2>1, <3>5
    <3> HIDE DEF E, M
    <3>7. Move("down", E)
      BY <2>3 DEF E
    <3> QED
      BY <2>1, <3>4, <3>5, <3>6, <3>7, MoveAdvances
  <2> QED
    BY <1>5, <2>2, <2>3 DEF ComposeUp
<1>6. ASSUME ComposeHealth PROVE ValInv'
  <2>1. /\ val.pc = "compose_health" /\ val.pc \in Docker \ CleanupLabel /\ val.raising = FALSE
        /\ Upto(val.pc) = ByImage \cup {"compose-config", "compose-up"}
    BY <1>1, <1>6, TheNames, NotRaising DEF ComposeHealth, ComposeTry
  <2>2. PICK ok \in BOOLEAN : Move("down", <<Verdict("compose-health", ok)>>)
    BY <1>6 DEF ComposeHealth
  <2>3. IsReport(<<Verdict("compose-health", ok)>>, {"compose-health"})
    BY <1>0, OneVerdict
  <2>4. /\ "down" \in Docker /\ "down" \notin {"start", "start_owned", "poll"}
        /\ Upto("down") = ByImage \cup {"compose-config", "compose-up", "compose-health"}
    BY <1>1, TheNames DEF ComposeCleanup
  <2>5. /\ {"compose-health"} \in SUBSET DockerName /\ {"compose-health"} \cap Upto(val.pc) = {}
        /\ Upto(val.pc) \cup {"compose-health"} = Upto("down")
    BY <1>0, <2>1, <2>4
  <2> QED
    BY <2>1, <2>2, <2>3, <2>4, <2>5, MoveAdvances
<1>7. ASSUME ComposeDown PROVE ValInv'
  <2>1. val.pc = "down" /\ Move("compose_residue", <<>>)
    BY <1>7 DEF ComposeDown
  <2>2. /\ "compose_residue" \in CleanupLabel /\ "compose_residue" \in Docker /\ "down" \in Docker
        /\ Upto("down") = Upto("compose_residue")
    BY <1>1, TheNames DEF ComposeCleanup
  <2> QED
    BY <1>2, <2>1, <2>2, MoveAdvances
<1>8. ASSUME ComposeResidue PROVE ValInv'
  <2>1. val.pc = "compose_residue"
    BY <1>8 DEF ComposeResidue
  <2>2. PICK absent \in BOOLEAN : ComposeEnds(<<Verdict("compose-cleanup", absent)>>)
    BY <1>8 DEF ComposeResidue
  <2>3. IsReport(<<Verdict("compose-cleanup", absent)>>, {"compose-cleanup"})
    BY <1>0, OneVerdict
  <2>4. Upto(val.pc) = ByImage \cup {"compose-config", "compose-up", "compose-health"}
    BY <2>1, TheNames DEF ComposeCleanup
  <2>5. /\ {"compose-cleanup"} \in SUBSET DockerName /\ {"compose-cleanup"} \cap Upto(val.pc) = {}
        /\ val.required \cap ComposeGates \subseteq Upto(val.pc) \cup {"compose-cleanup"}
        /\ "container-health" \notin {"compose-cleanup"}
    BY <1>0, <2>4
  <2> QED
    BY <2>1, <2>2, <2>3, <2>5, ComposeEndsFit
<1> QED
  BY <1>3, <1>4, <1>5, <1>6, <1>7, <1>8 DEF ComposeLifecycle

\* A docker command that raises keeps the report as it is.
LEMMA RaisingSteps ==
  ASSUME ValInv, CommandRaises
  PROVE  ValInv'
<1> USE DEF At
<1>1. ValTyped /\ val.checks \in Seq(Check)
  BY DEF ValInv, ValTyped
<1>2. \A label \in ImageTry \cup ComposeTry \cup Unprotected \cup {"own_container"} : label \in Docker
  BY DEF Docker, ImageStages, ComposeStages, ImageTry, ComposeTry, Unprotected, ImageCleanup, ComposeCleanup
<1>3. "own_container" \in CleanupLabel /\ "compose_residue" \in CleanupLabel /\ "down" \in CleanupLabel
      /\ "raised" \in CleanupLabel
  BY DEF CleanupLabel, ImageCleanup, ComposeCleanup
<1>4. \A label \in CleanupLabel : /\ label \in Label /\ label \in Docker \cup Ending \cup {"raised"}
                                  /\ label \notin {"start", "start_owned", "poll"}
  BY TheLabels DEF CleanupLabel, ImageCleanup, ComposeCleanup
<1>5. ASSUME val.pc \in Docker, NEW label \in CleanupLabel, NEW r \in BOOLEAN, r \/ label = "raised",
             ValTyped', Turns(label, val.checks, r)
      PROVE  ValInv'
  BY <1>1, <1>4, <1>5, Advance
<1>6. CASE val.pc \in ImageTry /\ val' = [val EXCEPT !.pc = "own_container", !.raising = TRUE,
                                                    !.containerAttempted = @ \/ val.pc = "start"]
  <2>1. ValTyped' /\ Turns("own_container", val.checks, TRUE)
    BY <1>1, <1>3, <1>4, <1>6 DEF ValTyped, Turns
  <2> QED
    BY <1>2, <1>3, <1>5, <1>6, <2>1
<1>7. CASE val.pc \in ComposeTry /\ val' = [val EXCEPT !.pc = IF val.pc = "compose_config" THEN "compose_residue"
                                                             ELSE "down", !.raising = TRUE]
  <2>1. PICK label \in {"compose_residue", "down"} : val' = [val EXCEPT !.pc = label, !.raising = TRUE]
    BY <1>7
  <2>2. ValTyped' /\ Turns(label, val.checks, TRUE)
    BY <1>1, <1>3, <1>4, <2>1 DEF ValTyped, Turns
  <2> QED
    BY <1>2, <1>3, <1>5, <1>7, <2>2
<1>8. CASE val.pc \in Unprotected \cup {"own_container"} /\ val' = [val EXCEPT !.pc = "raised"]
  <2>1. ValTyped' /\ Turns("raised", val.checks, val.raising) /\ val.raising \in BOOLEAN
    BY <1>1, <1>3, <1>4, <1>8 DEF ValTyped, Turns
  <2> QED
    BY <1>2, <1>3, <1>5, <1>8, <2>1
<1> QED
  BY <1>6, <1>7, <1>8 DEF CommandRaises

----------------------------------------------------------------------------
(***************************************************************************)
(* The gates before the docker gates, and the end.                         *)
(***************************************************************************)

\* PrerequisitesPassed, of a report.
InOrder(s) ==
  \A i, j \in DOMAIN s :
    /\ s[j].status # "SKIPPED"
    /\ \/ Rank(s[i].name) < Rank(s[j].name)
       \/ Rank(s[i].name) = 3 /\ Rank(s[j].name) = 3 /\ i < j
    => s[i].status = "PASS"

\* It is the property, of the report that is being built.
LEMMA InOrderMeans == PrerequisitesPassed <=> InOrder(val.checks)
BY DEF PrerequisitesPassed, InOrder

\* Every gate has a rank.
LEMMA RankIsNat == \A n : Rank(n) \in 0 .. 4
BY DEF Rank

\* A report stays in order when an entry of the same or a later phase comes
\* that was run only if the entries before it passed.
LEMMA OneMoreInOrder ==
  ASSUME NEW s \in Seq(Check), InOrder(s), NEW e \in Check,
         \A d \in ToSet(s) : Rank(d.name) <= Rank(e.name),
         e.status # "SKIPPED" => PassedBelow(s, Rank(e.name)) /\ (Rank(e.name) = 3 => PassedBelow(s, 4))
  PROVE  InOrder(Append(s, e))
<1> DEFINE t == Append(s, e)
           m == Len(s)
<1>1. /\ m \in Nat /\ DOMAIN s = 1 .. m /\ DOMAIN t = 1 .. m + 1
      /\ \A i \in 1 .. m : t[i] = s[i] /\ t[m + 1] = e
  OBVIOUS
<1>2. t[m + 1] = e
  OBVIOUS
<1> HIDE DEF t, m
<1>3. ASSUME NEW i \in DOMAIN t, NEW j \in DOMAIN t, t[j].status # "SKIPPED",
             \/ Rank(t[i].name) < Rank(t[j].name)
             \/ Rank(t[i].name) = 3 /\ Rank(t[j].name) = 3 /\ i < j
      PROVE  t[i].status = "PASS"
  <2>1. Rank(t[i].name) \in 0 .. 4 /\ Rank(t[j].name) \in 0 .. 4 /\ Rank(e.name) \in 0 .. 4
    BY RankIsNat
  <2>2. CASE i \in DOMAIN s /\ j \in DOMAIN s
    BY <1>1, <1>3, <2>2 DEF InOrder
  <2>3. CASE i \in DOMAIN s /\ j = m + 1
    <3>1. t[i] = s[i] /\ t[i] \in ToSet(s) /\ t[j] = e
      BY <1>1, <1>2, <2>3 DEF ToSet
    <3> QED
      BY <1>3, <2>1, <3>1 DEF PassedBelow
  <2>4. CASE i = m + 1 /\ j \in DOMAIN s
    <3>1. t[j] \in ToSet(s) /\ t[i] = e /\ ~(i < j)
      BY <1>1, <1>2, <2>4 DEF ToSet
    <3>2. Rank(t[j].name) <= Rank(t[i].name)
      BY <3>1
    <3> QED
      BY <1>3, <2>1, <3>1, <3>2
  <2>5. CASE i = m + 1 /\ j = m + 1
    <3>1. i = j /\ ~(i < j)
      BY <1>1, <2>5
    <3> QED
      BY <1>3, <2>1, <3>1
  <2>6. \A k \in DOMAIN t : k \in DOMAIN s \/ k = m + 1
    BY <1>1
  <2> QED
    BY <2>2, <2>3, <2>4, <2>5, <2>6
<1> QED
  BY <1>3 DEF InOrder, t

\* And when docker gates that were skipped are added.
LEMMA SkipsInOrder ==
  ASSUME NEW s \in Seq(Check), InOrder(s), NEW t \in Seq(Check),
         \A e \in ToSet(t) : e.status = "SKIPPED" /\ e.name \in DockerName
  PROVE  InOrder(s \o t)
<1> DEFINE u == s \o t
           m == Len(s)
<1>1. /\ m \in Nat /\ DOMAIN s = 1 .. m /\ DOMAIN t = 1 .. Len(t) /\ DOMAIN u = 1 .. m + Len(t)
      /\ \A i \in 1 .. m : u[i] = s[i]
      /\ \A i \in 1 .. Len(t) : u[m + i] = t[i]
      /\ Len(t) \in Nat
  BY Places
<1> HIDE DEF u, m
<1>2. \A k \in DOMAIN u : k \in DOMAIN s \/ u[k] \in ToSet(t)
  <2> SUFFICES ASSUME NEW k \in DOMAIN u, k \notin DOMAIN s PROVE u[k] \in ToSet(t)
    OBVIOUS
  <2>1. k - m \in 1 .. Len(t) /\ k = m + (k - m)
    BY <1>1
  <2>2. u[k] = t[k - m]
    BY <1>1, <2>1
  <2> QED
    BY <1>1, <2>1, <2>2 DEF ToSet
<1>3. ASSUME NEW i \in DOMAIN u, NEW j \in DOMAIN u, u[j].status # "SKIPPED",
             \/ Rank(u[i].name) < Rank(u[j].name)
             \/ Rank(u[i].name) = 3 /\ Rank(u[j].name) = 3 /\ i < j
      PROVE  u[i].status = "PASS"
  <2>1. j \in DOMAIN s
    BY <1>2, <1>3
  <2>2. Rank(u[i].name) \in 0 .. 4 /\ Rank(u[j].name) \in 0 .. 4
    BY RankIsNat
  <2>3. i \in DOMAIN s
    <3>1. Rank(u[i].name) # 4
      BY <1>3, <2>2
    <3>2. u[i].name \notin DockerName
      BY <3>1, Ranks DEF DockerName
    <3> QED
      BY <1>2, <3>2
  <2>4. u[i] = s[i] /\ u[j] = s[j]
    BY <1>1, <2>1, <2>3
  <2> QED
    BY <1>3, <2>1, <2>3, <2>4 DEF InOrder
<1> QED
  BY <1>3 DEF InOrder, u

\* The static scan is the first entry.
LEMMA ScanSteps ==
  ASSUME ValInv, ScanStatic
  PROVE  ValInv'
<1> USE DEF At
<1>1. /\ val.pc = "static" /\ val.checks = <<>> /\ ValTyped /\ Requested /\ val.phase = "none" /\ ~val.phaseFailed
      /\ val.raising = FALSE
  BY DEF ScanStatic, ValInv, Passed, Requested, ValTyped, ImageCleanup, ComposeCleanup
<1>2. PICK ok \in BOOLEAN : Move("install", <<Verdict("static-safety", ok)>>)
  BY DEF ScanStatic
<1> DEFINE v == Verdict("static-safety", ok)
           c == <<v>>
<1>3. v \in Check /\ v.name = "static-safety"
  BY DEF Verdict, Entry, Check, ReportName, Status
<1> HIDE DEF v
<1>4. c \in Seq(Check) /\ DOMAIN c = {1} /\ c[1] = v /\ Len(c) = 1 /\ <<>> \o c = c
  BY <1>3
<1>5. val' = [val EXCEPT !.pc = "install", !.checks = c]
  BY <1>1, <1>2, <1>4 DEF Move, v
<1> HIDE DEF c
<1>6. ValTyped'
  BY <1>1, <1>4, <1>5 DEF ValTyped, Label
<1>7. /\ val'.pc = "install" /\ val'.checks = c /\ val'.required = val.required /\ val'.todo = val.todo
      /\ val'.raising = FALSE /\ val'.phase = "none" /\ ~val'.phaseFailed
  BY <1>1, <1>5 DEF ValTyped
<1>8. Requested'
  <2>1. AdapterGates(val.required)' = AdapterGates(val.required)
    BY <1>7 DEF AdapterGates
  <2> QED
    BY <1>1, <1>7, <2>1, TheLabels DEF Requested, Docker, ImageStages, ComposeStages, ImageTry, ComposeTry,
         ImageCleanup, ComposeCleanup
<1>9. Named'
  <2>1. Distinct(c) /\ Names(c) = {"static-safety"}
    BY <1>3, <1>4 DEF Distinct, Names
  <2>2. Upto("install")' = {"static-safety"}
    BY DEF Upto, ImageCleanup, ComposeCleanup
  <2> QED
    BY <1>7, <2>1, <2>2 DEF Named
<1>10. Passed'
  <2>1. "install" \notin Docker
    BY TheLabels
  <2> QED
    BY <1>3, <1>4, <1>7, <2>1 DEF Passed
<1>11. PrerequisitesPassed'
  <2>1. \A i, j \in DOMAIN c : i = j /\ ~(i < j)
    BY <1>4
  <2>2. \A n : ~(Rank(n) < Rank(n))
    BY RankIsNat
  <2> QED
    BY <1>7, <2>1, <2>2 DEF PrerequisitesPassed
<1> QED
  BY <1>6, <1>8, <1>9, <1>10, <1>11 DEF ValInv

\* The install is the second, run if the scan passed.
LEMMA InstallSteps ==
  ASSUME ValInv, Install
  PROVE  ValInv'
<1> USE DEF At
<1>1. /\ val.pc = "install" /\ ValTyped /\ Requested /\ val.phase = "none" /\ val.phaseFailed = FALSE
      /\ val.raising = FALSE /\ Len(val.checks) = 1 /\ val.checks[1].name = "static-safety"
  BY DEF Install, ValInv, Passed, Requested, ValTyped, ImageCleanup, ComposeCleanup
<1> DEFINE s == val.checks
<1>2. /\ s \in Seq(Check) /\ DOMAIN s = {1} /\ s[1] \in Check /\ Last(s) = s[1]
      /\ ToSet(s) = {s[1]} /\ Names(s) = {"static-safety"} /\ Distinct(s)
  <2>1. s \in Seq(Check) /\ DOMAIN s = 1 .. 1 /\ Last(s) = s[1]
    BY <1>1 DEF ValTyped, Last
  <2>2. DOMAIN s = {1}
    BY <2>1
  <2> QED
    BY <1>1, <2>1, <2>2 DEF ToSet, Names, Distinct
<1>3. PICK status \in Status : InstallIs(status) /\ (status # "SKIPPED" => s[1].status = "PASS")
  BY <1>2 DEF Install, Status
<1> DEFINE e == Entry("locked-install", status)
           c == Append(s, e)
<1>4. e \in Check /\ e.name = "locked-install" /\ e.status = status
  BY DEF Entry, Check, ReportName
<1>5. IsReport(c, {"static-safety", "locked-install"}) /\ ToSet(c) = {s[1], e}
  <2>1. IsReport(s, {"static-safety"}) /\ "locked-install" \in ReportName \ {"static-safety"}
    BY <1>2 DEF IsReport, ReportName
  <2> HIDE DEF s
  <2>2. /\ IsReport(Append(s, Entry("locked-install", status)), {"static-safety"} \cup {"locked-install"})
        /\ ToSet(Append(s, Entry("locked-install", status))) = ToSet(s) \cup {Entry("locked-install", status)}
    BY <2>1, JoinedByOne
  <2>3. {"static-safety"} \cup {"locked-install"} = {"static-safety", "locked-install"}
    OBVIOUS
  <2> QED
    BY <1>2, <2>2, <2>3
<1>6. val' = [val EXCEPT !.pc = "gates", !.blocking = status # "PASS", !.checks = c]
  BY <1>3 DEF InstallIs
<1> HIDE DEF e, c
<1>7. ValTyped'
  BY <1>1, <1>5, <1>6 DEF ValTyped, IsReport, Label
<1>8. /\ val'.pc = "gates" /\ val'.checks = c /\ val'.required = val.required /\ val'.todo = val.todo
      /\ val'.raising = FALSE /\ val'.phase = "none" /\ ~val'.phaseFailed /\ val'.blocking = (status # "PASS")
  BY <1>1, <1>6 DEF ValTyped
<1>9. Requested'
  <2>1. AdapterGates(val.required)' = AdapterGates(val.required)
    BY <1>8 DEF AdapterGates
  <2> QED
    BY <1>1, <1>8, <2>1 DEF Requested
<1>10. Named'
  <2>1. Upto("gates")' = ByProject \ (val.required \cap ToSet(ProjectGates))
    BY <1>1, <1>8 DEF Upto, Requested, ImageCleanup, ComposeCleanup
  <2>2. {"static-safety", "locked-install"} \cap ToSet(ProjectGates) = {}
    BY TheGates, TheOrder
  <2> QED
    BY <1>5, <1>8, <2>1, <2>2 DEF Named, IsReport, ByProject
<1>11. Rank(s[1].name) = 0 /\ Rank(e.name) = 1
  BY <1>1, <1>4, Ranks
<1>12. Passed'
  <2>1. "gates" \notin Docker
    BY TheLabels
  <2>2. Reach' = 1
    BY <1>8 DEF Reach
  <2>3. \A d \in ToSet(c) : Rank(d.name) <= 1
    BY <1>5, <1>11
  <2>4. ASSUME status = "PASS" PROVE \A d \in ToSet(c) : d.status = "PASS"
    BY <1>3, <1>4, <1>5, <2>4
  <2> QED
    BY <1>8, <2>1, <2>2, <2>3, <2>4 DEF Passed, PassedBelow
<1>13. InOrder(c)
  <2>1. InOrder(s)
    BY InOrderMeans DEF ValInv
  <2> HIDE DEF s
  <2> QED
    BY <1>2, <1>3, <1>4, <1>11, <2>1, OneMoreInOrder DEF c, PassedBelow
<1>14. PrerequisitesPassed'
  BY <1>8, <1>13 DEF PrerequisitesPassed, InOrder
<1> QED
  BY <1>7, <1>9, <1>10, <1>12, <1>14 DEF ValInv

\* A gate of the project: those of the earlier phases are in the report already.
LEMMA GateSteps ==
  ASSUME ValInv, RunGate
  PROVE  ValInv'
<1> USE DEF At
<1>1. /\ val.pc = "gates" /\ ValTyped /\ Requested /\ val.raising = FALSE /\ val.checks \in Seq(Check)
      /\ InOrder(val.checks)
  BY InOrderMeans DEF RunGate, ValInv, Requested, ValTyped, ImageCleanup, ComposeCleanup
<1>2. PICK n \in val.todo : Turn(n) /\
        \E status \in (IF Open(n) THEN {"PASS", "FAIL"} ELSE {"SKIPPED"}) :
          val' = [Entered(n) EXCEPT !.todo = @ \ {n}, !.checks = Append(@, Entry(n, status)),
                                    !.phaseFailed = @ \/ status # "PASS"]
  BY Zenon DEF RunGate
<1>3. PICK status \in {"PASS", "FAIL", "SKIPPED"} :
        /\ status # "SKIPPED" => Open(n)
        /\ val' = [Entered(n) EXCEPT !.todo = @ \ {n}, !.checks = Append(@, Entry(n, status)),
                                     !.phaseFailed = @ \/ status # "PASS"]
  BY <1>2
<1> DEFINE same == val.phase = Phase(n)
           blocking == val.blocking \/ (~same /\ val.phaseFailed)
           failed == same /\ val.phaseFailed
           e == Entry(n, status)
           c == Append(val.checks, e)
<1>4. /\ Phase(n) \in {"quality", "runtime"} /\ n \in ToSet(ProjectGates) /\ n \in ReportName /\ n \in val.required
      /\ n \in ToSet(QualityGates) <=> Phase(n) = "quality"
      /\ n \notin ToSet(QualityGates) => n \in ToSet(AfterQuality)
      /\ Rank(n) = (IF Phase(n) = "quality" THEN 2 ELSE 3)
  <2>1. n \in ToSet(ProjectGates) /\ n \in val.required
    BY <1>1 DEF Requested
  <2>2. n \in ReportName
    BY <2>1 DEF ReportName, Gate, PythonGates
  <2> QED
    BY <2>1, <2>2, TheOrder, Ranks DEF Phase
<1>5. /\ Entered(n).blocking = blocking /\ Entered(n).phase = Phase(n) /\ Entered(n).phaseFailed = failed
      /\ Entered(n).pc = val.pc /\ Entered(n).required = val.required /\ Entered(n).todo = val.todo
      /\ Entered(n).checks = val.checks /\ Entered(n).raising = val.raising
      /\ Entered(n) \in [pc : Label, required : SUBSET Gate, todo : SUBSET Gate, checks : Seq(Check),
           database : BOOLEAN, docker : BOOLEAN, tools : SUBSET {"go", "gofmt", "cmake", "ctest"},
           blocking : BOOLEAN, phase : {"none", "quality", "runtime"}, phaseFailed : BOOLEAN,
           polls : 0 .. PollAttempts - 1, containerAttempted : BOOLEAN, raising : BOOLEAN]
  <2>1. CASE same
    <3>1. Entered(n) = val
      BY <2>1 DEF Entered
    <3> QED
      BY <1>1, <2>1, <3>1 DEF ValTyped
  <2>2. CASE ~same
    <3>1. Entered(n) = [val EXCEPT !.blocking = val.blocking \/ val.phaseFailed,
                                   !.phase = Phase(n), !.phaseFailed = FALSE]
      BY <1>1, <2>2 DEF Entered, ValTyped
    <3> QED
      BY <1>1, <1>4, <2>2, <3>1 DEF ValTyped
  <2> QED
    BY <2>1, <2>2
<1>6. status # "SKIPPED" => ~blocking /\ ~(Phase(n) = "runtime" /\ failed)
  BY <1>3, <1>5 DEF Open
<1>7. e \in Check /\ e.name = n /\ e.status = status
  BY <1>4 DEF Entry, Check, Status
<1>8. c \in Seq(Check) /\ ToSet(c) = ToSet(val.checks) \cup {e}
  <2> HIDE DEF e
  <2> QED
    BY <1>1, <1>7, ToSetOfOneMore
<1> HIDE DEF e
<1>9. val' = [Entered(n) EXCEPT !.todo = val.todo \ {n}, !.checks = c,
                                !.phaseFailed = failed \/ status # "PASS"]
  BY <1>3, <1>5 DEF e
<1> HIDE DEF c, blocking, failed
<1>10. blocking \in BOOLEAN /\ failed \in BOOLEAN
  BY <1>1 DEF ValTyped, blocking, failed
<1>11. ValTyped'
  BY <1>1, <1>5, <1>8, <1>9, <1>10 DEF ValTyped
<1>12. /\ val'.pc = "gates" /\ val'.required = val.required /\ val'.todo = val.todo \ {n}
       /\ val'.checks = c /\ val'.raising = FALSE /\ val'.phase = Phase(n) /\ val'.blocking = blocking
       /\ val'.phaseFailed = (failed \/ status # "PASS")
  BY <1>1, <1>5, <1>9
<1>13. Requested'
  <2>1. AdapterGates(val.required)' = AdapterGates(val.required)
    BY <1>12 DEF AdapterGates
  <2> QED
    BY <1>1, <1>12, <2>1 DEF Requested
<1>14. Upto("gates") = ByProject \ val.todo /\ Upto("gates")' = ByProject \ (val.todo \ {n})
  BY <1>12 DEF Upto, ImageCleanup, ComposeCleanup
<1>15. Named'
  <2> DEFINE N == Names(val.checks)
  <2>1. /\ Distinct(val.checks) /\ N \subseteq ByProject \ val.todo
        /\ val.required \cap (ByProject \ val.todo) \subseteq N
    BY <1>1, <1>14 DEF ValInv, Named
  <2>2. IsReport(val.checks, N) /\ n \in ReportName \ N /\ status \in Status
    BY <1>1, <1>2, <1>4, <2>1 DEF IsReport, Status
  <2> HIDE DEF N
  <2>3. IsReport(c, N \cup {n})
    BY <2>2, JoinedByOne DEF c, e
  <2>4. /\ N \cup {n} \subseteq ByProject \ (val.todo \ {n})
        /\ val.required \cap (ByProject \ (val.todo \ {n})) \subseteq N \cup {n}
    BY <1>4, <2>1 DEF ByProject
  <2> QED
    BY <1>12, <1>14, <2>3, <2>4 DEF Named, IsReport
<1>16. /\ \A d \in ToSet(val.checks) : Rank(d.name) <= Reach
       /\ ~val.blocking => PassedBelow(val.checks, Reach)
       /\ ~val.blocking /\ ~val.phaseFailed => PassedBelow(val.checks, 4)
       /\ val.phase = "none" => ~val.phaseFailed
       /\ val.phase = "runtime" => n \notin ToSet(QualityGates)
  BY <1>1, <1>2 DEF ValInv, Passed
<1>17. Reach \in {1, 2, 3} /\ Reach <= Rank(n) /\ (same => Reach = Rank(n)) /\ Rank(n) \in {2, 3}
  BY <1>1, <1>4, <1>16 DEF Reach, ValTyped
<1>18. ~blocking => PassedBelow(val.checks, Rank(n)) /\ (~failed => PassedBelow(val.checks, 4))
  <2>1. CASE same
    BY <1>16, <1>17, <2>1 DEF blocking, failed
  <2>2. CASE ~same
    <3>1. ~blocking => PassedBelow(val.checks, 4)
      BY <1>16, <2>2 DEF blocking
    <3>2. PassedBelow(val.checks, 4) => PassedBelow(val.checks, Rank(n))
      BY <1>17, RankIsNat DEF PassedBelow
    <3> QED
      BY <3>1, <3>2
  <2> QED
    BY <2>1, <2>2
<1>19. \A d \in ToSet(val.checks) : Rank(d.name) <= Rank(n)
  BY <1>16, <1>17, RankIsNat
<1>20. Passed'
  <2>1. "gates" \notin Docker
    BY TheLabels
  <2>2. Reach' = Rank(n)
    BY <1>4, <1>12 DEF Reach
  <2>3. \A d \in ToSet(c) : Rank(d.name) <= Rank(n)
    BY <1>7, <1>8, <1>17, <1>19
  <2>4. ~blocking => PassedBelow(c, Rank(n))
    BY <1>7, <1>8, <1>17, <1>18 DEF PassedBelow
  <2>5. ~blocking /\ ~(failed \/ status # "PASS") => PassedBelow(c, 4)
    BY <1>7, <1>8, <1>18 DEF PassedBelow
  <2>6. Phase(n) = "runtime" => (val.todo \ {n}) \cap ToSet(QualityGates) = {}
    <3> SUFFICES ASSUME Phase(n) = "runtime", NEW m \in val.todo, m \in ToSet(QualityGates) PROVE FALSE
      OBVIOUS
    <3>1. n \in ToSet(AfterQuality)
      BY <1>4
    <3>2. Position(n) <= Position(m)
      BY <1>2 DEF Turn
    <3> QED
      BY <3>1, <3>2, QualityFirst
  <2> QED
    BY <1>4, <1>12, <2>1, <2>2, <2>3, <2>4, <2>5, <2>6 DEF Passed
<1>21. InOrder(c)
  <2>1. \A d \in ToSet(val.checks) : Rank(d.name) <= Rank(e.name)
    BY <1>7, <1>19
  <2>2. e.status # "SKIPPED" => PassedBelow(val.checks, Rank(e.name))
                                /\ (Rank(e.name) = 3 => PassedBelow(val.checks, 4))
    BY <1>4, <1>6, <1>7, <1>18
  <2> QED
    BY <1>1, <1>7, <2>1, <2>2, OneMoreInOrder DEF c
<1>22. PrerequisitesPassed'
  BY <1>12, <1>21 DEF PrerequisitesPassed, InOrder
<1> QED
  BY <1>11, <1>13, <1>15, <1>20, <1>22 DEF ValInv

\* A command of a chain: run if all the ones before it passed.
LEMMA ChainSteps ==
  ASSUME ValInv, RunChainGate
  PROVE  ValInv'
<1> USE DEF At
<1>1. /\ val.pc = "chain" /\ ValTyped /\ Requested /\ val.raising = FALSE /\ val.checks \in Seq(Check)
      /\ InOrder(val.checks) /\ val.todo \subseteq val.required
      /\ val.required \subseteq AdapterGates(val.required)
  BY InOrderMeans DEF RunChainGate, ValInv, Requested, ValTyped, ImageCleanup, ComposeCleanup
<1>2. PICK n \in val.todo : Turn(n) /\
        \E status \in (IF ChainOpen(n) THEN {"PASS", "FAIL"} ELSE {"SKIPPED"}) :
          val' = [val EXCEPT !.todo = @ \ {n}, !.checks = Append(@, Entry(n, status)),
                             !.blocking = status # "PASS"]
  BY Zenon DEF RunChainGate
<1>3. PICK status \in {"PASS", "FAIL", "SKIPPED"} :
        /\ status # "SKIPPED" => ~val.blocking
        /\ val' = [val EXCEPT !.todo = @ \ {n}, !.checks = Append(@, Entry(n, status)),
                              !.blocking = status # "PASS"]
  BY <1>2 DEF ChainOpen
<1> DEFINE e == Entry(n, status)
           c == Append(val.checks, e)
<1>4. n \in ReportName /\ n \in val.required /\ Rank(n) = 3
  <2>1. val.todo \subseteq ToSet(Chains) /\ n \in Gate
    BY <1>1 DEF ValInv, Passed, ValTyped
  <2>2. n \in ToSet(AfterQuality)
    BY <2>1, TheOrder
  <2> QED
    BY <1>1, <2>1, <2>2, Ranks DEF ReportName
<1>5. e \in Check /\ e.name = n /\ e.status = status
  BY <1>4 DEF Entry, Check, Status
<1>6. c \in Seq(Check) /\ ToSet(c) = ToSet(val.checks) \cup {e}
  <2> HIDE DEF e
  <2> QED
    BY <1>1, <1>5, ToSetOfOneMore
<1>7. val' = [val EXCEPT !.todo = val.todo \ {n}, !.checks = c, !.blocking = status # "PASS"]
  BY <1>3
<1> HIDE DEF e, c
<1>8. ValTyped'
  BY <1>1, <1>6, <1>7 DEF ValTyped
<1>9. /\ val'.pc = "chain" /\ val'.required = val.required /\ val'.todo = val.todo \ {n}
      /\ val'.checks = c /\ val'.raising = FALSE /\ val'.blocking = (status # "PASS")
  BY <1>1, <1>7 DEF ValTyped
<1>10. AdapterGates(val.required)' = AdapterGates(val.required)
  BY <1>9 DEF AdapterGates
<1>11. "chain" \notin Docker
  BY TheLabels
<1>12. Requested'
  BY <1>1, <1>9, <1>10, <1>11 DEF Requested
<1>13. Upto("chain") = AdapterGates(val.required) \ val.todo
       /\ Upto("chain")' = AdapterGates(val.required) \ (val.todo \ {n})
  BY <1>9, <1>10 DEF Upto, ImageCleanup, ComposeCleanup
<1>14. Named'
  <2> DEFINE N == Names(val.checks)
             A == AdapterGates(val.required)
  <2>1. Distinct(val.checks) /\ N \subseteq A \ val.todo /\ val.required \cap (A \ val.todo) \subseteq N
    BY <1>1, <1>13 DEF ValInv, Named
  <2>2. IsReport(val.checks, N) /\ n \in ReportName \ N /\ status \in Status
    BY <1>1, <1>2, <1>4, <2>1 DEF IsReport, Status
  <2> HIDE DEF N
  <2>3. IsReport(c, N \cup {n})
    BY <2>2, JoinedByOne DEF c, e
  <2>4. N \cup {n} \subseteq A \ (val.todo \ {n}) /\ val.required \cap (A \ (val.todo \ {n})) \subseteq N \cup {n}
    BY <1>1, <1>4, <2>1
  <2> QED
    BY <1>9, <1>13, <2>3, <2>4 DEF Named, IsReport
<1>15. /\ \A d \in ToSet(val.checks) : Rank(d.name) = 3
       /\ ~val.blocking => PassedBelow(val.checks, 4)
       /\ val.todo \subseteq ToSet(Chains)
  BY <1>1 DEF ValInv, Passed
<1>16. Passed'
  <2>1. \A d \in ToSet(c) : Rank(d.name) = 3
    BY <1>4, <1>5, <1>6, <1>15
  <2>2. status = "PASS" => PassedBelow(c, 4)
    BY <1>3, <1>5, <1>6, <1>15 DEF PassedBelow
  <2> QED
    BY <1>9, <1>11, <1>15, <2>1, <2>2 DEF Passed
<1>17. InOrder(c)
  <2>1. \A d \in ToSet(val.checks) : Rank(d.name) <= Rank(e.name)
    BY <1>4, <1>5, <1>15
  <2>2. e.status # "SKIPPED" => PassedBelow(val.checks, Rank(e.name))
                                /\ (Rank(e.name) = 3 => PassedBelow(val.checks, 4))
    BY <1>3, <1>4, <1>5, <1>15 DEF PassedBelow
  <2> QED
    BY <1>1, <1>5, <2>1, <2>2, OneMoreInOrder DEF c
<1>18. PrerequisitesPassed'
  BY <1>9, <1>17 DEF PrerequisitesPassed, InOrder
<1> QED
  BY <1>8, <1>12, <1>14, <1>16, <1>18 DEF ValInv

\* The docker gates begin only if every gate before them passed, and are
\* reported as skipped otherwise.
LEMMA DeliverSteps ==
  ASSUME ValInv, Deliver
  PROVE  ValInv'
<1> USE DEF At
<1> DEFINE N == Names(val.checks)
<1>1. /\ val.pc = "gates" /\ val.todo = {} /\ ValTyped /\ Requested /\ val.raising = FALSE
      /\ val.required \subseteq PythonGates /\ InOrder(val.checks)
  BY InOrderMeans DEF Deliver, ValInv, Requested, ValTyped, ImageCleanup, ComposeCleanup
<1>2. Upto("gates") = ByProject
  BY <1>1 DEF Upto, ImageCleanup, ComposeCleanup
<1>3. IsReport(val.checks, N) /\ N \subseteq ByProject /\ val.required \cap ByProject \subseteq N
      /\ val.checks \in Seq(Check)
  BY <1>1, <1>2 DEF ValInv, Named, IsReport, ValTyped
<1> HIDE DEF N
<1>4. PythonGates \subseteq ByProject \cup DeliveryGates /\ "docker-cleanup" \notin PythonGates
      /\ ByProject \cap DeliveryGates = {} /\ DeliveryGates \subseteq DockerName
  <2>1. PythonGates \subseteq ByProject \cup DeliveryGates
    BY DEF PythonGates, ByProject
  <2>2. "docker-cleanup" \notin ByProject /\ "docker-cleanup" \notin DeliveryGates
    BY TheNames DEF DeliveryGates, ImageGates, ComposeGates
  <2>3. DeliveryGates \subseteq DockerName
    BY DEF DockerName
  <2>4. ByProject \cap DeliveryGates = {}
    BY <2>3, TheNames
  <2> QED
    BY <2>1, <2>2, <2>3, <2>4
<1>5. CASE val' = [val EXCEPT !.pc = "verify", !.checks = @ \o DeliverySkips]
  <2> DEFINE c == val.checks \o DeliverySkips
             M == DeliveryGates \cap val.required
  <2>1. IsReport(DeliverySkips, M) /\ \A e \in ToSet(DeliverySkips) : e.status = "SKIPPED"
    BY DeliverySkipsReport DEF SkipsOnly
  <2>2. IsReport(c, N \cup M)
    <3>1. N \cap M = {}
      BY <1>3, <1>4
    <3> QED
      BY <1>3, <2>1, <3>1, Joined
  <2>3. c \in Seq(Check) /\ DeliverySkips \in Seq(Check)
    BY <2>1, <2>2 DEF IsReport
  <2>4. \A e \in ToSet(DeliverySkips) : e.name \in DockerName
    BY <1>4, <2>1, NamesOfEntries DEF IsReport
  <2>5. InOrder(c)
    BY <1>1, <1>3, <2>1, <2>3, <2>4, SkipsInOrder
  <2> HIDE DEF c
  <2>6. val' = [val EXCEPT !.pc = "verify", !.checks = c]
    BY <1>5 DEF c
  <2>7. ValTyped'
    BY <1>1, <2>3, <2>6 DEF ValTyped, Label, Ending
  <2>8. /\ val'.pc = "verify" /\ val'.checks = c /\ val'.required = val.required /\ val'.todo = val.todo
        /\ val'.raising = FALSE
    BY <1>1, <2>6 DEF ValTyped
  <2>9. AdapterGates(val.required)' = AdapterGates(val.required)
    BY <2>8 DEF AdapterGates
  <2>10. "verify" \in Ending /\ "verify" \notin Docker
    BY TheLabels DEF Ending
  <2>11. Requested'
    BY <1>1, <2>8, <2>9, <2>10 DEF Requested
  <2>12. Upto("verify") = ByProject \cup DockerName /\ Upto("verify")' = Upto("verify")
    <3>1. Upto("verify")' = Upto("verify")
      BY <2>9 DEF Upto, ImageCleanup, ComposeCleanup
    <3> QED
      BY <1>1, <2>10, <3>1, TheLastNames
  <2>13. Named'
    <3>1. N \cup M \subseteq ByProject \cup DockerName /\ val.required \subseteq N \cup M
      BY <1>1, <1>3, <1>4
    <3> QED
      BY <2>2, <2>8, <2>12, <3>1 DEF Named, IsReport
  <2>14. Passed'
    BY <2>8, <2>10 DEF Passed
  <2>15. PrerequisitesPassed'
    BY <2>5, <2>8 DEF PrerequisitesPassed, InOrder
  <2> QED
    BY <2>7, <2>11, <2>13, <2>14, <2>15 DEF ValInv
<1>6. ASSUME ~(val.blocking \/ val.phaseFailed),
             NEW label \in {"image_preflight", "compose_preflight"}, val' = [val EXCEPT !.pc = label],
             label = "compose_preflight" => val.required \cap ImageGates = {}
      PROVE  ValInv'
  <2>1. label \in Docker /\ label \in Label /\ label \notin {"start", "start_owned", "poll"}
    BY TheLabels DEF Docker
  <2>2. ValTyped'
    BY <1>1, <1>6, <2>1 DEF ValTyped
  <2>3. /\ val'.pc = label /\ val'.checks = val.checks /\ val'.required = val.required /\ val'.todo = val.todo
        /\ val'.raising = FALSE
    BY <1>1, <1>6 DEF ValTyped
  <2>4. AdapterGates(val.required)' = AdapterGates(val.required) /\ DeferHealth' = DeferHealth
    BY <2>3 DEF AdapterGates, DeferHealth
  <2>5. Requested'
    BY <1>1, <2>1, <2>3, <2>4 DEF Requested
  <2>6. Upto(label)' = Upto(label)
    BY <2>3, <2>4 DEF Upto, ByImage
  <2>7. N \subseteq Upto(label) /\ val.required \cap Upto(label) \subseteq N
    <3>1. CASE label = "image_preflight"
      <4>1. Upto(label) = ByProject
        BY <3>1, TheNames
      <4> QED
        BY <1>3, <4>1
    <3>2. CASE label = "compose_preflight"
      <4>1. Upto(label) = ByImage
        BY <3>2, TheNames
      <4>2. ByProject \subseteq ByImage /\ ByImage \subseteq ByProject \cup ImageGates \cup {"docker-cleanup"}
        BY DEF ByImage, ImageGates
      <4> QED
        BY <1>1, <1>3, <1>4, <1>6, <3>2, <4>1, <4>2
    <3> QED
      BY <3>1, <3>2
  <2>8. Named'
    BY <1>3, <2>3, <2>6, <2>7 DEF Named, N, IsReport
  <2>9. Passed'
    <3>1. PassedBelow(val.checks, 4)
      BY <1>1, <1>6 DEF ValInv, Passed
    <3>2. label \notin {"static", "install", "gates", "chain"}
      OBVIOUS
    <3> QED
      BY <2>3, <3>1, <3>2 DEF Passed, PassedBelow
  <2>10. PrerequisitesPassed'
    BY <1>1, <2>3 DEF PrerequisitesPassed, InOrder
  <2> QED
    BY <2>2, <2>5, <2>8, <2>9, <2>10 DEF ValInv
<1>7. CASE ~(val.blocking \/ val.phaseFailed \/ ~val.docker \/ val.required \cap DeliveryGates = {})
  <2>1. PICK label \in {"image_preflight", "compose_preflight"} :
          /\ val' = [val EXCEPT !.pc = label]
          /\ label = "compose_preflight" => val.required \cap ImageGates = {}
    BY <1>7 DEF Deliver
  <2> QED
    BY <1>6, <1>7, <2>1
<1> QED
  BY <1>5, <1>7 DEF Deliver

\* The report stays as it is from there on.
LEMMA EndingMoves ==
  ASSUME ValInv, val.pc \notin Docker, NEW label \in {"accepting", "reported", "raised"}, Move(label, <<>>),
         label = "raised" \/ (val.raising = FALSE /\ ~At("raised") /\ Upto(val.pc) = Upto(label))
  PROVE  ValInv'
<1> USE DEF At
<1>1. ValTyped /\ val.checks \in Seq(Check) /\ Requested
  BY DEF ValInv, ValTyped
<1>2. val.checks \o <<>> = val.checks
  BY <1>1
<1>3. val' = [val EXCEPT !.pc = label, !.checks = val.checks]
  BY <1>2 DEF Move
<1>4. label \in Label /\ label \notin Docker
  BY TheLabels DEF Ending, Label
<1>5. ValTyped'
  BY <1>1, <1>3, <1>4 DEF ValTyped
<1>6. /\ val'.pc = label /\ val'.checks = val.checks /\ val'.required = val.required /\ val'.todo = val.todo
      /\ val'.raising = val.raising
  BY <1>1, <1>3 DEF ValTyped
<1>7. AdapterGates(val.required)' = AdapterGates(val.required) /\ DeferHealth' = DeferHealth
  BY <1>6 DEF AdapterGates, DeferHealth
<1>8. Requested'
  BY <1>1, <1>4, <1>6, <1>7 DEF Requested
<1>9. Upto(label)' = Upto(label)
  BY <1>6, <1>7 DEF Upto, ByImage
<1>10. Named'
  BY <1>6, <1>9 DEF Named, ValInv
<1>11. Passed'
  BY <1>4, <1>6 DEF Passed
<1>12. PrerequisitesPassed'
  BY <1>6 DEF PrerequisitesPassed, ValInv
<1> QED
  BY <1>5, <1>8, <1>10, <1>11, <1>12 DEF ValInv

\* The steps at the end of a validation, and a gate that raises.
LEMMA EndingSteps ==
  ASSUME ValInv, Verify \/ AcceptReport \/ GateRaises
  PROVE  ValInv'
<1> USE DEF At
<1>1. \A label \in {"install", "gates", "chain", "verify", "accepting", "reported"} : label \notin Docker
  BY TheLabels DEF Ending, Docker, ImageStages, ComposeStages, ImageTry, ComposeTry, ImageCleanup, ComposeCleanup
<1>2. /\ \A label \in Ending : Upto(label) = AdapterGates(val.required)
      /\ Upto("chain") = AdapterGates(val.required) \ val.todo
  BY DEF Upto, Ending, ImageCleanup, ComposeCleanup
<1>3. val.pc \in {"chain", "verify", "accepting"} => val.raising = FALSE
  BY DEF ValInv, ValTyped, Requested, ImageCleanup, ComposeCleanup
<1>4. ASSUME Verify PROVE ValInv'
  BY <1>1, <1>2, <1>3, <1>4, EndingMoves DEF Verify, Ending
<1>5. ASSUME AcceptReport PROVE ValInv'
  BY <1>1, <1>2, <1>3, <1>5, EndingMoves DEF AcceptReport, Ending
<1>6. ASSUME GateRaises PROVE ValInv'
  BY <1>1, <1>6, EndingMoves DEF GateRaises
<1> QED
  BY <1>4, <1>5, <1>6

\* Nothing is reported at the start.
LEMMA ValInit == Init => ValInv
<1> SUFFICES ASSUME Init PROVE ValInv
  OBVIOUS
<1>1. PICK required \in Requests :
        IF required \subseteq PythonGates
        THEN \E database, docker \in BOOLEAN :
               val = [Begins("static", required, ProjectGates) EXCEPT !.database = database, !.docker = docker]
        ELSE \E tools \in SUBSET {"go", "gofmt", "cmake", "ctest"} :
               val = [Begins("chain", required, Chains) EXCEPT !.tools = tools]
  BY Zenon DEF Init
<1>2. \/ required \subseteq PythonGates
      \/ required \subseteq ToSet(GoGates)
      \/ required \subseteq ToSet(CMakeGates)
  BY RequestsAreGates
<1>3. required \subseteq Gate /\ required \subseteq AdapterGates(required)
      /\ (~(required \subseteq PythonGates) => required \subseteq ToSet(Chains))
  <2>1. required \subseteq Gate /\ (~(required \subseteq PythonGates) => required \subseteq ToSet(Chains))
    BY <1>2, TheOrder DEF Gate
  <2>2. required \subseteq AdapterGates(required)
    BY <1>2 DEF AdapterGates
  <2> QED
    BY <2>1, <2>2
<1>4. /\ val.pc \in {"static", "chain"} /\ val.required = required /\ val.checks = <<>>
      /\ val.pc = "static" => required \subseteq PythonGates /\ val.todo = required \cap ToSet(ProjectGates)
      /\ val.pc = "chain" => val.todo = required /\ required \subseteq ToSet(Chains)
      /\ val.raising = FALSE /\ val.phase = "none" /\ val.phaseFailed = FALSE
      /\ val.todo \subseteq required
  <2>1. CASE required \subseteq PythonGates
    <3>1. PICK database, docker \in BOOLEAN :
            val = [Begins("static", required, ProjectGates) EXCEPT !.database = database, !.docker = docker]
      BY <1>1, <2>1, Zenon
    <3> QED
      BY <2>1, <3>1 DEF Begins
  <2>2. CASE ~(required \subseteq PythonGates)
    <3>1. PICK tools \in SUBSET {"go", "gofmt", "cmake", "ctest"} :
            val = [Begins("chain", required, Chains) EXCEPT !.tools = tools]
      BY <1>1, <2>2, Zenon
    <3>2. required \cap ToSet(Chains) = required
      BY <1>3, <2>2
    <3> QED
      BY <1>3, <2>2, <3>1, <3>2 DEF Begins
  <2> QED
    BY <2>1, <2>2
<1>5. ValTyped
  <2>1. <<>> \in Seq(Check) /\ 0 \in 0 .. PollAttempts - 1 /\ "static" \in Label /\ "chain" \in Label
    BY BoundsAreNat DEF Label
  <2>2. CASE required \subseteq PythonGates
    <3>1. PICK database, docker \in BOOLEAN :
            val = [Begins("static", required, ProjectGates) EXCEPT !.database = database, !.docker = docker]
      BY <1>1, <2>2, Zenon
    <3> QED
      BY <1>3, <2>1, <3>1 DEF Begins, ValTyped
  <2>3. CASE ~(required \subseteq PythonGates)
    <3>1. PICK tools \in SUBSET {"go", "gofmt", "cmake", "ctest"} :
            val = [Begins("chain", required, Chains) EXCEPT !.tools = tools]
      BY <1>1, <2>3, Zenon
    <3> QED
      BY <1>3, <2>1, <3>1 DEF Begins, ValTyped
  <2> QED
    BY <2>2, <2>3
<1>6. "static" \notin Docker /\ "chain" \notin Docker
  BY TheLabels
<1>7. Requested
  BY <1>3, <1>4, <1>6 DEF Requested, At
<1>8. Named
  <2>1. DOMAIN val.checks = {} /\ Names(val.checks) = {} /\ Distinct(val.checks)
    BY <1>4, NoEntry DEF IsReport, Distinct, Names
  <2>2. Upto("static") = {} /\ Upto("chain") = AdapterGates(val.required) \ val.todo
    BY DEF Upto, ImageCleanup, ComposeCleanup
  <2> QED
    BY <1>4, <2>1, <2>2 DEF Named
<1>9. PrerequisitesPassed /\ Passed
  <2>1. DOMAIN val.checks = {} /\ ToSet(val.checks) = {}
    BY <1>4, NoEntry
  <2> QED
    BY <1>4, <1>6, <2>1 DEF PrerequisitesPassed, Passed, PassedBelow, At
<1> QED
  BY <1>5, <1>7, <1>8, <1>9 DEF ValInv

\* Every step keeps the report in order.
LEMMA ValNext ==
  ASSUME ValInv, [Next]_dvars
  PROVE  ValInv'
<1>1. ASSUME UNCHANGED val PROVE ValInv'
  BY <1>1 DEF ValInv, ValTyped, Requested, Named, PrerequisitesPassed, Passed, At, Upto, AdapterGates,
              DeferHealth, ByImage, Reach, PassedBelow, Names, Distinct
<1>2. ASSUME Daemon PROVE ValInv'
  <2>1. ASSUME NEW k, CompleteLate(k) PROVE UNCHANGED val
    BY <2>1 DEF CompleteLate
  <2>2. ASSUME HelperExits PROVE UNCHANGED val
    BY <2>2 DEF HelperExits
  <2>3. ASSUME NEW k, RivalCreates(k) PROVE UNCHANGED val
    BY <2>3 DEF RivalCreates
  <2> QED
    BY <1>1, <1>2, <2>1, <2>2, <2>3 DEF Daemon
<1>3. ASSUME UNCHANGED dvars PROVE ValInv'
  BY <1>1, <1>3 DEF dvars
<1>4. ASSUME Validator PROVE ValInv'
  BY <1>4, ScanSteps, InstallSteps, GateSteps, ChainSteps, DeliverSteps, EndingSteps, ImageSteps,
     ComposeSteps, RaisingSteps DEF Validator, DockerLifecycle
<1> QED
  BY <1>2, <1>3, <1>4 DEF Next

----------------------------------------------------------------------------
(***************************************************************************)
(* The resources.                                                          *)
(***************************************************************************)

\* What the stages report are sequences of checks.
LEMMA EntriesTyped ==
  /\ <<>> \in Seq(Check)
  /\ \A n \in DockerName, ok \in BOOLEAN : <<Verdict(n, ok)>> \in Seq(Check)
  /\ <<Verdict("docker-build", FALSE)>> \o ImageSkips \in Seq(Check)
  /\ <<Verdict("docker-build", FALSE)>> \o ImageSkips \o <<Verdict("docker-cleanup", TRUE)>> \in Seq(Check)
  /\ <<Verdict("container-non-root", FALSE)>> \o Skipped("container-health", ImageRequested) \in Seq(Check)
  /\ <<Verdict("compose-config", FALSE)>> \o ComposeSkips \in Seq(Check)
  /\ <<Verdict("compose-config", FALSE)>> \o ComposeSkips \o <<Verdict("compose-cleanup", TRUE)>> \in Seq(Check)
  /\ <<Verdict("compose-up", FALSE)>> \o Skipped("compose-health", val.required) \in Seq(Check)
<1>1. \A n \in DockerName, ok \in BOOLEAN : <<Verdict(n, ok)>> \in Seq(Check)
  BY OneVerdict DEF IsReport
<1>2. \A n \in DockerName : \A r : Skipped(n, r) \in Seq(Check)
  <2>1. \A n \in DockerName : n \in ReportName
    BY DeliveryNames DEF DockerName
  <2> QED
    BY <2>1, SkippedOne DEF IsReport
<1>3. {"container-non-root", "container-health", "compose-up", "compose-health"} \subseteq DockerName
  BY TheNames
<1>4. /\ <<Verdict("container-non-root", FALSE)>> \in Seq(Check)
      /\ <<Verdict("compose-up", FALSE)>> \in Seq(Check)
      /\ Skipped("container-health", ImageRequested) \in Seq(Check)
      /\ Skipped("compose-health", val.required) \in Seq(Check)
  BY <1>1, <1>2, <1>3
<1>5. \A s, t \in Seq(Check) : s \o t \in Seq(Check)
  OBVIOUS
<1>6. /\ <<Verdict("container-non-root", FALSE)>> \o Skipped("container-health", ImageRequested) \in Seq(Check)
      /\ <<Verdict("compose-up", FALSE)>> \o Skipped("compose-health", val.required) \in Seq(Check)
  BY <1>4, <1>5
<1>7. <<>> \in Seq(Check)
  OBVIOUS
<1> QED
  BY <1>1, <1>6, <1>7, BuildFailedReport, ConfigFailedReport DEF IsReport

AfterTheImageLifecycle == {"compose_preflight"} \cup ComposeStages \cup Ending

\* What a docker command touches at most, among the kinds of resources.
Touches(kinds) ==
  /\ DaemonTyped' /\ daemon'.preexisting = daemon.preexisting /\ daemon'.cameLate = daemon.cameLate
  /\ \A j \in Kind \ kinds : daemon'[j] = daemon[j] /\ (j \in daemon'.late => j \in daemon.late)

\* Where the validation goes after a command, and what it may have touched.
LEMMA CommandKeeps ==
  ASSUME DaemonInv, NEW kinds \in SUBSET Kind, Touches(kinds), NEW label, val'.pc = label,
         ToSet(val.checks) \subseteq ToSet(val'.checks),
         kinds \cap daemon.preexisting = {},
         label \in ImageStages => daemon.preexisting \cap {"image", "container"} = {},
         label \in ComposeStages => "stack" \notin daemon.preexisting,
         label = "remove_container" => daemon'.container = "ours",
         label \in BeforeImage => val.pc \in BeforeImage /\ kinds \cap {"image", "container"} = {},
         label \in BeforeUp => val.pc \in BeforeUp /\ "stack" \notin kinds,
         label \in AfterTheImageLifecycle =>
           \/ val.pc \in BeforeImage \cup AfterTheImageLifecycle /\ kinds \cap {"image", "container"} = {}
           \/ Told("image", "docker-cleanup")' /\ Told("container", "docker-cleanup")',
         label \in Ending =>
           \/ val.pc \in BeforeUp \cup Ending /\ "stack" \notin kinds
           \/ Told("stack", "compose-cleanup")'
  PROVE  DaemonInv'
<1> USE DEF At
<1>1. /\ DaemonTyped' /\ daemon'.preexisting = daemon.preexisting /\ daemon'.cameLate = daemon.cameLate
      /\ \A j \in Kind \ kinds : daemon'[j] = daemon[j] /\ (j \in daemon'.late => j \in daemon.late)
      /\ daemon.preexisting \subseteq Kind
  BY DEF Touches, DaemonInv, DaemonTyped
<1>2. {"image", "container", "stack"} = Kind
  BY DEF Kind
<1>3. OwnersKnown'
  <2>1. \A k \in daemon.preexisting : daemon'[k] = "other" /\ k \notin daemon'.late
    BY <1>1 DEF DaemonInv, OwnersKnown
  <2> QED
    BY <1>1, <2>1 DEF OwnersKnown
<1>4. \A k \in Kind \ kinds : Untouched(k) => Untouched(k)'
  BY <1>1 DEF Untouched
<1>5. \A k \in Kind \ kinds : \A g : Told(k, g) => Told(k, g)'
  BY <1>1 DEF Told
<1>6. \A k : \A g : Untouched(k) => Told(k, g)
  BY DEF Untouched, Told
<1>7. label \in BeforeImage => Untouched("image")' /\ Untouched("container")'
  BY <1>2, <1>4 DEF DaemonInv, ResidueTold
<1>8. label \in BeforeUp => Untouched("stack")'
  BY <1>2, <1>4 DEF DaemonInv, ResidueTold
<1>9. label \in AfterTheImageLifecycle => Told("image", "docker-cleanup")' /\ Told("container", "docker-cleanup")'
  <2>1. ASSUME val.pc \in BeforeImage \cup AfterTheImageLifecycle, kinds \cap {"image", "container"} = {}
        PROVE  Told("image", "docker-cleanup")' /\ Told("container", "docker-cleanup")'
    <3>1. Told("image", "docker-cleanup") /\ Told("container", "docker-cleanup")
      BY <1>6, <2>1 DEF DaemonInv, ResidueTold, AfterTheImageLifecycle
    <3> QED
      BY <1>2, <1>5, <2>1, <3>1
  <2> QED
    BY <2>1
<1>10. label \in Ending => Told("stack", "compose-cleanup")'
  <2>1. ASSUME val.pc \in BeforeUp \cup Ending, "stack" \notin kinds PROVE Told("stack", "compose-cleanup")'
    <3>1. Told("stack", "compose-cleanup")
      BY <1>6, <2>1 DEF DaemonInv, ResidueTold
    <3> QED
      BY <1>2, <1>5, <2>1, <3>1
  <2> QED
    BY <2>1
<1>11. ResidueTold'
  BY <1>7, <1>8, <1>9, <1>10 DEF ResidueTold, AfterTheImageLifecycle
<1> QED
  BY <1>1, <1>3, <1>11 DEF DaemonInv

\* What the daemon makes of a command.
LEMMA CommandEffects ==
  ASSUME DaemonTyped
  PROVE  /\ daemon' = daemon => Touches({})
         /\ \A k \in Kind : daemon' = Made(k) => Touches({k})
         /\ \A k \in Kind : daemon' \in Begun(k) => Touches({k})
         /\ \A k \in Kind : daemon' \in {daemon, Made(k)} => Touches({k})
         /\ \A k \in Kind : daemon' \in {daemon, Removed(k)} => Touches({k})
         /\ daemon' \in Begun("helper") => Touches({})
         /\ daemon' \in DownStates => Touches({"stack"})
<1> USE DEF Kind
<1>1. ASSUME daemon' = daemon PROVE Touches({})
  BY <1>1 DEF Touches, DaemonTyped
<1>2. ASSUME daemon' = daemon, NEW k \in Kind PROVE Touches({k})
  BY <1>2 DEF Touches, DaemonTyped
<1>3. ASSUME NEW k \in Kind, daemon' = Made(k) PROVE Touches({k})
  <2>1. CASE k = "image"
    BY <1>3, <2>1 DEF Touches, DaemonTyped, Made
  <2>2. CASE k = "container"
    BY <1>3, <2>2 DEF Touches, DaemonTyped, Made
  <2>3. CASE k = "stack"
    BY <1>3, <2>3 DEF Touches, DaemonTyped, Made
  <2> QED
    BY <2>1, <2>2, <2>3
<1>4. ASSUME NEW k \in Kind, daemon' = Later(k) PROVE Touches({k})
  BY <1>4 DEF Touches, DaemonTyped, Later, Resource
<1>5. ASSUME NEW k \in Kind, daemon' = Removed(k) PROVE Touches({k})
  <2>1. CASE k = "image"
    BY <1>5, <2>1 DEF Touches, DaemonTyped, Removed
  <2>2. CASE k = "container"
    BY <1>5, <2>2 DEF Touches, DaemonTyped, Removed
  <2>3. CASE k = "stack"
    BY <1>5, <2>3 DEF Touches, DaemonTyped, Removed
  <2> QED
    BY <2>1, <2>2, <2>3
<1>6. ASSUME daemon' = Made("helper") \/ daemon' = Later("helper") PROVE Touches({})
  <2>1. CASE daemon' = Made("helper")
    <3>1. daemon' = [daemon EXCEPT !.helper = TRUE]
      BY <2>1 DEF Made
    <3> QED
      BY <3>1 DEF Touches, DaemonTyped
  <2>2. CASE daemon' = Later("helper")
    BY <2>2 DEF Touches, DaemonTyped, Later, Resource
  <2> QED
    BY <1>6, <2>1, <2>2
<1>7. ASSUME daemon' = [Removed("stack") EXCEPT !.volume = FALSE] PROVE Touches({"stack"})
  <2> DEFINE d == Removed("stack")
  <2>1. d = [daemon EXCEPT !.stack = "none"]
    BY DEF Removed
  <2>2. /\ d \in [image : {"none", "ours", "other"}, container : {"none", "ours", "other"},
                 stack : {"none", "ours", "other"}, volume : BOOLEAN, helper : BOOLEAN,
                 late : SUBSET Resource, cameLate : SUBSET Resource, preexisting : SUBSET Kind]
        /\ d.image = daemon.image /\ d.container = daemon.container /\ d.late = daemon.late
        /\ d.cameLate = daemon.cameLate /\ d.preexisting = daemon.preexisting
    BY <2>1 DEF DaemonTyped
  <2>3. daemon' = [d EXCEPT !.volume = FALSE]
    BY <1>7
  <2> HIDE DEF d
  <2> QED
    BY <2>2, <2>3 DEF Touches, DaemonTyped
<1> QED
  BY <1>1, <1>2, <1>3, <1>4, <1>5, <1>6, <1>7 DEF Begun, DownStates

\* Where an image command that is not the last one may lead.
LEMMA WithinTheImage ==
  ASSUME ValInv, DaemonInv, val.pc \in ImageStages, NEW kinds \in SUBSET {"image", "container"}, Touches(kinds),
         NEW label \in (ImageStages \ {"remove_container"}) \cup {"raised"}, val'.pc = label,
         ToSet(val.checks) \subseteq ToSet(val'.checks)
  PROVE  DaemonInv'
<1>1. daemon.preexisting \cap {"image", "container"} = {} /\ kinds \in SUBSET Kind
  BY DEF DaemonInv, OwnersKnown, Kind
<1>2. /\ label \notin BeforeImage /\ label \notin AfterTheImageLifecycle /\ label \notin Ending
      /\ label \notin ComposeStages /\ label # "remove_container"
  BY DEF BeforeImage, ImageStages, ComposeStages, ImageTry, ComposeTry, ImageCleanup, ComposeCleanup,
         AfterTheImageLifecycle, Ending
<1>3. val.pc \in BeforeUp /\ "stack" \notin kinds
  BY DEF BeforeUp
<1> QED
  BY <1>1, <1>2, <1>3, CommandKeeps

\* The steps of the image lifecycle.
LEMMA ImageKeeps ==
  ASSUME ValInv, DaemonInv, ImageLifecycle
  PROVE  DaemonInv'
<1> USE DEF At
<1>1. /\ DaemonTyped /\ ValTyped /\ {} \in SUBSET Kind
      /\ "image" \in Kind /\ "container" \in Kind
      /\ "docker-build" \in DockerName /\ "docker-cleanup" \in DockerName
      /\ "container-health" \in DockerName /\ "container-non-root" \in DockerName
  BY TheNames DEF ValInv, DaemonInv, Kind
<1>2. \A k \in daemon.preexisting : daemon[k] = "other"
  BY DEF DaemonInv, OwnersKnown
<1>3. ASSUME ImagePreflight PROVE DaemonInv'
  <2>1. PICK absent \in BOOLEAN :
          /\ Inspected(daemon.image = "none" /\ daemon.container = "none", absent)
          /\ IF absent THEN Move("build", <<>>)
             ELSE Move(AfterImage, <<Verdict("docker-build", FALSE)>> \o ImageSkips
                                   \o <<Verdict("docker-cleanup", TRUE)>>)
    BY <1>3 DEF ImagePreflight
  <2>2. val.pc = "image_preflight" /\ Touches({})
    BY <1>1, <1>3, <2>1, CommandEffects DEF ImagePreflight, Inspected
  <2>3. CASE absent
    <3>1. daemon.preexisting \cap {"image", "container"} = {}
      BY <1>2, <2>1, <2>3 DEF Inspected
    <3>2. val'.pc = "build" /\ ToSet(val.checks) \subseteq ToSet(val'.checks)
      BY <1>1, <2>1, <2>3, MoveKeeps, EntriesTyped
    <3> QED
      BY <1>1, <2>2, <3>1, <3>2, CommandKeeps DEF BeforeImage, BeforeUp, ImageStages, ComposeStages, ImageTry,
           ComposeTry, ImageCleanup, ComposeCleanup, AfterTheImageLifecycle, Ending
  <2>4. CASE ~absent
    <3>1. val'.pc = AfterImage /\ ToSet(val.checks) \subseteq ToSet(val'.checks)
      BY <1>1, <2>1, <2>4, MoveKeeps, EntriesTyped
    <3>2. AfterImage \in {"raised", "compose_preflight", "verify"}
      BY DEF AfterImage
    <3> QED
      BY <1>1, <2>2, <3>1, <3>2, CommandKeeps DEF BeforeImage, BeforeUp, ImageStages, ComposeStages, ImageTry,
           ComposeTry, ImageCleanup, ComposeCleanup, AfterTheImageLifecycle, Ending
  <2> QED
    BY <2>3, <2>4
<1>4. ASSUME BuildFailed
      PROVE  val'.pc = "own_container" /\ ToSet(val.checks) \subseteq ToSet(val'.checks)
  BY <1>1, <1>4, MoveKeeps, EntriesTyped DEF BuildFailed
<1>5. ASSUME NEW ok \in BOOLEAN, HealthIs(ok)
      PROVE  val'.pc = "own_container" /\ ToSet(val.checks) \subseteq ToSet(val'.checks)
  BY <1>1, <1>5, MoveKeeps, EntriesTyped DEF HealthIs
<1>6. \A label : Move(label, <<>>) => val'.pc = label /\ ToSet(val.checks) \subseteq ToSet(val'.checks)
  BY <1>1, MoveKeeps, EntriesTyped
<1>7. \A label \in ImageTry \cup {"own_container", "own_image", "remove_image", "image_residue"} :
        label \in ImageStages \ {"remove_container"}
  BY DEF ImageStages, ImageTry, ImageCleanup
<1>8. ASSUME BuildImage PROVE DaemonInv'
  <2>1. val.pc \in ImageStages
    BY <1>7, <1>8 DEF BuildImage, ImageTry
  <2>2. Touches({}) \/ Touches({"image"})
    BY <1>1, <1>8, CommandEffects DEF BuildImage
  <2>3. val'.pc \in {"build_owned", "own_container"} /\ ToSet(val.checks) \subseteq ToSet(val'.checks)
    BY <1>4, <1>6, <1>8 DEF BuildImage
  <2> QED
    BY <1>7, <2>1, <2>2, <2>3, WithinTheImage DEF ImageTry
<1>9. ASSUME CheckBuilt PROVE DaemonInv'
  <2>1. val.pc \in ImageStages
    BY <1>7, <1>9 DEF CheckBuilt, ImageTry
  <2>2. Touches({})
    BY <1>1, <1>9, CommandEffects DEF CheckBuilt, Inspected
  <2>3. val'.pc \in {"non_root", "start", "own_container"} /\ ToSet(val.checks) \subseteq ToSet(val'.checks)
    <3>1. CASE BuildFailed
      BY <1>4, <3>1
    <3>2. CASE Move(AfterBuild, <<Verdict("docker-build", TRUE)>>)
      <4>1. val'.pc = AfterBuild /\ ToSet(val.checks) \subseteq ToSet(val'.checks)
        BY <1>1, <3>2, MoveKeeps, EntriesTyped
      <4> QED
        BY <4>1 DEF AfterBuild
    <3> QED
      BY <1>9, <3>1, <3>2 DEF CheckBuilt
  <2> QED
    BY <1>7, <2>1, <2>2, <2>3, WithinTheImage DEF ImageTry
<1>10. ASSUME NonRoot PROVE DaemonInv'
  <2>1. val.pc \in ImageStages
    BY <1>7, <1>10 DEF NonRoot, ImageTry
  <2>2. Touches({})
    BY <1>1, <1>10, CommandEffects DEF NonRoot
  <2>3. val'.pc \in {"start", "own_container"} /\ ToSet(val.checks) \subseteq ToSet(val'.checks)
    <3>1. PICK label \in {"start", "own_container"} :
            \/ Move(label, <<Verdict("container-non-root", TRUE)>>)
            \/ Move(label, <<Verdict("container-non-root", FALSE)>> \o Skipped("container-health", ImageRequested))
      BY <1>10 DEF NonRoot
    <3> QED
      BY <1>1, <3>1, MoveKeeps, EntriesTyped
  <2> QED
    BY <1>7, <2>1, <2>2, <2>3, WithinTheImage DEF ImageTry
<1>11. ASSUME StartContainer PROVE DaemonInv'
  <2>1. val.pc \in ImageStages
    BY <1>7, <1>11 DEF StartContainer, ImageTry
  <2>2. Touches({"container"})
    BY <1>1, <1>11, CommandEffects DEF StartContainer
  <2>3. val'.pc \in {"start_owned", "own_container"} /\ ToSet(val.checks) \subseteq ToSet(val'.checks)
    <3>1. CASE val' = [val EXCEPT !.pc = "start_owned", !.containerAttempted = TRUE]
      BY <1>1, <3>1 DEF ValTyped
    <3>2. CASE val' = [val EXCEPT !.pc = "own_container", !.containerAttempted = TRUE,
                                  !.checks = Append(@, Verdict("container-health", FALSE))]
      <4> DEFINE v == Verdict("container-health", FALSE)
      <4>1. v \in Check /\ val.checks \in Seq(Check)
        <5>1. v = Entry("container-health", "FAIL")
          BY DEF Verdict
        <5> HIDE DEF v
        <5> QED
          BY <1>1, <5>1, DeliveryNames DEF Check, Entry, Status, DockerName, ValTyped
      <4>2. val'.pc = "own_container" /\ val'.checks = Append(val.checks, v)
        BY <1>1, <3>2 DEF ValTyped
      <4> HIDE DEF v
      <4> QED
        BY <4>1, <4>2, ToSetOfOneMore
    <3> QED
      BY <1>11, <3>1, <3>2 DEF StartContainer
  <2> QED
    BY <1>7, <2>1, <2>2, <2>3, WithinTheImage DEF ImageTry
<1>12. ASSUME CheckStarted PROVE DaemonInv'
  <2>1. val.pc \in ImageStages
    BY <1>7, <1>12 DEF CheckStarted, ImageTry
  <2>2. Touches({})
    BY <1>1, <1>12, CommandEffects DEF CheckStarted, Inspected
  <2>3. val'.pc \in {"poll", "own_container"} /\ ToSet(val.checks) \subseteq ToSet(val'.checks)
    BY <1>5, <1>6, <1>12 DEF CheckStarted
  <2> QED
    BY <1>7, <2>1, <2>2, <2>3, WithinTheImage DEF ImageTry
<1>13. ASSUME Poll PROVE DaemonInv'
  <2>1. val.pc = "poll" /\ val.pc \in ImageStages
    BY <1>7, <1>13 DEF Poll, ImageTry
  <2>2. Touches({})
    BY <1>1, <1>13, CommandEffects DEF Poll
  <2>3. val'.pc \in {"poll", "own_container"} /\ ToSet(val.checks) \subseteq ToSet(val'.checks)
    <3>1. CASE val' = [val EXCEPT !.polls = @ + 1]
      BY <1>1, <2>1, <3>1 DEF ValTyped
    <3> QED
      BY <1>5, <1>13, <3>1 DEF Poll
  <2> QED
    BY <1>7, <2>1, <2>2, <2>3, WithinTheImage DEF ImageTry
<1>14. ASSUME OwnContainer PROVE DaemonInv'
  <2>1. val.pc = "own_container" /\ val.pc \in ImageStages
    BY <1>7, <1>14 DEF OwnContainer
  <2>2. Touches({})
    BY <1>1, <1>14, CommandEffects DEF OwnContainer, Inspected
  <2>3. CASE Move("own_image", <<>>)
    BY <1>6, <1>7, <2>1, <2>2, <2>3, WithinTheImage
  <2>4. CASE Move("remove_container", <<>>) /\ daemon.container = "ours"
    <3>1. val'.pc = "remove_container" /\ ToSet(val.checks) \subseteq ToSet(val'.checks)
      BY <1>6, <2>4
    <3>2. daemon'.container = "ours"
      BY <2>2, <2>4 DEF Touches, Kind
    <3>3. daemon.preexisting \cap {"image", "container"} = {}
      BY <2>1 DEF DaemonInv, OwnersKnown
    <3> QED
      BY <1>1, <2>1, <2>2, <3>1, <3>2, <3>3, CommandKeeps DEF BeforeImage, BeforeUp, ImageStages, ComposeStages,
           ImageTry, ComposeTry, ImageCleanup, ComposeCleanup, AfterTheImageLifecycle, Ending
  <2> QED
    BY <1>14, <2>3, <2>4 DEF OwnContainer, Inspected
<1>15. ASSUME OwnImage PROVE DaemonInv'
  <2>1. val.pc \in ImageStages
    BY <1>7, <1>15 DEF OwnImage
  <2>2. Touches({})
    BY <1>1, <1>15, CommandEffects DEF OwnImage, Inspected
  <2>3. val'.pc \in {"remove_image", "image_residue"} /\ ToSet(val.checks) \subseteq ToSet(val'.checks)
    BY <1>6, <1>15 DEF OwnImage
  <2> QED
    BY <1>7, <2>1, <2>2, <2>3, WithinTheImage
<1>16. ASSUME RemoveResource("container", "remove_container", "own_image") PROVE DaemonInv'
  <2>1. val.pc \in ImageStages
    BY <1>16 DEF RemoveResource, ImageStages, ImageCleanup
  <2>2. Touches({"container"})
    BY <1>1, <1>16, CommandEffects DEF RemoveResource
  <2>3. val'.pc = "own_image" /\ ToSet(val.checks) \subseteq ToSet(val'.checks)
    BY <1>6, <1>16 DEF RemoveResource
  <2> QED
    BY <1>7, <2>1, <2>2, <2>3, WithinTheImage
<1>17. ASSUME RemoveResource("image", "remove_image", "image_residue") PROVE DaemonInv'
  <2>1. val.pc \in ImageStages
    BY <1>7, <1>17 DEF RemoveResource
  <2>2. Touches({"image"})
    BY <1>1, <1>17, CommandEffects DEF RemoveResource
  <2>3. val'.pc = "image_residue" /\ ToSet(val.checks) \subseteq ToSet(val'.checks)
    BY <1>6, <1>17 DEF RemoveResource
  <2> QED
    BY <1>7, <2>1, <2>2, <2>3, WithinTheImage
<1>18. ASSUME ImageResidue PROVE DaemonInv'
  <2>1. PICK absent \in BOOLEAN :
          /\ Inspected(daemon.image = "none" /\ daemon.container = "none", absent)
          /\ Move(AfterImage, <<Verdict("docker-cleanup", absent)>>)
    BY <1>18 DEF ImageResidue
  <2>2. val.pc = "image_residue" /\ Touches({}) /\ daemon' = daemon
    BY <1>1, <1>18, <2>1, CommandEffects DEF ImageResidue, Inspected
  <2>3. /\ val'.pc = AfterImage /\ ToSet(val.checks) \subseteq ToSet(val'.checks)
        /\ ToSet(<<Verdict("docker-cleanup", absent)>>) \subseteq ToSet(val'.checks)
    BY <1>1, <2>1, MoveKeeps, EntriesTyped
  <2>4. AfterImage \in {"raised", "compose_preflight", "verify"}
    BY DEF AfterImage
  <2>5. Told("image", "docker-cleanup")' /\ Told("container", "docker-cleanup")'
    <3>1. CASE absent
      BY <2>1, <2>2, <3>1 DEF Told, Inspected
    <3>2. CASE ~absent
      <4>1. Entry("docker-cleanup", "FAIL") \in ToSet(val'.checks)
        <5>1. Verdict("docker-cleanup", absent) = Entry("docker-cleanup", "FAIL")
          BY <3>2 DEF Verdict
        <5>2. ToSet(<<Verdict("docker-cleanup", absent)>>) = {Verdict("docker-cleanup", absent)}
          BY <1>1, OneVerdict
        <5> QED
          BY <2>3, <5>1, <5>2
      <4> QED
        BY <4>1 DEF Told
    <3> QED
      BY <3>1, <3>2
  <2> QED
    BY <1>1, <2>2, <2>3, <2>4, <2>5, CommandKeeps DEF BeforeImage, BeforeUp, ImageStages, ComposeStages, ImageTry,
           ComposeTry, ImageCleanup, ComposeCleanup, AfterTheImageLifecycle, Ending
<1> QED
  BY <1>3, <1>8, <1>9, <1>10, <1>11, <1>12, <1>13, <1>14, <1>15, <1>16, <1>17, <1>18 DEF ImageLifecycle

\* Where a compose command that is not the last one may lead.
LEMMA WithinTheCompose ==
  ASSUME DaemonInv, val.pc \in ComposeStages, NEW kinds \in SUBSET {"stack"}, Touches(kinds),
         kinds = {} \/ val.pc # "compose_config",
         NEW label \in ComposeStages \cup {"raised"}, val'.pc = label, label # "compose_config",
         ToSet(val.checks) \subseteq ToSet(val'.checks)
  PROVE  DaemonInv'
<1>1. "stack" \notin daemon.preexisting /\ kinds \in SUBSET Kind
  BY DEF DaemonInv, OwnersKnown, Kind
<1>2. /\ label \notin BeforeImage /\ label \notin BeforeUp /\ label \notin Ending
      /\ label \notin ImageStages /\ label # "remove_container"
  BY DEF BeforeImage, BeforeUp, ImageStages, ComposeStages, ImageTry, ComposeTry, ImageCleanup, ComposeCleanup,
         Ending
<1>3. val.pc \in BeforeImage \cup AfterTheImageLifecycle /\ kinds \cap {"image", "container"} = {}
  BY DEF AfterTheImageLifecycle
<1>4. kinds \cap daemon.preexisting = {}
  BY <1>1
<1>5. /\ label \in ImageStages => daemon.preexisting \cap {"image", "container"} = {}
      /\ label \in ComposeStages => "stack" \notin daemon.preexisting
      /\ label = "remove_container" => daemon'.container = "ours"
      /\ label \in BeforeImage => val.pc \in BeforeImage /\ kinds \cap {"image", "container"} = {}
      /\ label \in BeforeUp => val.pc \in BeforeUp /\ "stack" \notin kinds
  BY <1>1, <1>2
<1>6. /\ label \in AfterTheImageLifecycle =>
           \/ val.pc \in BeforeImage \cup AfterTheImageLifecycle /\ kinds \cap {"image", "container"} = {}
           \/ Told("image", "docker-cleanup")' /\ Told("container", "docker-cleanup")'
      /\ label \in Ending =>
           \/ val.pc \in BeforeUp \cup Ending /\ "stack" \notin kinds
           \/ Told("stack", "compose-cleanup")'
  BY <1>2, <1>3
<1> QED
  BY <1>1, <1>4, <1>5, <1>6, CommandKeeps

\* The steps of the compose lifecycle.
LEMMA ComposeKeeps ==
  ASSUME ValInv, DaemonInv, ComposeLifecycle
  PROVE  DaemonInv'
<1> USE DEF At
<1>1. /\ DaemonTyped /\ ValTyped /\ {} \in SUBSET Kind /\ "stack" \in Kind
      /\ {"compose-config", "compose-up", "compose-health", "compose-cleanup"} \subseteq DockerName
      /\ {"compose-config", "compose-up", "compose-health", "compose-cleanup"} \cap ByImage = {}
      /\ ComposeGates = {"compose-config", "compose-up", "compose-health", "compose-cleanup"}
  BY TheNames DEF ValInv, DaemonInv, Kind, ByImage, ComposeGates
<1>2. \A k \in daemon.preexisting : daemon[k] = "other"
  BY DEF DaemonInv, OwnersKnown
<1>3. ASSUME ComposePreflight PROVE DaemonInv'
  <2>1. PICK absent \in BOOLEAN :
          /\ Inspected(daemon.stack = "none", absent)
          /\ IF absent THEN Move("compose_config", <<>>)
             ELSE ComposeEnds(<<Verdict("compose-config", FALSE)>> \o ComposeSkips
                              \o <<Verdict("compose-cleanup", TRUE)>>)
    BY <1>3 DEF ComposePreflight
  <2>2. val.pc = "compose_preflight" /\ Touches({}) /\ Upto(val.pc) = ByImage
    BY <1>1, <1>3, <2>1, CommandEffects, TheNames DEF ComposePreflight, Inspected
  <2>3. CASE absent
    <3>1. "stack" \notin daemon.preexisting
      BY <1>2, <2>1, <2>3 DEF Inspected
    <3>2. val'.pc = "compose_config" /\ ToSet(val.checks) \subseteq ToSet(val'.checks)
      BY <1>1, <2>1, <2>3, MoveKeeps, EntriesTyped
    <3> QED
      BY <1>1, <2>2, <3>1, <3>2, CommandKeeps DEF BeforeImage, BeforeUp, ImageStages, ComposeStages, ImageTry,
           ComposeTry, ImageCleanup, ComposeCleanup, AfterTheImageLifecycle, Ending
  <2>4. CASE ~absent
    <3> DEFINE E == <<Verdict("compose-config", FALSE)>> \o ComposeSkips
                    \o <<Verdict("compose-cleanup", TRUE)>>
               M == {"compose-config"} \cup (val.required \cap {"compose-up", "compose-health"})
                    \cup {"compose-cleanup"}
    <3>1. IsReport(E, M) /\ M \in SUBSET DockerName
      BY <1>1, ConfigFailedReport
    <3>2. M \cap Upto(val.pc) = {} /\ "container-health" \notin M /\ val.required \cap ComposeGates \subseteq M
      BY <1>1, <2>2
    <3>3. ComposeEnds(E)
      BY <2>1, <2>4
    <3> HIDE DEF E, M
    <3>4. val'.pc \in {"raised", "verify"} /\ ToSet(val.checks) \subseteq ToSet(val'.checks)
      BY <2>2, <3>1, <3>2, <3>3, ComposeEndsFit
    <3> QED
      BY <1>1, <2>2, <3>4, CommandKeeps DEF BeforeImage, BeforeUp, ImageStages, ComposeStages, ImageTry,
           ComposeTry, ImageCleanup, ComposeCleanup, AfterTheImageLifecycle, Ending
  <2> QED
    BY <2>3, <2>4
<1>4. \A label \in ComposeTry \cup ComposeCleanup : label \in ComposeStages
  BY DEF ComposeStages
<1>5. ASSUME ComposeConfig PROVE DaemonInv'
  <2>1. val.pc \in ComposeStages /\ Touches({})
    BY <1>1, <1>4, <1>5, CommandEffects DEF ComposeConfig, ComposeTry
  <2>2. val'.pc \in {"up", "compose_residue"} /\ ToSet(val.checks) \subseteq ToSet(val'.checks)
    BY <1>1, <1>5, MoveKeeps, EntriesTyped DEF ComposeConfig
  <2> QED
    BY <1>4, <2>1, <2>2, WithinTheCompose DEF ComposeTry, ComposeCleanup
<1>6. ASSUME ComposeUp PROVE DaemonInv'
  <2>1. val.pc = "up" /\ val.pc \in ComposeStages /\ Touches({"stack"})
    BY <1>1, <1>4, <1>6, CommandEffects DEF ComposeUp, ComposeTry
  <2>2. val'.pc \in {"compose_health", "down"} /\ ToSet(val.checks) \subseteq ToSet(val'.checks)
    BY <1>1, <1>6, MoveKeeps, EntriesTyped DEF ComposeUp
  <2> QED
    BY <1>4, <2>1, <2>2, WithinTheCompose DEF ComposeTry, ComposeCleanup
<1>7. ASSUME ComposeHealth PROVE DaemonInv'
  <2>1. val.pc \in ComposeStages /\ Touches({})
    BY <1>1, <1>4, <1>7, CommandEffects DEF ComposeHealth, ComposeTry
  <2>2. val'.pc = "down" /\ ToSet(val.checks) \subseteq ToSet(val'.checks)
    BY <1>1, <1>7, MoveKeeps, EntriesTyped DEF ComposeHealth
  <2> QED
    BY <1>4, <2>1, <2>2, WithinTheCompose DEF ComposeCleanup
<1>8. ASSUME ComposeDown PROVE DaemonInv'
  <2>1. val.pc = "down" /\ val.pc \in ComposeStages
    BY <1>4, <1>8 DEF ComposeDown, ComposeCleanup
  <2>2. Touches({"stack"})
    BY <1>1, <1>8, CommandEffects DEF ComposeDown, DownStates
  <2>3. val'.pc = "compose_residue" /\ ToSet(val.checks) \subseteq ToSet(val'.checks)
    BY <1>1, <1>8, MoveKeeps, EntriesTyped DEF ComposeDown
  <2> QED
    BY <1>4, <2>1, <2>2, <2>3, WithinTheCompose DEF ComposeCleanup
<1>9. ASSUME ComposeResidue PROVE DaemonInv'
  <2>1. PICK absent \in BOOLEAN :
          /\ Inspected(daemon.stack = "none", absent)
          /\ ComposeEnds(<<Verdict("compose-cleanup", absent)>>)
    BY <1>9 DEF ComposeResidue
  <2>2. /\ val.pc = "compose_residue" /\ Touches({}) /\ daemon' = daemon
        /\ Upto(val.pc) = ByImage \cup {"compose-config", "compose-up", "compose-health"}
    BY <1>1, <1>9, <2>1, CommandEffects, TheNames DEF ComposeResidue, Inspected, ComposeCleanup
  <2> DEFINE E == <<Verdict("compose-cleanup", absent)>>
  <2>3. IsReport(E, {"compose-cleanup"}) /\ ToSet(E) = {Verdict("compose-cleanup", absent)}
    BY <1>1, OneVerdict
  <2>4. /\ {"compose-cleanup"} \in SUBSET DockerName /\ {"compose-cleanup"} \cap Upto(val.pc) = {}
        /\ val.required \cap ComposeGates \subseteq Upto(val.pc) \cup {"compose-cleanup"}
        /\ "container-health" \notin {"compose-cleanup"}
    BY <1>1, <2>2
  <2>5. ComposeEnds(E)
    BY <2>1
  <2> HIDE DEF E
  <2>6. /\ val'.pc \in {"raised", "verify"} /\ ToSet(val.checks) \subseteq ToSet(val'.checks)
        /\ val'.pc = "verify" => ToSet(E) \subseteq ToSet(val'.checks)
    BY <2>2, <2>3, <2>4, <2>5, ComposeEndsFit
  <2>7. val'.pc = "verify" => Told("stack", "compose-cleanup")'
    <3>1. CASE absent
      BY <2>1, <2>2, <3>1 DEF Told, Inspected
    <3>2. CASE ~absent
      <4>1. Verdict("compose-cleanup", absent) = Entry("compose-cleanup", "FAIL")
        BY <3>2 DEF Verdict
      <4> QED
        BY <2>3, <2>6, <4>1 DEF Told
    <3> QED
      BY <3>1, <3>2
  <2> QED
    BY <1>1, <2>2, <2>6, <2>7, CommandKeeps DEF BeforeImage, BeforeUp, ImageStages, ComposeStages, ImageTry,
           ComposeTry, ImageCleanup, ComposeCleanup, AfterTheImageLifecycle, Ending
<1> QED
  BY <1>3, <1>5, <1>6, <1>7, <1>8, <1>9 DEF ComposeLifecycle

\* A command that raises.
LEMMA RaisingKeeps ==
  ASSUME ValInv, DaemonInv, CommandRaises
  PROVE  DaemonInv'
<1> USE DEF At
<1>1. DaemonTyped /\ ValTyped /\ {} \in SUBSET Kind /\ {"image", "container", "stack"} = Kind
  BY DEF ValInv, DaemonInv, Kind
<1>2. PICK kinds \in SUBSET Kind :
        /\ Touches(kinds)
        /\ val.pc \in ImageStages => kinds \subseteq {"image", "container"}
        /\ val.pc \in {"image_preflight", "compose_preflight", "compose_config"} => kinds = {}
        /\ val.pc \in ComposeStages => kinds \subseteq {"stack"}
  <2>1. daemon' \in CutShort
    BY DEF CommandRaises
  <2>2. \/ val.pc \in {"build", "non_root", "start", "up"} /\ daemon' \in Begun(Created[val.pc])
        \/ val.pc = "down" /\ daemon' \in DownStates
        \/ val.pc = "remove_container" /\ daemon' \in {daemon, Removed("container")}
        \/ val.pc = "remove_image" /\ daemon' \in {daemon, Removed("image")}
        \/ daemon' = daemon
    BY <2>1 DEF CutShort, Created
  <2>3. /\ Created["build"] = "image" /\ Created["non_root"] = "helper" /\ Created["start"] = "container"
        /\ Created["up"] = "stack"
    BY DEF Created
  <2>4. CASE val.pc = "build" /\ daemon' \in Begun("image")
    <3>1. Touches({"image"})
      BY <1>1, <2>4, CommandEffects
    <3> QED
      BY <1>1, <2>4, <3>1 DEF ComposeStages, ComposeTry, ComposeCleanup
  <2>5. CASE val.pc = "start" /\ daemon' \in Begun("container")
    <3>1. Touches({"container"})
      BY <1>1, <2>5, CommandEffects
    <3> QED
      BY <1>1, <2>5, <3>1 DEF ComposeStages, ComposeTry, ComposeCleanup
  <2>6. CASE val.pc = "up" /\ daemon' \in Begun("stack")
    <3>1. Touches({"stack"})
      BY <1>1, <2>6, CommandEffects
    <3> QED
      BY <1>1, <2>6, <3>1 DEF ImageStages, ImageTry, ImageCleanup
  <2>7. CASE val.pc = "down" /\ daemon' \in DownStates
    <3>1. Touches({"stack"})
      BY <1>1, <2>7, CommandEffects
    <3> QED
      BY <1>1, <2>7, <3>1 DEF ImageStages, ImageTry, ImageCleanup
  <2>8. CASE val.pc = "remove_container" /\ daemon' \in {daemon, Removed("container")}
    <3>1. Touches({"container"})
      BY <1>1, <2>8, CommandEffects
    <3> QED
      BY <1>1, <2>8, <3>1 DEF ComposeStages, ComposeTry, ComposeCleanup
  <2>9. CASE val.pc = "remove_image" /\ daemon' \in {daemon, Removed("image")}
    <3>1. Touches({"image"})
      BY <1>1, <2>9, CommandEffects
    <3> QED
      BY <1>1, <2>9, <3>1 DEF ComposeStages, ComposeTry, ComposeCleanup
  <2>10. CASE daemon' = daemon \/ daemon' \in Begun("helper")
    <3>1. Touches({})
      BY <1>1, <2>10, CommandEffects
    <3> QED
      BY <1>1, <3>1
  <2> QED
    BY <2>2, <2>3, <2>4, <2>5, <2>6, <2>7, <2>8, <2>9, <2>10
<1>3. val'.checks = val.checks /\ val'.pc \in {"own_container", "compose_residue", "down", "raised"}
      /\ (val'.pc = "own_container" => val.pc \in ImageTry)
      /\ (val'.pc \in {"compose_residue", "down"} => val.pc \in ComposeTry)
  BY <1>1 DEF CommandRaises, ValTyped
<1>4. val.pc \in ImageStages \cup ComposeStages \cup {"image_preflight", "compose_preflight"}
  BY DEF CommandRaises, ImageStages, ComposeStages, ImageTry, ComposeTry, ImageCleanup, ComposeCleanup, Unprotected
<1>5. kinds \cap daemon.preexisting = {}
  BY <1>1, <1>2, <1>4 DEF DaemonInv, OwnersKnown
<1>6. CASE val'.pc = "own_container"
  <2>1. val.pc \in ImageStages /\ "own_container" \in ImageStages \ {"remove_container"}
    BY <1>3, <1>6 DEF ImageStages, ImageCleanup
  <2> QED
    BY <1>2, <1>3, <1>6, <2>1, WithinTheImage
<1>7. CASE val'.pc \in {"compose_residue", "down"}
  <2>1. val.pc \in ComposeStages /\ val'.pc \in ComposeStages /\ val'.pc # "compose_config"
    BY <1>3, <1>7 DEF ComposeStages, ComposeCleanup
  <2>2. kinds \in SUBSET {"stack"} /\ (kinds = {} \/ val.pc # "compose_config")
    BY <1>2, <2>1
  <2> QED
    BY <1>2, <1>3, <2>1, <2>2, WithinTheCompose
<1>8. CASE val'.pc = "raised"
  BY <1>2, <1>3, <1>5, <1>8, CommandKeeps DEF BeforeImage, BeforeUp, ImageStages, ComposeStages, ImageTry,
           ComposeTry, ImageCleanup, ComposeCleanup, AfterTheImageLifecycle, Ending
<1> QED
  BY <1>3, <1>6, <1>7, <1>8

\* A step that leaves the daemon alone, outside of the docker lifecycles.
LEMMA NothingTouched ==
  ASSUME DaemonInv, daemon' = daemon, NEW label, val'.pc = label,
         ToSet(val.checks) \subseteq ToSet(val'.checks),
         \/ /\ val.pc \in {"static", "install", "gates", "chain"}
            /\ label \in {"static", "install", "gates", "chain", "image_preflight", "compose_preflight",
                          "raised"} \cup Ending
         \/ val.pc \in Ending /\ label \in Ending \cup {"raised"}
  PROVE  DaemonInv'
<1>1. Touches({}) /\ {} \in SUBSET Kind
  BY CommandEffects DEF DaemonInv
<1>2. /\ label \notin ImageStages /\ label \notin ComposeStages /\ label # "remove_container"
  BY DEF ImageStages, ComposeStages, ImageTry, ComposeTry, ImageCleanup, ComposeCleanup, Ending
<1>3. label \in BeforeImage => val.pc \in BeforeImage
  BY DEF BeforeImage, Ending
<1>4. label \in BeforeUp => val.pc \in BeforeUp
  BY <1>2 DEF BeforeImage, BeforeUp, Ending, ComposeTry, ComposeStages
<1>5. val.pc \in BeforeImage \cup AfterTheImageLifecycle /\ val.pc \in BeforeUp \cup Ending
  BY DEF BeforeImage, BeforeUp, AfterTheImageLifecycle
<1> QED
  BY <1>1, <1>2, <1>3, <1>4, <1>5, CommandKeeps

\* The steps outside of the docker lifecycles.
LEMMA OtherStepsKeep ==
  ASSUME ValInv, DaemonInv,
         ScanStatic \/ Install \/ RunGate \/ RunChainGate \/ Deliver \/ Verify \/ AcceptReport \/ GateRaises
  PROVE  DaemonInv'
<1> USE DEF At
<1>1. ValTyped /\ val.checks \in Seq(Check) /\ val.todo \subseteq Gate
  BY DEF ValInv, ValTyped
<1>2. \A n \in ReportName, status \in Status :
        ToSet(val.checks) \subseteq ToSet(Append(val.checks, Entry(n, status)))
  <2>1. \A n \in ReportName, status \in Status : Entry(n, status) \in Check
    BY DEF Entry, Check
  <2> QED
    BY <1>1, <2>1, ToSetOfOneMore
<1>3. Gate \subseteq ReportName /\ {"static-safety", "locked-install"} \subseteq ReportName
      /\ Status = {"PASS", "FAIL", "SKIPPED"}
  BY DEF ReportName, Status
<1>4. \A label : Move(label, <<>>) => val'.pc = label /\ ToSet(val.checks) \subseteq ToSet(val'.checks)
  BY <1>1, MoveKeeps, EntriesTyped
<1>5. ASSUME ScanStatic PROVE DaemonInv'
  <2>1. PICK ok \in BOOLEAN : Move("install", <<Verdict("static-safety", ok)>>)
    BY <1>5 DEF ScanStatic
  <2>2. <<Verdict("static-safety", ok)>> \in Seq(Check)
    BY <1>3 DEF Verdict, Entry, Check
  <2>3. val'.pc = "install" /\ ToSet(val.checks) \subseteq ToSet(val'.checks)
    BY <1>1, <2>1, <2>2, MoveKeeps
  <2>4. val.pc = "static" /\ daemon' = daemon
    BY <1>5 DEF ScanStatic
  <2> QED
    BY <2>3, <2>4, NothingTouched
<1>6. ASSUME Install PROVE DaemonInv'
  <2>1. PICK status \in {"PASS", "FAIL", "SKIPPED"} : InstallIs(status)
    BY <1>6 DEF Install
  <2>2. val'.checks = Append(val.checks, Entry("locked-install", status)) /\ val'.pc = "gates"
    BY <1>1, <2>1 DEF InstallIs, ValTyped
  <2>3. ToSet(val.checks) \subseteq ToSet(val'.checks)
    BY <1>2, <1>3, <2>2
  <2>4. val.pc = "install" /\ daemon' = daemon
    BY <1>6 DEF Install
  <2> QED
    BY <2>2, <2>3, <2>4, NothingTouched
<1>7. ASSUME RunGate PROVE DaemonInv'
  <2>1. PICK n \in val.todo :
          \E status \in (IF Open(n) THEN {"PASS", "FAIL"} ELSE {"SKIPPED"}) :
            val' = [Entered(n) EXCEPT !.todo = @ \ {n}, !.checks = Append(@, Entry(n, status)),
                                      !.phaseFailed = @ \/ status # "PASS"]
    BY <1>7, Zenon DEF RunGate
  <2>2. PICK status \in {"PASS", "FAIL", "SKIPPED"} :
          val' = [Entered(n) EXCEPT !.todo = @ \ {n}, !.checks = Append(@, Entry(n, status)),
                                    !.phaseFailed = @ \/ status # "PASS"]
    BY <2>1
  <2>3. val.pc = "gates" /\ daemon' = daemon
    <3>1. val.pc = "gates" /\ UNCHANGED <<daemon, budget>>
      BY <1>7, Zenon DEF RunGate
    <3> QED
      BY <3>1
  <2>4. /\ Entered(n).checks = val.checks /\ Entered(n).pc = val.pc
        /\ DOMAIN Entered(n) = DOMAIN val /\ "checks" \in DOMAIN val /\ "pc" \in DOMAIN val
    BY <1>1 DEF Entered, ValTyped
  <2>5. val'.checks = Append(val.checks, Entry(n, status)) /\ val'.pc = "gates"
    BY <2>2, <2>3, <2>4
  <2>6. ToSet(val.checks) \subseteq ToSet(val'.checks)
    BY <1>1, <1>2, <1>3, <2>5
  <2> QED
    BY <2>3, <2>5, <2>6, NothingTouched
<1>8. ASSUME RunChainGate PROVE DaemonInv'
  <2>1. PICK n \in val.todo :
          \E status \in (IF ChainOpen(n) THEN {"PASS", "FAIL"} ELSE {"SKIPPED"}) :
            val' = [val EXCEPT !.todo = @ \ {n}, !.checks = Append(@, Entry(n, status)),
                               !.blocking = status # "PASS"]
    BY <1>8, Zenon DEF RunChainGate
  <2>2. PICK status \in {"PASS", "FAIL", "SKIPPED"} :
          val' = [val EXCEPT !.todo = @ \ {n}, !.checks = Append(@, Entry(n, status)),
                             !.blocking = status # "PASS"]
    BY <2>1
  <2>3. val.pc = "chain" /\ daemon' = daemon
    <3>1. val.pc = "chain" /\ UNCHANGED <<daemon, budget>>
      BY <1>8, Zenon DEF RunChainGate
    <3> QED
      BY <3>1
  <2>4. val'.checks = Append(val.checks, Entry(n, status)) /\ val'.pc = "chain"
    BY <1>1, <2>2, <2>3 DEF ValTyped
  <2>5. ToSet(val.checks) \subseteq ToSet(val'.checks)
    BY <1>1, <1>2, <1>3, <2>4
  <2> QED
    BY <2>3, <2>4, <2>5, NothingTouched
<1>9. ASSUME Deliver PROVE DaemonInv'
  <2>1. val.pc = "gates" /\ daemon' = daemon
    BY <1>9 DEF Deliver
  <2>2. DeliverySkips \in Seq(Check)
    BY DeliverySkipsReport DEF SkipsOnly, IsReport
  <2>3. ToSet(val.checks) \subseteq ToSet(val.checks \o DeliverySkips)
    BY <1>1, <2>2, ToSetOfBoth
  <2>4. \/ val' = [val EXCEPT !.pc = "verify", !.checks = @ \o DeliverySkips]
        \/ val' = [val EXCEPT !.pc = "image_preflight"]
        \/ val' = [val EXCEPT !.pc = "compose_preflight"]
    BY <1>9 DEF Deliver
  <2>5. val'.pc \in {"verify", "image_preflight", "compose_preflight"}
        /\ ToSet(val.checks) \subseteq ToSet(val'.checks)
    BY <1>1, <2>3, <2>4 DEF ValTyped
  <2> QED
    BY <2>1, <2>5, NothingTouched DEF Ending
<1>10. ASSUME Verify \/ AcceptReport PROVE DaemonInv'
  <2>1. /\ val.pc \in {"verify", "chain", "accepting"} /\ daemon' = daemon
        /\ Move("accepting", <<>>) \/ Move("reported", <<>>) \/ Move("raised", <<>>)
    BY <1>10 DEF Verify, AcceptReport
  <2>2. val'.pc \in {"accepting", "reported", "raised"} /\ ToSet(val.checks) \subseteq ToSet(val'.checks)
    BY <1>4, <2>1
  <2> QED
    BY <2>1, <2>2, NothingTouched DEF Ending
<1>11. ASSUME GateRaises PROVE DaemonInv'
  <2>1. val.pc \in {"install", "gates", "chain"} /\ daemon' = daemon /\ Move("raised", <<>>)
    BY <1>11 DEF GateRaises
  <2>2. val'.pc = "raised" /\ ToSet(val.checks) \subseteq ToSet(val'.checks)
    BY <1>4, <2>1
  <2> QED
    BY <2>1, <2>2, NothingTouched
<1> QED
  BY <1>5, <1>6, <1>7, <1>8, <1>9, <1>10, <1>11

\* What the daemon and others do by themselves.
LEMMA DaemonSteps ==
  ASSUME DaemonInv, Daemon
  PROVE  DaemonInv'
<1> USE DEF At
<1>1. val' = val /\ DaemonTyped
  <2>1. ASSUME NEW k, CompleteLate(k) PROVE UNCHANGED val
    BY <2>1 DEF CompleteLate
  <2>2. ASSUME HelperExits PROVE UNCHANGED val
    BY <2>2 DEF HelperExits
  <2>3. ASSUME NEW k, RivalCreates(k) PROVE UNCHANGED val
    BY <2>3 DEF RivalCreates
  <2> QED
    BY <2>1, <2>2, <2>3 DEF Daemon, DaemonInv
<1>2. ASSUME NEW k \in Resource, CompleteLate(k) PROVE DaemonInv'
  <2>1. /\ DaemonTyped' /\ daemon'.preexisting = daemon.preexisting
        /\ daemon'.late = daemon.late \ {k} /\ daemon'.cameLate = daemon.cameLate \cup {k}
        /\ \A j \in Kind : j # k => daemon'[j] = daemon[j]
        /\ daemon.container = "ours" => daemon'.container = "ours"
        /\ k \in daemon.late
    <3>1. k \in daemon.late /\ daemon' = [Made(k) EXCEPT !.late = @ \ {k}, !.cameLate = @ \cup {k}]
      BY <1>2 DEF CompleteLate
    <3>2. CASE k = "image"
      BY <1>1, <3>1, <3>2 DEF DaemonTyped, Made, Kind, Resource
    <3>3. CASE k = "container"
      BY <1>1, <3>1, <3>3 DEF DaemonTyped, Made, Kind, Resource
    <3>4. CASE k = "stack"
      BY <1>1, <3>1, <3>4 DEF DaemonTyped, Made, Kind, Resource
    <3>5. CASE k = "helper"
      BY <1>1, <3>1, <3>5 DEF DaemonTyped, Made, Kind, Resource
    <3> QED
      BY <3>2, <3>3, <3>4, <3>5 DEF Resource, Kind
  <2>2. OwnersKnown'
    <3>1. \A j \in daemon.preexisting : daemon'[j] = "other" /\ j \notin daemon'.late
      BY <1>1, <2>1 DEF DaemonInv, OwnersKnown, DaemonTyped
    <3> QED
      BY <1>1, <2>1, <3>1 DEF DaemonInv, OwnersKnown
  <2>3. \A j \in Kind : Untouched(j) => Untouched(j)'
    BY <2>1 DEF Untouched
  <2>4. \A j \in Kind : \A g : Told(j, g) => Told(j, g)'
    BY <1>1, <2>1 DEF Told
  <2>5. ResidueTold'
    BY <1>1, <2>3, <2>4 DEF DaemonInv, ResidueTold, Kind
  <2> QED
    BY <2>1, <2>2, <2>5 DEF DaemonInv
<1>3. ASSUME HelperExits PROVE DaemonInv'
  <2>1. /\ DaemonTyped' /\ daemon'.preexisting = daemon.preexisting /\ daemon'.late = daemon.late
        /\ daemon'.cameLate = daemon.cameLate /\ \A j \in Kind : daemon'[j] = daemon[j]
    BY <1>1, <1>3 DEF HelperExits, DaemonTyped, Kind
  <2>2. OwnersKnown'
    <3>1. daemon.preexisting \subseteq Kind /\ "container" \in Kind
      BY <1>1 DEF DaemonTyped, Kind
    <3> QED
      BY <1>1, <2>1, <3>1 DEF DaemonInv, OwnersKnown
  <2>3. \A j \in Kind : Untouched(j) => Untouched(j)'
    BY <2>1 DEF Untouched
  <2>4. \A j \in Kind : \A g : Told(j, g) => Told(j, g)'
    BY <1>1, <2>1 DEF Told
  <2>5. ResidueTold'
    BY <1>1, <2>3, <2>4 DEF DaemonInv, ResidueTold, Kind
  <2> QED
    BY <2>1, <2>2, <2>5 DEF DaemonInv
<1>4. ASSUME NEW k \in Kind, RivalCreates(k) PROVE DaemonInv'
  <2>1. /\ DaemonTyped' /\ daemon'.preexisting = daemon.preexisting /\ daemon'.late = daemon.late
        /\ daemon'.cameLate = daemon.cameLate /\ \A j \in Kind \ {k} : daemon'[j] = daemon[j]
        /\ daemon[k] = "none" /\ daemon'[k] = "other"
    BY <1>1, <1>4 DEF RivalCreates, DaemonTyped, Kind
  <2>2. OwnersKnown'
    <3>1. daemon.preexisting \subseteq Kind /\ "container" \in Kind
      BY <1>1 DEF DaemonTyped, Kind
    <3> QED
      BY <1>1, <2>1, <3>1 DEF DaemonInv, OwnersKnown
  <2>3. \A j \in Kind : Untouched(j) => Untouched(j)'
    BY <2>1 DEF Untouched
  <2>4. \A j \in Kind : \A g : Told(j, g) => Told(j, g)'
    BY <1>1, <2>1 DEF Told
  <2>5. ResidueTold'
    BY <1>1, <2>3, <2>4 DEF DaemonInv, ResidueTold, Kind
  <2> QED
    BY <2>1, <2>2, <2>5 DEF DaemonInv
<1> QED
  BY <1>2, <1>3, <1>4 DEF Daemon, Resource

\* The resources keep their part of the invariant.
LEMMA DaemonNext ==
  ASSUME ValInv, DaemonInv, [Next]_dvars
  PROVE  DaemonInv'
<1>1. CASE Validator
  BY <1>1, OtherStepsKeep, ImageKeeps, ComposeKeeps, RaisingKeeps DEF Validator, DockerLifecycle
<1>2. CASE Daemon
  BY <1>2, DaemonSteps
<1>3. CASE UNCHANGED dvars
  BY <1>3 DEF dvars, DaemonInv, DaemonTyped, OwnersKnown, ResidueTold, Untouched, Told, At
<1> QED
  BY <1>1, <1>2, <1>3 DEF Next

\* And the bounds theirs.
LEMMA BudgetNext ==
  ASSUME BudgetTyped, [Next]_dvars
  PROVE  BudgetTyped'
<1> DEFINE Spent == budget' = [budget EXCEPT !.faults = @ - 1] /\ budget.faults > 0
           Came == budget' = [budget EXCEPT !.rivals = @ - 1] /\ budget.rivals > 0
<1>1. ASSUME Daemon PROVE budget' = budget \/ Came
  <2>1. ASSUME NEW k, CompleteLate(k) PROVE budget' = budget
    BY <2>1 DEF CompleteLate
  <2>2. ASSUME HelperExits PROVE budget' = budget
    BY <2>2 DEF HelperExits
  <2>3. ASSUME NEW k, RivalCreates(k) PROVE Came
    BY <2>3 DEF RivalCreates
  <2> QED
    BY <1>1, <2>1, <2>2, <2>3 DEF Daemon
<1>2. (Fault => Spent) /\ (Smooth => budget' = budget)
      /\ \A truth, answer : Inspected(truth, answer) => Spent \/ budget' = budget
  BY DEF Fault, Smooth, Inspected
<1>3. ASSUME ImageLifecycle PROVE Spent \/ budget' = budget
  <2>1. ASSUME ImagePreflight PROVE Spent \/ budget' = budget
    BY <1>2, <2>1 DEF ImagePreflight
  <2>2. ASSUME BuildImage PROVE Spent \/ budget' = budget
    BY <1>2, <2>2 DEF BuildImage
  <2>3. ASSUME CheckBuilt PROVE Spent \/ budget' = budget
    BY <1>2, <2>3 DEF CheckBuilt
  <2>4. ASSUME NonRoot PROVE Spent \/ budget' = budget
    BY <1>2, <2>4 DEF NonRoot
  <2>5. ASSUME StartContainer PROVE Spent \/ budget' = budget
    BY <1>2, <2>5 DEF StartContainer
  <2>6. ASSUME CheckStarted PROVE Spent \/ budget' = budget
    BY <1>2, <2>6 DEF CheckStarted
  <2>7. ASSUME Poll PROVE Spent \/ budget' = budget
    BY <1>2, <2>7 DEF Poll
  <2>8. ASSUME OwnContainer PROVE Spent \/ budget' = budget
    BY <1>2, <2>8 DEF OwnContainer
  <2>9. ASSUME OwnImage PROVE Spent \/ budget' = budget
    BY <1>2, <2>9 DEF OwnImage
  <2>10. ASSUME ImageResidue PROVE Spent \/ budget' = budget
    BY <1>2, <2>10 DEF ImageResidue
  <2>11. ASSUME NEW k, NEW from, NEW to, RemoveResource(k, from, to) PROVE Spent \/ budget' = budget
    BY <1>2, <2>11 DEF RemoveResource
  <2> HIDE DEF Spent
  <2> QED
    BY <1>3, <2>1, <2>2, <2>3, <2>4, <2>5, <2>6, <2>7, <2>8, <2>9, <2>10, <2>11 DEF ImageLifecycle
<1>4. ASSUME ComposeLifecycle \/ CommandRaises PROVE Spent \/ budget' = budget
  <2>1. ASSUME ComposePreflight PROVE Spent \/ budget' = budget
    BY <1>2, <2>1 DEF ComposePreflight
  <2>2. ASSUME ComposeConfig \/ ComposeHealth PROVE Spent \/ budget' = budget
    BY <1>2, <2>2 DEF ComposeConfig, ComposeHealth
  <2>3. ASSUME ComposeUp \/ ComposeDown PROVE Spent \/ budget' = budget
    BY <1>2, <2>3 DEF ComposeUp, ComposeDown
  <2>4. ASSUME ComposeResidue PROVE Spent \/ budget' = budget
    BY <1>2, <2>4 DEF ComposeResidue
  <2>5. ASSUME CommandRaises PROVE Spent \/ budget' = budget
    BY <1>2, <2>5 DEF CommandRaises
  <2> HIDE DEF Spent
  <2> QED
    BY <1>4, <2>1, <2>2, <2>3, <2>4, <2>5 DEF ComposeLifecycle
<1>5. ASSUME Validator PROVE Spent \/ budget' = budget
  <2>1. ASSUME ScanStatic \/ Install \/ Deliver PROVE budget' = budget
    BY <2>1 DEF ScanStatic, Install, Deliver
  <2>2. ASSUME RunGate \/ RunChainGate PROVE budget' = budget
    <3>1. UNCHANGED <<daemon, budget>>
      BY <2>2, Zenon DEF RunGate, RunChainGate
    <3> QED
      BY <3>1
  <2>3. ASSUME Verify \/ AcceptReport \/ GateRaises PROVE Spent \/ budget' = budget
    BY <1>2, <2>3 DEF Verify, AcceptReport, GateRaises
  <2> HIDE DEF Spent
  <2> QED
    BY <1>3, <1>4, <1>5, <2>1, <2>2, <2>3 DEF Validator, DockerLifecycle
<1>6. budget' = budget \/ Spent \/ Came
  BY <1>1, <1>5 DEF Next, dvars
<1> QED
  BY <1>6, BoundsAreNat DEF BudgetTyped

\* It holds of the names that others had taken before the validation began.
LEMMA DaemonInit == Init => DaemonInv /\ BudgetTyped
<1> SUFFICES ASSUME Init PROVE DaemonInv /\ BudgetTyped
  OBVIOUS
<1>1. PICK taken \in SUBSET Kind : NamesTaken(taken)
  <2>1. (\E taken \in SUBSET Kind : NamesTaken(taken)) \/ NamesTaken({})
    BY Zenon DEF Init
  <2> QED
    BY <2>1
<1>2. val.pc = "static" \/ val.pc = "chain"
  <2>1. PICK required \in Requests :
          \/ \E database, docker \in BOOLEAN :
               val = [Begins("static", required, ProjectGates) EXCEPT !.database = database,
                                                                     !.docker = docker]
          \/ \E tools \in SUBSET {"go", "gofmt", "cmake", "ctest"} :
               val = [Begins("chain", required, Chains) EXCEPT !.tools = tools]
    BY Zenon DEF Init
  <2>2. ASSUME NEW database, NEW docker,
               val = [Begins("static", required, ProjectGates) EXCEPT !.database = database,
                                                                     !.docker = docker]
        PROVE  val.pc = "static"
    BY <2>2 DEF Begins
  <2>3. ASSUME NEW tools, val = [Begins("chain", required, Chains) EXCEPT !.tools = tools]
        PROVE  val.pc = "chain"
    BY <2>3 DEF Begins
  <2> QED
    BY <2>1, <2>2, <2>3, Zenon
<1>3. DaemonTyped
  BY <1>1 DEF NamesTaken, DaemonTyped, Kind, Resource
<1>4. OwnersKnown
  BY <1>1, <1>2 DEF NamesTaken, OwnersKnown, Kind, At, ImageStages, ComposeStages, ImageTry, ComposeTry,
         ImageCleanup, ComposeCleanup
<1>5. Untouched("image") /\ Untouched("container") /\ Untouched("stack")
  BY <1>1 DEF NamesTaken, Untouched
<1>6. ResidueTold
  BY <1>2, <1>5 DEF ResidueTold, ComposeStages, ComposeTry, ComposeCleanup, Ending
<1>7. BudgetTyped
  <2>1. budget = [faults |-> MaxFaults, rivals |-> MaxRivals]
    BY Zenon DEF Init
  <2> QED
    BY <2>1, BoundsAreNat DEF BudgetTyped
<1> QED
  BY <1>3, <1>4, <1>6, <1>7 DEF DaemonInv

----------------------------------------------------------------------------
(***************************************************************************)
(* The theorems.                                                           *)
(***************************************************************************)

\* The inductive invariant is one.
LEMMA Invariance == Spec => []IInv
<1>1. Init => IInv
  BY ValInit, DaemonInit DEF IInv
<1>2. IInv /\ [Next]_dvars => IInv'
  BY ValNext, DaemonNext, BudgetNext DEF IInv
<1> QED
  BY <1>1, <1>2, PTL DEF Spec

\* TypeOK: whatever a docker command does when it is cut short, the resources,
\* the report and the bounds stay what they are meant to be.
THEOREM ValidationTypes == Spec => []TypeOK
<1>1. IInv => TypeOK
  <2> SUFFICES ASSUME ValInv, DaemonInv, BudgetTyped PROVE TypeOK
    BY DEF IInv
  <2>1. /\ daemon.image \in {"none", "ours", "other"} /\ daemon.container \in {"none", "ours", "other"}
        /\ daemon.stack \in {"none", "ours", "other"} /\ daemon.volume \in BOOLEAN
        /\ daemon.late \subseteq Kind \cup {"helper"}
    BY DEF DaemonInv, DaemonTyped, Resource
  <2>2. val.checks \in Seq([name : Gate \cup {"static-safety", "locked-install", "docker-cleanup"},
                            status : Status])
    BY DEF ValInv, ValTyped, Check, ReportName
  <2>3. budget.faults \in 0 .. MaxFaults /\ budget.rivals \in 0 .. MaxRivals
    BY DEF BudgetTyped
  <2>4. val.polls < PollAttempts
    BY BoundsAreNat DEF ValInv, ValTyped
  <2> QED
    BY <2>1, <2>2, <2>3, <2>4 DEF TypeOK
<1> QED
  BY <1>1, Invariance, PTL

\* As many names as entries, when no name comes twice.
LEMMA AsManyNames ==
  ASSUME NEW s \in Seq(Check), Distinct(s)
  PROVE  Cardinality(Names(s)) = Len(s)
<1> DEFINE n == Len(s)
           f == [i \in 1 .. n |-> s[i].name]
<1>1. n \in Nat /\ DOMAIN s = 1 .. n
  OBVIOUS
<1> HIDE DEF n
<1>2. IsFiniteSet(1 .. n) /\ Cardinality(1 .. n) = n
  BY <1>1, FS_Interval
<1>3. f \in Bijection(1 .. n, Names(s))
  BY <1>1 DEF Bijection, Injection, Surjection, IsInjective, Distinct, Names
<1>4. ExistsBijection(1 .. n, Names(s))
  BY <1>3 DEF ExistsBijection
<1>5. Cardinality(Names(s)) = n
  BY <1>2, <1>4, FS_Bijection
<1> QED
  BY <1>5 DEF n

\* ReportIsAccepted: an executor that comes to the end of a validation hands
\* over a report that the registry of the adapters accepts, on every path
\* through the skips, the cleanups and the deferred health gate.
THEOREM ReportsAreAccepted == Spec => []ReportIsAccepted
<1>1. IInv => ReportIsAccepted
  <2> SUFFICES ASSUME ValInv, At("accepting") PROVE Acceptable
    BY DEF ReportIsAccepted, IInv
  <2>1. /\ ~val.raising /\ ~At("raised") /\ Upto(val.pc) = AdapterGates(val.required)
        /\ val.checks \in Seq(Check)
    BY DEF ValInv, ValTyped, Requested, At, Upto, ImageCleanup, ComposeCleanup
  <2>2. /\ Distinct(val.checks) /\ Names(val.checks) \subseteq AdapterGates(val.required)
        /\ val.required \cap AdapterGates(val.required) \subseteq Names(val.checks)
    BY <2>1 DEF ValInv, Named
  <2>3. val.required \subseteq AdapterGates(val.required)
    BY DEF ValInv, Requested
  <2>4. Cardinality(Names(val.checks)) = Len(val.checks)
    BY <2>1, <2>2, AsManyNames
  <2> QED
    BY <2>2, <2>3, <2>4 DEF Acceptable
<1> QED
  BY <1>1, Invariance, PTL

\* PrerequisitesPassed: no gate is run after a failed gate of an earlier phase.
THEOREM PrerequisitesAreKept == Spec => []PrerequisitesPassed
<1>1. IInv => PrerequisitesPassed
  BY DEF IInv, ValInv
<1> QED
  BY <1>1, Invariance, PTL

\* CleanupReportTellsResidue: what a validation leaves at the docker daemon is
\* in its report, whatever command was cut short.
THEOREM ResidueIsReported == Spec => []CleanupReportTellsResidue
<1>1. IInv => CleanupReportTellsResidue
  BY DEF IInv, DaemonInv, ResidueTold, Told, CleanupReportTellsResidue, Reported, Ending, Kind
<1> QED
  BY <1>1, Invariance, PTL

\* What a step of the validation does to the daemon.
LEMMA WhatChanges ==
  ASSUME Validator
  PROVE  \/ daemon' = daemon
         \/ val.pc = "build" /\ daemon' \in Begun("image")
         \/ val.pc = "non_root" /\ daemon' \in Begun("helper")
         \/ val.pc = "start" /\ daemon' \in Begun("container")
         \/ val.pc = "up" /\ daemon' \in Begun("stack")
         \/ val.pc = "down" /\ daemon' \in DownStates
         \/ val.pc = "remove_container" /\ daemon' \in {daemon, Removed("container")}
         \/ val.pc = "remove_image" /\ daemon' \in {daemon, Removed("image")}
<1> USE DEF At
<1>1. ASSUME ScanStatic \/ Install \/ Deliver \/ Verify \/ AcceptReport \/ GateRaises PROVE daemon' = daemon
  BY <1>1 DEF ScanStatic, Install, Deliver, Verify, AcceptReport, GateRaises
<1>2. ASSUME RunGate \/ RunChainGate PROVE daemon' = daemon
  <2>1. UNCHANGED <<daemon, budget>>
    BY <1>2, Zenon DEF RunGate, RunChainGate
  <2> QED
    BY <2>1
<1>3. ASSUME ImagePreflight \/ CheckBuilt \/ CheckStarted \/ Poll \/ OwnContainer \/ OwnImage \/ ImageResidue
      PROVE  daemon' = daemon
  BY <1>3 DEF ImagePreflight, CheckBuilt, CheckStarted, Poll, OwnContainer, OwnImage, ImageResidue, Inspected
<1>4. ASSUME BuildImage PROVE val.pc = "build" /\ daemon' \in Begun("image")
  BY <1>4 DEF BuildImage, Begun
<1>5. ASSUME NonRoot PROVE val.pc = "non_root" /\ daemon' \in Begun("helper")
  BY <1>5 DEF NonRoot, Begun
<1>6. ASSUME StartContainer PROVE val.pc = "start" /\ daemon' \in Begun("container")
  BY <1>6 DEF StartContainer, Begun
<1>7. ASSUME ComposePreflight \/ ComposeConfig \/ ComposeHealth \/ ComposeResidue PROVE daemon' = daemon
  BY <1>7 DEF ComposePreflight, ComposeConfig, ComposeHealth, ComposeResidue, Inspected
<1>8. ASSUME ComposeUp PROVE val.pc = "up" /\ daemon' \in Begun("stack")
  BY <1>8 DEF ComposeUp, Begun
<1>9. ASSUME ComposeDown PROVE val.pc = "down" /\ daemon' \in DownStates
  BY <1>9 DEF ComposeDown, DownStates
<1>10. ASSUME NEW k, NEW from, NEW to, RemoveResource(k, from, to)
       PROVE  val.pc = from /\ daemon' \in {daemon, Removed(k)}
  BY <1>10 DEF RemoveResource
<1>11. ASSUME CommandRaises
       PROVE  \/ daemon' = daemon
              \/ val.pc = "build" /\ daemon' \in Begun("image")
              \/ val.pc = "non_root" /\ daemon' \in Begun("helper")
              \/ val.pc = "start" /\ daemon' \in Begun("container")
              \/ val.pc = "up" /\ daemon' \in Begun("stack")
              \/ val.pc = "down" /\ daemon' \in DownStates
              \/ val.pc = "remove_container" /\ daemon' \in {daemon, Removed("container")}
              \/ val.pc = "remove_image" /\ daemon' \in {daemon, Removed("image")}
  <2>1. daemon' \in CutShort
    BY <1>11 DEF CommandRaises
  <2> QED
    BY <2>1 DEF CutShort, Created
<1> HIDE DEF At
<1> QED
  BY <1>1, <1>2, <1>3, <1>4, <1>5, <1>6, <1>7, <1>8, <1>9, <1>10, <1>11
     DEF Validator, DockerLifecycle, ImageLifecycle, ComposeLifecycle

\* No step takes away what is somebody else's.
LEMMA StepKeepsOthers ==
  ASSUME ValInv, DaemonInv, [Next]_dvars, NEW k \in Kind, daemon[k] = "other",
         k \in daemon.preexisting \/ k = "container"
  PROVE  daemon'[k] = "other"
<1>1. DaemonTyped /\ k \in {"image", "container", "stack"}
      /\ daemon.preexisting \subseteq Kind
  BY DEF DaemonInv, DaemonTyped, Kind
<1>2. ASSUME NEW j \in Kind \ {k}, Touches({j}) PROVE daemon'[k] = "other"
  BY <1>2 DEF Touches
<1>3. CASE daemon' = daemon
  BY <1>3
<1>4. CASE Touches({})
  BY <1>4 DEF Touches
<1>5. ASSUME val.pc \in ImageStages PROVE k # "image" /\ (val.pc = "remove_container" => k # "container")
  BY <1>1, <1>5 DEF DaemonInv, OwnersKnown, At
<1>6. ASSUME val.pc \in ComposeStages PROVE k # "stack"
  BY <1>1, <1>6 DEF DaemonInv, OwnersKnown
<1>7. CASE val.pc = "build" /\ daemon' \in Begun("image")
  <2>1. k # "image"
    BY <1>5, <1>7 DEF ImageStages, ImageTry
  <2> QED
    BY <1>1, <1>2, <1>7, <2>1, CommandEffects DEF Kind
<1>8. CASE daemon' \in Begun("helper")
  BY <1>1, <1>4, <1>8, CommandEffects
<1>9. CASE daemon' \in Begun("container")
  <2>1. CASE k = "container"
    BY <1>1, <1>9, <2>1 DEF Begun, Made, Later, DaemonTyped
  <2>2. CASE k # "container"
    BY <1>1, <1>2, <1>9, <2>2, CommandEffects DEF Kind
  <2> QED
    BY <2>1, <2>2
<1>10. CASE (val.pc = "up" /\ daemon' \in Begun("stack")) \/ (val.pc = "down" /\ daemon' \in DownStates)
  <2>1. k # "stack"
    BY <1>6, <1>10 DEF ComposeStages, ComposeTry, ComposeCleanup
  <2>2. Touches({"stack"})
    BY <1>1, <1>10, CommandEffects DEF Kind
  <2> QED
    BY <1>2, <2>1, <2>2 DEF Kind
<1>11. CASE val.pc = "remove_container" /\ daemon' \in {daemon, Removed("container")}
  <2>1. k # "container"
    BY <1>5, <1>11 DEF ImageStages, ImageCleanup
  <2> QED
    BY <1>1, <1>2, <1>11, <2>1, CommandEffects DEF Kind
<1>12. CASE val.pc = "remove_image" /\ daemon' \in {daemon, Removed("image")}
  <2>1. k # "image"
    BY <1>5, <1>12 DEF ImageStages, ImageCleanup
  <2> QED
    BY <1>1, <1>2, <1>12, <2>1, CommandEffects DEF Kind
<1>13. CASE Validator
  BY <1>3, <1>7, <1>8, <1>9, <1>10, <1>11, <1>12, <1>13, WhatChanges
<1>14. CASE Daemon
  <2>1. ASSUME NEW j \in Kind \cup {"helper"}, CompleteLate(j) PROVE daemon'[k] = "other"
    <3>1. j \in daemon.late /\ daemon' = [Made(j) EXCEPT !.late = @ \ {j}, !.cameLate = @ \cup {j}]
      BY <2>1 DEF CompleteLate
    <3>2. j = k => k = "container"
      BY <3>1 DEF DaemonInv, OwnersKnown
    <3>3. CASE j = "image"
      BY <1>1, <3>1, <3>2, <3>3 DEF Made, DaemonTyped
    <3>4. CASE j = "container"
      BY <1>1, <3>1, <3>4 DEF Made, DaemonTyped
    <3>5. CASE j = "stack"
      BY <1>1, <3>1, <3>2, <3>5 DEF Made, DaemonTyped
    <3>6. CASE j = "helper"
      BY <1>1, <3>1, <3>6 DEF Made, DaemonTyped
    <3> QED
      BY <3>3, <3>4, <3>5, <3>6 DEF Kind
  <2>2. ASSUME HelperExits PROVE daemon'[k] = "other"
    BY <1>1, <2>2 DEF HelperExits, DaemonTyped
  <2>3. ASSUME NEW j \in Kind, RivalCreates(j) PROVE daemon'[k] = "other"
    BY <1>1, <2>3 DEF RivalCreates, DaemonTyped
  <2> QED
    BY <1>14, <2>1, <2>2, <2>3 DEF Daemon
<1> QED
  BY <1>3, <1>13, <1>14 DEF Next, dvars

\* OthersKept: the validation never removes or takes over what somebody else
\* had under its names, nor a container that took the name meanwhile.
THEOREM OthersAreLeftAlone == Spec => OthersKept
<1>1. IInv /\ [Next]_dvars =>
        [\A k \in Kind : daemon[k] = "other" /\ (k \in daemon.preexisting \/ k = "container")
           => daemon'[k] = "other"]_dvars
  BY StepKeepsOthers DEF IInv
<1> QED
  BY <1>1, Invariance, PTL DEF Spec, OthersKept
=============================================================================

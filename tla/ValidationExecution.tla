------------------------- MODULE ValidationExecution -------------------------
(***************************************************************************)
(* The validation of one candidate.  For a Python project                  *)
(* (execute_v1_validation): the static scan, the locked install, the       *)
(* required quality and runtime gates in their fixed order, then the       *)
(* docker gates.  For Go and CMake: a chain of commands.  Then comes the   *)
(* digest of the candidate once more, and the registry of the adapters     *)
(* accepts the report (execute_project_validation).  Whatever cannot run   *)
(* is reported as skipped.  An exception leaves no report.                 *)
(***************************************************************************)
EXTENDS DockerValidation, FiniteSets

CONSTANT Requests  \* the sets of required gates a blueprint selection yields

\* _VALIDATION_ORDER
QualityGates == <<"python-syntax", "ruff-format", "ruff-lint", "mypy", "pytest">>
DatabaseGates == <<"postgres-connect", "alembic-upgrade", "database-readiness", "session-rollback">>
HttpGates == <<"application-start", "health-live", "health-ready", "openapi">>
ProjectGates == QualityGates \o DatabaseGates \o HttpGates
PythonGates == ToSet(ProjectGates) \cup DeliveryGates
GoGates == <<"go-format", "go-test", "go-build", "go-executable-run">>
CMakeGates == <<"cmake-configure", "cmake-build", "ctest", "executable-run">>
Chains == GoGates \o CMakeGates
Gate == PythonGates \cup ToSet(Chains)

ASSUME RequestsAreGates ==
  \A r \in Requests : \/ r \subseteq PythonGates
                      \/ r # {} /\ (r \subseteq ToSet(GoGates) \/ r \subseteq ToSet(CMakeGates))

\* The gates a report may name: those of the one adapter that has the required ones.
AdapterGates(required) ==
  IF required \subseteq PythonGates
  THEN PythonGates \cup {"static-safety", "locked-install", "docker-cleanup"}
  ELSE IF required \subseteq ToSet(GoGates) THEN ToSet(GoGates) ELSE ToSet(CMakeGates)

\* Whose turn it is: the required gates are sorted before the first one runs.
Position(n) == CHOOSE i \in DOMAIN (ProjectGates \o Chains) : (ProjectGates \o Chains)[i] = n
Turn(n) == n \in val.todo /\ \A m \in val.todo : Position(n) <= Position(m)

Phase(n) == IF n \in ToSet(QualityGates) THEN "quality" ELSE "runtime"

Begins(label, required, gates) ==
  [pc |-> label, required |-> required, todo |-> required \cap ToSet(gates), checks |-> <<>>,
   database |-> FALSE, docker |-> FALSE, tools |-> {},
   blocking |-> FALSE, phase |-> "none", phaseFailed |-> FALSE,
   polls |-> 0, containerAttempted |-> FALSE, raising |-> FALSE]

NamesTaken(taken) ==
  daemon = [image |-> IF "image" \in taken THEN "other" ELSE "none",
            container |-> IF "container" \in taken THEN "other" ELSE "none",
            stack |-> IF "stack" \in taken THEN "other" ELSE "none",
            volume |-> FALSE, helper |-> FALSE, late |-> {}, cameLate |-> {},
            preexisting |-> taken]

Init ==
  /\ \E required \in Requests :
       IF required \subseteq PythonGates
       THEN /\ \E database, docker \in BOOLEAN :
                 val = [Begins("static", required, ProjectGates) EXCEPT !.database = database,
                                                                       !.docker = docker]
            /\ \E taken \in SUBSET Kind : NamesTaken(taken)
       ELSE /\ \E tools \in SUBSET {"go", "gofmt", "cmake", "ctest"} :
                 val = [Begins("chain", required, Chains) EXCEPT !.tools = tools]
            /\ NamesTaken({})
  /\ budget = [faults |-> MaxFaults, rivals |-> MaxRivals]

----------------------------------------------------------------------------
ScanStatic ==
  /\ At("static")
  /\ \E ok \in BOOLEAN : Move("install", <<Verdict("static-safety", ok)>>)
  /\ UNCHANGED <<daemon, budget>>

InstallIs(status) ==
  val' = [val EXCEPT !.pc = "gates", !.blocking = status # "PASS",
                     !.checks = Append(@, Entry("locked-install", status))]

Install ==
  /\ At("install")
  /\ IF Last(val.checks).status = "PASS"
     THEN \E status \in {"PASS", "FAIL"} : InstallIs(status)
     ELSE InstallIs("SKIPPED")
  /\ UNCHANGED <<daemon, budget>>

\* _validation_command has no command without a database URL.
Available(n) ==
  \/ n \in ToSet(QualityGates) \/ val.database
  \/ n \in ToSet(HttpGates) /\ "postgres-connect" \notin val.required

\* A mutant of Entered: a failed phase blocks nothing after it.
EnteredAfresh(n) ==
  IF val.phase = Phase(n) THEN val
  ELSE [val EXCEPT !.phase = Phase(n), !.phaseFailed = FALSE]

\* The first gate of a phase closes the one before.
Entered(n) ==
  IF val.phase = Phase(n) THEN val
  ELSE [val EXCEPT !.blocking = @ \/ val.phaseFailed,
                   !.phase = Phase(n), !.phaseFailed = FALSE]

Open(n) ==
  Available(n) /\ ~Entered(n).blocking /\ ~(Entered(n).phase = "runtime" /\ Entered(n).phaseFailed)

RunGate ==
  /\ At("gates")
  /\ \E n \in val.todo : Turn(n) /\
     \E status \in (IF Open(n) THEN {"PASS", "FAIL"} ELSE {"SKIPPED"}) :
       val' = [Entered(n) EXCEPT !.todo = @ \ {n}, !.checks = Append(@, Entry(n, status)),
                                 !.phaseFailed = @ \/ status # "PASS"]
  /\ UNCHANGED <<daemon, budget>>

DeliverySkips ==
  LET Skip(n) == Skipped(n, val.required) IN
    Skip("docker-build") \o Skip("container-non-root") \o Skip("container-health")
    \o Skip("compose-config") \o Skip("compose-up") \o Skip("compose-health") \o Skip("compose-cleanup")

Deliver ==
  /\ At("gates") /\ val.todo = {}
  /\ val' = IF val.blocking \/ val.phaseFailed \/ ~val.docker
               \/ val.required \cap DeliveryGates = {}
            THEN [val EXCEPT !.pc = "verify",
                             !.checks = @ \o DeliverySkips]
            ELSE [val EXCEPT !.pc = IF val.required \cap ImageGates # {} THEN "image_preflight"
                                    ELSE "compose_preflight"]
  /\ UNCHANGED <<daemon, budget>>

\* The chains of the Go and the CMake executor: what did not pass blocks the rest.
ToolsFor(n) ==
  CASE n = "go-format" -> {"gofmt"}
    [] n \in ToSet(GoGates) \ {"go-format"} -> {"go"}
    [] n = "ctest" -> {"cmake", "ctest"}
    [] OTHER -> {"cmake"}

ChainOpen(n) == ~val.blocking /\ ToolsFor(n) \subseteq val.tools

RunChainGate ==
  /\ At("chain")
  /\ \E n \in val.todo : Turn(n) /\
     \E status \in (IF ChainOpen(n) THEN {"PASS", "FAIL"} ELSE {"SKIPPED"}) :
       val' = [val EXCEPT !.todo = @ \ {n}, !.checks = Append(@, Entry(n, status)),
                          !.blocking = status # "PASS"]
  /\ UNCHANGED <<daemon, budget>>

\* verify_candidate_digest: a gate that wrote into the candidate ends the validation.
Verify ==
  /\ At("verify") \/ (At("chain") /\ val.todo = {})
  /\ \/ Smooth /\ Move("accepting", <<>>)
     \/ Fault /\ Move("raised", <<>>)
  /\ UNCHANGED daemon

Names(checks) == {checks[i].name : i \in DOMAIN checks}

\* ValidationReport takes no name twice, _validate_report no unknown or missing one.
Acceptable ==
  /\ Cardinality(Names(val.checks)) = Len(val.checks)
  /\ val.required \subseteq Names(val.checks)
  /\ Names(val.checks) \subseteq AdapterGates(val.required)

AcceptReport ==
  /\ At("accepting") /\ Smooth
  /\ Move(IF Acceptable THEN "reported" ELSE "raised", <<>>)
  /\ UNCHANGED daemon

\* A command cannot be started or not be killed, or it wrote into the candidate.
GateRaises ==
  /\ \/ At("install") /\ Last(val.checks).status = "PASS"
     \/ At("gates") /\ \E n \in val.todo : Turn(n) /\ Open(n)
     \/ At("chain") /\ \E n \in val.todo : Turn(n) /\ ChainOpen(n)
  /\ Fault /\ Move("raised", <<>>)
  /\ UNCHANGED daemon

Validator ==
  \/ ScanStatic \/ Install \/ RunGate \/ RunChainGate \/ Deliver \/ Verify \/ AcceptReport
  \/ GateRaises \/ DockerLifecycle

Next == Validator \/ Daemon

Spec == Init /\ [][Next]_dvars

----------------------------------------------------------------------------
Reported == val.pc = "reported"

TypeOK ==
  /\ daemon.image \in {"none", "ours", "other"} /\ daemon.container \in {"none", "ours", "other"}
  /\ daemon.stack \in {"none", "ours", "other"} /\ daemon.volume \in BOOLEAN
  /\ daemon.late \subseteq Kind \cup {"helper"}
  /\ val.checks \in Seq([name : Gate \cup {"static-safety", "locked-install", "docker-cleanup"},
                         status : Status])
  /\ budget.faults \in 0 .. MaxFaults /\ budget.rivals \in 0 .. MaxRivals
  /\ val.polls < PollAttempts

\* Every report that an executor builds is one the registry accepts: no gate
\* twice, no required one missing and no unknown one, on every path.
ReportIsAccepted == At("accepting") => Acceptable

\* How far a gate is along the phases of a validation.
Rank(n) ==
  CASE n = "static-safety" -> 0
    [] n = "locked-install" -> 1
    [] n \in ToSet(QualityGates) -> 2
    [] n \in ToSet(DatabaseGates \o HttpGates \o Chains) -> 3
    [] OTHER -> 4

\* A gate was run only after every gate of the earlier phases passed, and
\* among the runtime gates and those of a chain every earlier one.
PrerequisitesPassed ==
  \A i, j \in DOMAIN val.checks :
    /\ val.checks[j].status # "SKIPPED"
    /\ LET ri == Rank(val.checks[i].name)
           rj == Rank(val.checks[j].name)
       IN  ri < rj \/ (ri = 3 /\ rj = 3 /\ i < j)
    => val.checks[i].status = "PASS"

\* A cleanup gate that passed leaves no image, container or compose project
\* of this run, except what a timed-out request created later.
CleanupReportTellsResidue ==
  Reported => \A k \in Kind :
    /\ daemon[k] = "ours" /\ k \notin daemon.cameLate
    => Entry(IF k = "stack" THEN "compose-cleanup" ELSE "docker-cleanup", "FAIL")
         \in ToSet(val.checks)

\* What somebody else had under our names before the validation stays, and so
\* does a container of theirs that took the name meanwhile.
OthersKept ==
  [][\A k \in Kind : daemon[k] = "other" /\ (k \in daemon.preexisting \/ k = "container")
       => daemon'[k] = "other"]_dvars

\* "no container or volume of this run is left after it stops"
\* (scaffold_compiler_implementation_plan.md:716), for a validation that passed.
PassedLeavesNothing ==
  Reported /\ (\A i \in DOMAIN val.checks : val.checks[i].status = "PASS") /\ daemon.cameLate = {}
    => /\ daemon.container # "ours" /\ daemon.stack # "ours"
       /\ ~daemon.volume /\ ~daemon.helper
=============================================================================

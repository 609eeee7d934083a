-------------------------- MODULE DockerValidation --------------------------
(***************************************************************************)
(* The delivery gates of a validation (docker_validation_lifecycle.py): an *)
(* image lifecycle and a compose lifecycle, each a preflight, commands     *)
(* that create resources, and a finally block that removes what carries    *)
(* this run's label.  One action per docker command.                       *)
(*                                                                         *)
(* The docker daemon is external.  A command that is cut short by its      *)
(* timeout may have had its effect, may not, or may have it later: the     *)
(* daemon goes on with a request whose client was killed.  Names and       *)
(* labels derive from the run and the candidate, so a resource under one   *)
(* of the names is ours, or somebody else's.                               *)
(***************************************************************************)
EXTENDS Naturals, SequencesExt

CONSTANTS PollAttempts,  \* _HEALTH_POLL_ATTEMPTS
          MaxFaults,     \* bound: commands that fail for reasons of the host
          MaxRivals      \* bound: resources others create meanwhile

ASSUME BoundsAreNat ==
  PollAttempts \in Nat \ {0} /\ MaxFaults \in Nat /\ MaxRivals \in Nat

VARIABLES daemon,  \* the resources under our names, as the docker daemon has them
          val,     \* the validation in progress
          budget   \* faults and rivals left

dvars == <<daemon, val, budget>>

ImageGates == {"docker-build", "container-non-root", "container-health"}
ComposeGates == {"compose-config", "compose-up", "compose-health", "compose-cleanup"}
DeliveryGates == ImageGates \cup ComposeGates
Status == {"PASS", "FAIL", "SKIPPED"}
Kind == {"image", "container", "stack"}

----------------------------------------------------------------------------
(***************************************************************************)
(* The daemon.                                                             *)
(***************************************************************************)

\* An image takes the tag from another one; a container name or a compose
\* project that is taken stays with its owner, except that `up` joins it.
Made(k) ==
  CASE k = "helper"    -> [daemon EXCEPT !.helper = TRUE]
    [] k = "stack"     -> [daemon EXCEPT !.stack = "ours", !.volume = TRUE]
    [] k = "image"     -> [daemon EXCEPT !.image = "ours"]
    [] k = "container" -> [daemon EXCEPT !.container = IF @ = "none" THEN "ours" ELSE @]

Removed(k) == [daemon EXCEPT ![k] = "none"]
Later(k) == [daemon EXCEPT !.late = @ \cup {k}]

\* What a command cut short may leave.
Begun(k) == {daemon, Made(k), Later(k)}

\* `down` removes the containers before the volumes.
DownStates == {daemon, Removed("stack"), [Removed("stack") EXCEPT !.volume = FALSE]}

\* A request whose client is gone completes.
CompleteLate(k) ==
  /\ k \in daemon.late
  /\ daemon' = [Made(k) EXCEPT !.late = @ \ {k}, !.cameLate = @ \cup {k}]
  /\ UNCHANGED <<val, budget>>

\* The container of the user check runs with --rm and ends by itself.
HelperExits ==
  /\ daemon.helper /\ daemon' = [daemon EXCEPT !.helper = FALSE]
  /\ UNCHANGED <<val, budget>>

\* Somebody else takes one of the names while it is free.
RivalCreates(k) ==
  /\ budget.rivals > 0 /\ daemon[k] = "none"
  /\ daemon' = [daemon EXCEPT ![k] = "other"]
  /\ budget' = [budget EXCEPT !.rivals = @ - 1]
  /\ UNCHANGED val

Daemon ==
  \/ \E k \in Kind \cup {"helper"} : CompleteLate(k)
  \/ HelperExits
  \/ \E k \in Kind : RivalCreates(k)

----------------------------------------------------------------------------
(***************************************************************************)
(* How a command ends.                                                     *)
(***************************************************************************)

Fault == budget.faults > 0 /\ budget' = [budget EXCEPT !.faults = @ - 1]
Smooth == UNCHANGED budget

\* An inspection answers with the truth, or fails and proves nothing.
Inspected(truth, answer) ==
  /\ UNCHANGED daemon
  /\ \/ answer = truth /\ Smooth
     \/ answer = FALSE /\ Fault

Entry(n, status) == [name |-> n, status |-> status]
Verdict(n, ok) == Entry(n, IF ok THEN "PASS" ELSE "FAIL")
\* _skipped_requested, for each of its names
Skipped(n, requested) == IF n \in requested THEN <<Entry(n, "SKIPPED")>> ELSE <<>>

At(label) == val.pc = label
Move(label, entries) == val' = [val EXCEPT !.pc = label, !.checks = @ \o entries]

----------------------------------------------------------------------------
(***************************************************************************)
(* _execute_image_lifecycle.                                               *)
(***************************************************************************)

ComposeRequested == val.required \cap ComposeGates # {}
AfterImage == IF val.raising THEN "raised" ELSE IF ComposeRequested THEN "compose_preflight" ELSE "verify"
\* The compose stack proves the health of a container that depends on it.
DeferHealth == {"container-health", "compose-health"} \subseteq val.required

\* A mutant of ImageRequested: the image lifecycle reports the health gate too.
ImageRequestedTwice == val.required

ImageRequested == IF DeferHealth THEN val.required \ {"container-health"} ELSE val.required

ImageSkips ==
  Skipped("container-non-root", ImageRequested) \o Skipped("container-health", ImageRequested)

ImagePreflight ==
  /\ At("image_preflight")
  /\ \E absent \in BOOLEAN :
       /\ Inspected(daemon.image = "none" /\ daemon.container = "none", absent)
       /\ IF absent
          THEN Move("build", <<>>)
          ELSE Move(AfterImage,
                    <<Verdict("docker-build", FALSE)>>
                    \o ImageSkips
                    \o <<Verdict("docker-cleanup", TRUE)>>)

BuildFailed ==
  Move("own_container",
       <<Verdict("docker-build", FALSE)>>
       \o ImageSkips)

BuildImage ==
  /\ At("build")
  /\ \/ daemon' = Made("image") /\ Smooth /\ Move("build_owned", <<>>)
     \/ UNCHANGED daemon /\ Smooth /\ BuildFailed
     \/ daemon' \in Begun("image") /\ Fault /\ BuildFailed

AfterBuild == IF "container-non-root" \in ImageRequested THEN "non_root"
              ELSE IF "container-health" \in ImageRequested THEN "start" ELSE "own_container"

CheckBuilt ==
  /\ At("build_owned")
  /\ \E owned \in BOOLEAN :
       /\ Inspected(daemon.image = "ours", owned)
       /\ IF owned THEN Move(AfterBuild, <<Verdict("docker-build", TRUE)>>) ELSE BuildFailed

NonRoot ==
  /\ At("non_root")
  /\ \/ /\ UNCHANGED daemon /\ Smooth
        /\ Move(IF "container-health" \in ImageRequested THEN "start" ELSE "own_container",
                <<Verdict("container-non-root", TRUE)>>)
     \/ /\ \/ UNCHANGED daemon /\ Smooth
           \/ daemon' \in Begun("helper") /\ Fault
        /\ Move("own_container",
                <<Verdict("container-non-root", FALSE)>>
                \o Skipped("container-health", ImageRequested))

HealthIs(ok) == Move("own_container", <<Verdict("container-health", ok)>>)

StartContainer ==
  /\ At("start")
  /\ \/ /\ daemon.container = "none" /\ daemon' = Made("container") /\ Smooth
        /\ val' = [val EXCEPT !.pc = "start_owned", !.containerAttempted = TRUE]
     \/ /\ \/ daemon' \in {daemon, Made("container")} /\ Smooth
           \/ daemon' \in Begun("container") /\ Fault
        /\ val' = [val EXCEPT !.pc = "own_container", !.containerAttempted = TRUE,
                              !.checks = Append(@, Verdict("container-health", FALSE))]

CheckStarted ==
  /\ At("start_owned")
  /\ \E owned \in BOOLEAN :
       /\ Inspected(daemon.container = "ours", owned)
       /\ IF owned THEN Move("poll", <<>>) ELSE HealthIs(FALSE)

\* A mutant of Poll: one attempt too many.
PollOnceMore ==
  /\ At("poll") /\ UNCHANGED daemon
  /\ \/ Smooth /\ \E ok \in BOOLEAN : HealthIs(ok)
     \/ Fault /\ HealthIs(FALSE)
     \/ /\ Smooth
        /\ IF val.polls < PollAttempts
           THEN val' = [val EXCEPT !.polls = @ + 1]
           ELSE HealthIs(FALSE)

\* _poll_container_health
Poll ==
  /\ At("poll") /\ UNCHANGED daemon
  /\ \/ Smooth /\ \E ok \in BOOLEAN : HealthIs(ok)
     \/ Fault /\ HealthIs(FALSE)
     \/ /\ Smooth  \* still starting
        /\ IF val.polls + 1 < PollAttempts
           THEN val' = [val EXCEPT !.polls = @ + 1]
           ELSE HealthIs(FALSE)

\* A mutant of OwnContainer: the container is removed by its name alone.
OwnContainerAssumed ==
  /\ At("own_container")
  /\ UNCHANGED <<daemon, budget>>
  /\ Move(IF val.containerAttempted THEN "remove_container" ELSE "own_image", <<>>)

\* finally: remove the container and the image if they carry our label,
OwnContainer ==
  /\ At("own_container")
  /\ IF ~val.containerAttempted
     THEN UNCHANGED <<daemon, budget>> /\ Move("own_image", <<>>)
     ELSE \E owned \in BOOLEAN :
            /\ Inspected(daemon.container = "ours", owned)
            /\ Move(IF owned THEN "remove_container" ELSE "own_image", <<>>)

RemoveResource(k, from, to) ==
  /\ At(from)
  /\ \/ daemon' = Removed(k) /\ Smooth
     \/ daemon' \in {daemon, Removed(k)} /\ Fault
  /\ Move(to, <<>>)

OwnImage ==
  /\ At("own_image")
  /\ \E owned \in BOOLEAN :
       /\ Inspected(daemon.image = "ours", owned)
       /\ Move(IF owned THEN "remove_image" ELSE "image_residue", <<>>)

\* A mutant of ImageResidue: the cleanup commands are trusted.
ImageResidueAssumed ==
  /\ At("image_residue")
  /\ UNCHANGED <<daemon, budget>>
  /\ Move(AfterImage, <<Verdict("docker-cleanup", TRUE)>>)

\* and look at what is left under the two names.
ImageResidue ==
  /\ At("image_residue")
  /\ \E absent \in BOOLEAN :
       /\ Inspected(daemon.image = "none" /\ daemon.container = "none", absent)
       /\ Move(AfterImage, <<Verdict("docker-cleanup", absent)>>)

ImageLifecycle ==
  \/ ImagePreflight \/ BuildImage \/ CheckBuilt \/ NonRoot \/ StartContainer \/ CheckStarted
  \/ Poll \/ OwnContainer \/ OwnImage \/ ImageResidue
  \/ RemoveResource("container", "remove_container", "own_image")
  \/ RemoveResource("image", "remove_image", "image_residue")

----------------------------------------------------------------------------
(***************************************************************************)
(* _execute_compose_lifecycle.                                             *)
(***************************************************************************)

StatusOf(checks, n) == checks[SelectInSeq(checks, LAMBDA c : c.name = n)].status

\* _container_health_from_compose, inserted before docker-cleanup if it is there.
WithDeferredHealth(checks) ==
  IF ~DeferHealth THEN checks
  ELSE LET at == SelectInSeq(checks, LAMBDA c : c.name = "docker-cleanup")
           health == Entry("container-health", StatusOf(checks, "compose-health"))
       IN  InsertAt(checks, IF at = 0 THEN Len(checks) + 1 ELSE at, health)

ComposeSkips == Skipped("compose-up", val.required) \o Skipped("compose-health", val.required)

ComposeEnds(entries) ==
  IF val.raising THEN Move("raised", <<>>)
  ELSE val' = [val EXCEPT !.pc = "verify", !.checks = WithDeferredHealth(@ \o entries)]

ComposePreflight ==
  /\ At("compose_preflight")
  /\ \E absent \in BOOLEAN :
       /\ Inspected(daemon.stack = "none", absent)
       /\ IF absent
          THEN Move("compose_config", <<>>)
          ELSE ComposeEnds(<<Verdict("compose-config", FALSE)>>
                           \o ComposeSkips
                           \o <<Verdict("compose-cleanup", TRUE)>>)

ComposeConfig ==
  /\ At("compose_config") /\ UNCHANGED daemon /\ Smooth
  /\ \/ Move("up", <<Verdict("compose-config", TRUE)>>)
     \/ Move("compose_residue",
             <<Verdict("compose-config", FALSE)>>
             \o ComposeSkips)

ComposeUp ==
  /\ At("up")
  /\ \/ daemon' = Made("stack") /\ Smooth /\ Move("compose_health", <<Verdict("compose-up", TRUE)>>)
     \/ /\ \/ daemon' \in {daemon, Made("stack")} /\ Smooth
           \/ daemon' \in Begun("stack") /\ Fault
        /\ Move("down", <<Verdict("compose-up", FALSE)>>
                        \o Skipped("compose-health", val.required))

ComposeHealth ==
  /\ At("compose_health") /\ UNCHANGED daemon /\ Smooth
  /\ \E ok \in BOOLEAN : Move("down", <<Verdict("compose-health", ok)>>)

\* The exit code of `down` is not looked at.
ComposeDown ==
  /\ At("down")
  /\ \/ daemon' = [Removed("stack") EXCEPT !.volume = FALSE] /\ Smooth
     \/ daemon' \in DownStates /\ Fault
  /\ Move("compose_residue", <<>>)

\* `compose ls` lists projects that have containers.
ComposeResidue ==
  /\ At("compose_residue")
  /\ \E absent \in BOOLEAN :
       /\ Inspected(daemon.stack = "none", absent)
       /\ ComposeEnds(<<Verdict("compose-cleanup", absent)>>)

ComposeLifecycle ==
  \/ ComposePreflight \/ ComposeConfig \/ ComposeUp \/ ComposeHealth \/ ComposeDown
  \/ ComposeResidue

----------------------------------------------------------------------------
(***************************************************************************)
(* _run_safely turns only an OSError into a result.  Any other exception   *)
(* of a command (the TimeoutExpired of an unkillable child) goes through   *)
(* the finally block it is in, or past it.                                 *)
(***************************************************************************)
ImageTry == {"build", "build_owned", "non_root", "start", "start_owned", "poll"}
ComposeTry == {"compose_config", "up", "compose_health"}
Unprotected == {"image_preflight", "own_image", "remove_container", "remove_image",
                "image_residue", "compose_preflight", "down", "compose_residue"}

Created == [build |-> "image", non_root |-> "helper", start |-> "container", up |-> "stack"]

CutShort ==
  IF val.pc \in DOMAIN Created THEN Begun(Created[val.pc])
  ELSE IF At("down") THEN DownStates
  ELSE IF At("remove_container") THEN {daemon, Removed("container")}
  ELSE IF At("remove_image") THEN {daemon, Removed("image")}
  ELSE {daemon}

CommandRaises ==
  /\ Fault
  /\ daemon' \in CutShort
  /\ \/ /\ val.pc \in ImageTry
        /\ val' = [val EXCEPT !.pc = "own_container", !.raising = TRUE,
                              !.containerAttempted = @ \/ At("start")]
     \/ /\ val.pc \in ComposeTry
        /\ val' = [val EXCEPT !.pc = IF At("compose_config") THEN "compose_residue" ELSE "down",
                              !.raising = TRUE]
     \/ /\ val.pc \in Unprotected \/ (At("own_container") /\ val.containerAttempted)
        /\ val' = [val EXCEPT !.pc = "raised"]

DockerLifecycle == ImageLifecycle \/ ComposeLifecycle \/ CommandRaises
=============================================================================

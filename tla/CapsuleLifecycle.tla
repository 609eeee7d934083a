--------------------------- MODULE CapsuleLifecycle ---------------------------
(***************************************************************************)
(* How a capsule removes itself (release_entry.py and the supervisor of    *)
(* capsule_package.py).  A run started from the capsule verifies it,       *)
(* executes its command, and after a successful `run` or `cleanup` arms    *)
(* the cleanup: it creates the coordination directory next to the capsule, *)
(* writes the journal, and starts a supervisor, which waits for the run to *)
(* end before it verifies again and deletes.  Several runs may be started  *)
(* from one capsule.  Anybody may add to the trees or change a file.       *)
(*                                                                         *)
(* retry_capsule_cleanup is called by no program of the repository; here a *)
(* caller that still holds the VerifiedCapsule may use it after an attempt *)
(* that did not finish.                                                    *)
(***************************************************************************)
EXTENDS CapsulePackage

CONSTANTS Run,    \* processes started from the capsule
          Retry   \* the caller of retry_capsule_cleanup

ASSUME CleanersAreSupervisorsAndRetry == Retry \notin Run /\ Cleaner = Run \cup {Retry}

VARIABLE run

lvars == <<capsule, coord, builder, cleaner, budget, run>>

RunEnd == {"succeeded", "failed", "killed"}
RunPc == RunEnd \cup {"idle", "loaded", "mkdir", "journal", "start", "disarm", "output"}
CleanerEnd == {"done", "failed", "killed"}
CleanerPc == CleanerEnd \cup
  {"none", "waiting", "load", "verify", "verify_again", "files", "root", "finish",
   "journal_check", "journal_unlink", "coord_rmdir", "restore"}

Init ==
  /\ capsule = [root |-> FALSE, tree |-> [f \in File |-> "absent"], dirs |-> {},
                manifest |-> "absent", extra |-> {}]
  /\ coord = [dir |-> FALSE, journal |-> FALSE, extra |-> FALSE]
  /\ builder = "mkdir"
  /\ run = [p \in Run |-> [pc |-> "idle", ok |-> FALSE]]
  /\ cleaner = [c \in Cleaner |-> [pc |-> "none", files |-> {}, matched |-> {}, dirs |-> {},
                                   missing |-> FALSE, failed |-> FALSE]]
  /\ budget = [faults |-> MaxFaults, edits |-> MaxEdits, kills |-> MaxKills]

----------------------------------------------------------------------------
(***************************************************************************)
(* A run of the entry (main).                                              *)
(***************************************************************************)

RunMoves(p, from, to) ==
  /\ run[p].pc = from
  /\ run' = [run EXCEPT ![p] = [run[p] EXCEPT !.pc = to]]

\* _load_capsule_if_packaged: without a manifest the entry is no capsule's
\* and its run leaves the tree alone.
Load(p) ==
  /\ capsule.root /\ capsule.manifest # "absent"
  /\ \/ RunMoves(p, "idle", IF Exact THEN "loaded" ELSE "failed") /\ Smooth
     \/ RunMoves(p, "idle", "failed") /\ Fault
  /\ UNCHANGED <<capsule, coord, builder, cleaner>>

\* run_command_line: `run` or `cleanup` succeeds, another command does, or it fails.
Execute(p) ==
  /\ \/ /\ run[p].pc = "loaded"
        /\ run' = [run EXCEPT ![p] = [pc |-> "mkdir", ok |-> TRUE]]
     \/ RunMoves(p, "loaded", "succeeded")
     \/ RunMoves(p, "loaded", "failed")
  /\ UNCHANGED <<capsule, coord, builder, cleaner, budget>>

\* A mutant of MakeCoord: the mkdir is inside the try block.
MakeCoordInTry(p) ==
  /\ UNCHANGED <<capsule, builder, cleaner>>
  /\ \/ /\ ~coord.dir /\ RunMoves(p, "mkdir", "journal") /\ Smooth
        /\ coord' = [coord EXCEPT !.dir = TRUE]
     \/ coord.dir /\ RunMoves(p, "mkdir", "disarm") /\ Smooth /\ UNCHANGED coord
     \/ RunMoves(p, "mkdir", "disarm") /\ Fault /\ UNCHANGED coord

\* _arm_capsule_cleanup: mkdir fails if the directory is there,
MakeCoord(p) ==
  /\ UNCHANGED <<capsule, builder, cleaner>>
  /\ \/ /\ ~coord.dir /\ RunMoves(p, "mkdir", "journal") /\ Smooth
        /\ coord' = [coord EXCEPT !.dir = TRUE]
     \/ coord.dir /\ RunMoves(p, "mkdir", "failed") /\ Smooth /\ UNCHANGED coord
     \/ RunMoves(p, "mkdir", "failed") /\ Fault /\ UNCHANGED coord

WriteJournal(p) ==
  /\ UNCHANGED <<capsule, builder, cleaner>>
  /\ \/ /\ Exact /\ RunMoves(p, "journal", "start") /\ Smooth
        /\ coord' = [coord EXCEPT !.journal = TRUE]
     \/ ~Exact /\ RunMoves(p, "journal", "disarm") /\ Smooth /\ UNCHANGED coord
     \/ /\ RunMoves(p, "journal", "disarm") /\ Fault
        /\ \E written \in BOOLEAN : coord' = [coord EXCEPT !.journal = written]

StartSupervisor(p) ==
  /\ UNCHANGED <<capsule, coord, builder>>
  /\ \/ /\ Exact /\ coord.journal /\ RunMoves(p, "start", "output") /\ Smooth
        /\ cleaner' = [cleaner EXCEPT ![p] = [cleaner[p] EXCEPT !.pc = "waiting"]]
     \/ /\ ~(Exact /\ coord.journal) /\ RunMoves(p, "start", "disarm") /\ Smooth
        /\ UNCHANGED cleaner
     \/ RunMoves(p, "start", "disarm") /\ Fault /\ UNCHANGED cleaner

\* its except clause: unlink the journal, remove the directory.
Disarm(p) ==
  /\ RunMoves(p, "disarm", "failed")
  /\ UNCHANGED <<capsule, builder, cleaner>>
  /\ \/ /\ Smooth
        /\ coord' = [coord EXCEPT !.journal = FALSE, !.dir = @ /\ coord.extra]
     \/ Fault /\ \E left \in {coord.journal, FALSE} : coord' = [coord EXCEPT !.journal = left]

Finish(p) ==
  /\ RunMoves(p, "output", "succeeded")
  /\ UNCHANGED <<capsule, coord, builder, cleaner, budget>>

RunStep(p) ==
  \/ Load(p) \/ Execute(p) \/ MakeCoord(p) \/ WriteJournal(p) \/ StartSupervisor(p)
  \/ Disarm(p) \/ Finish(p)

----------------------------------------------------------------------------
(***************************************************************************)
(* The supervisor of a run (_capsule_supervisor_main).                     *)
(***************************************************************************)

OnlyMoves(c, from, to) == CleanerMoves(c, from, to) /\ UNCHANGED <<capsule, coord, builder, run>>

\* A mutant of Wake: without waiting.
WakeAtOnce(p) == OnlyMoves(p, "waiting", "load") /\ Smooth

\* End of file on the pipe: the run has ended, in whatever way.
Wake(p) == run[p].pc \in RunEnd /\ OnlyMoves(p, "waiting", "load") /\ Smooth

LoadJournal(p) ==
  \/ /\ OnlyMoves(p, "load", CASE ~coord.journal -> "failed"
                              [] capsule.root -> "verify"
                              [] OTHER -> "journal_check")
     /\ Smooth
  \/ Fault /\ OnlyMoves(p, "load", "failed")

Verify(p) ==
  \/ Exact /\ Smooth /\ OnlyMoves(p, "verify", "verify_again")
  \/ ~Exact /\ Smooth /\ OnlyMoves(p, "verify", "failed")
  \/ Fault /\ OnlyMoves(p, "verify", "failed")

\* cleanup_verified_capsule
VerifyAgain(p) ==
  \/ /\ Cleaning(p, "verify_again") /\ Exact /\ Smooth
     /\ cleaner' = [cleaner EXCEPT ![p] = Begin(p, FALSE)]
     /\ UNCHANGED <<capsule, coord, builder, run>>
  \/ ~Exact /\ Smooth /\ OnlyMoves(p, "verify_again", "failed")
  \/ Fault /\ OnlyMoves(p, "verify_again", "failed")

Completed(p) ==
  OnlyMoves(p, "finish", IF capsule.root THEN "failed" ELSE "journal_check") /\ Smooth

\* _finish_cleanup_journal
CheckCoord(p) ==
  \/ OnlyMoves(p, "journal_check", IF coord.extra \/ ~coord.journal THEN "failed"
                                   ELSE "journal_unlink") /\ Smooth
  \/ Fault /\ OnlyMoves(p, "journal_check", "failed")

UnlinkJournal(p) ==
  /\ UNCHANGED <<capsule, builder, run>>
  /\ \/ /\ CleanerMoves(p, "journal_unlink", "coord_rmdir") /\ Smooth
        /\ coord' = [coord EXCEPT !.journal = FALSE]
     \/ CleanerMoves(p, "journal_unlink", "failed") /\ Fault /\ UNCHANGED coord

RemoveCoord(p) ==
  /\ UNCHANGED <<capsule, builder, run>>
  /\ \/ /\ ~coord.extra /\ CleanerMoves(p, "coord_rmdir", "done") /\ Smooth
        /\ coord' = [coord EXCEPT !.dir = FALSE]
     \/ coord.extra /\ CleanerMoves(p, "coord_rmdir", "restore") /\ Smooth /\ UNCHANGED coord
     \/ CleanerMoves(p, "coord_rmdir", "restore") /\ Fault /\ UNCHANGED coord

RestoreJournal(p) ==
  /\ CleanerMoves(p, "restore", "failed") /\ UNCHANGED <<capsule, builder, run>>
  /\ \/ Smooth /\ coord' = [coord EXCEPT !.journal = TRUE]
     \/ Fault /\ UNCHANGED coord

SupervisorStep(p) ==
  \/ Wake(p) \/ LoadJournal(p) \/ Verify(p) \/ VerifyAgain(p)
  \/ Cleanup(p) /\ UNCHANGED run
  \/ Completed(p) \/ CheckCoord(p) \/ UnlinkJournal(p) \/ RemoveCoord(p) \/ RestoreJournal(p)

----------------------------------------------------------------------------
\* retry_capsule_cleanup
StartRetry ==
  /\ cleaner[Retry].pc \in {"none", "failed"}
  /\ \E p \in Run : cleaner[p].pc \in {"failed", "killed"}
  /\ \A p \in Run : cleaner[p].pc # "none" => cleaner[p].pc \in CleanerEnd /\ run[p].pc \in RunEnd
  /\ capsule.root /\ SubsetIsSafe
  /\ cleaner' = [cleaner EXCEPT ![Retry] = Begin(Retry, TRUE)]
  /\ UNCHANGED <<capsule, coord, builder, run, budget>>

RetryStep ==
  \/ StartRetry
  \/ Cleanup(Retry) /\ UNCHANGED run
  \/ OnlyMoves(Retry, "finish", IF capsule.root THEN "failed" ELSE "done") /\ Smooth

----------------------------------------------------------------------------
(***************************************************************************)
(* Users and the machine.                                                  *)
(***************************************************************************)

Edit ==
  /\ builder = "built" /\ budget.edits > 0
  /\ budget' = [budget EXCEPT !.edits = @ - 1]
  /\ \/ /\ \/ \E f \in File :
                capsule.tree[f] = "good" /\ capsule' = [capsule EXCEPT !.tree[f] = "changed"]
           \/ \E d \in Places : capsule' = [capsule EXCEPT !.extra = @ \cup {d}]
           \/ capsule.manifest = "good" /\ capsule' = [capsule EXCEPT !.manifest = "changed"]
        /\ UNCHANGED coord
     \/ coord.dir /\ coord' = [coord EXCEPT !.extra = TRUE] /\ UNCHANGED capsule
  /\ UNCHANGED <<builder, cleaner, run>>

Kill ==
  /\ budget.kills > 0 /\ budget' = [budget EXCEPT !.kills = @ - 1]
  /\ \/ \E p \in Run :
          /\ run[p].pc \notin RunEnd \cup {"idle"}
          /\ run' = [run EXCEPT ![p] = [run[p] EXCEPT !.pc = "killed"]]
          /\ UNCHANGED <<builder, cleaner>>
     \/ \E c \in Cleaner :
          /\ cleaner[c].pc \notin CleanerEnd \cup {"none"}
          /\ cleaner' = [cleaner EXCEPT ![c] = [cleaner[c] EXCEPT !.pc = "killed"]]
          /\ UNCHANGED <<builder, run>>
     \/ /\ builder \in {"copying", "removing"} /\ builder' = "abandoned"
        /\ UNCHANGED <<cleaner, run>>
  /\ UNCHANGED <<capsule, coord>>

Next ==
  \/ Builder /\ UNCHANGED run
  \/ \E p \in Run : RunStep(p) \/ SupervisorStep(p)
  \/ RetryStep \/ Edit \/ Kill

Spec == Init /\ [][Next]_lvars

(***************************************************************************)
(* A run and a supervisor that are not killed go on, and only wait for     *)
(* each other; nobody has to start a run or to retry.                      *)
(***************************************************************************)
FairSpec ==
  Spec /\ \A p \in Run : WF_lvars(run[p].pc # "idle" /\ RunStep(p)) /\ WF_lvars(SupervisorStep(p))

----------------------------------------------------------------------------
TypeOK ==
  /\ capsule \in [root : BOOLEAN, tree : [File -> Content], dirs : SUBSET Dir,
                  manifest : Content, extra : SUBSET (Dir \cup {Root})]
  /\ \A f \in File : capsule.tree[f] # "absent" => Home[f] \in Places
  /\ {Home[d] : d \in capsule.dirs} \cup capsule.extra \subseteq Places
  /\ coord \in [dir : BOOLEAN, journal : BOOLEAN, extra : BOOLEAN]
  /\ coord.journal => coord.dir
  /\ run \in [Run -> [pc : RunPc, ok : BOOLEAN]]
  /\ \A c \in Cleaner : cleaner[c].pc \in CleanerPc

\* Nobody is about to unlink f because it was as recorded when compared.
Foreign(f) ==
  /\ capsule.tree[f] = "changed"
  /\ \A c \in Cleaner : Cleaning(c, "files") => f \notin cleaner[c].matched

\* Nobody deletes on the strength of the manifest as it was.
ForeignManifest ==
  /\ capsule.manifest = "changed"
  /\ \A c \in Cleaner : Cleaning(c, "files") => cleaner[c].failed

\* What others change or add stays for good, whoever cleans up, is killed or
\* retries afterwards, but for two windows: a file changed between its own
\* comparison (capsule_package.py:540) and its unlink (:543) is lost, and so
\* is a manifest changed after the verification (:213, :227) with which the
\* deletion began, if nothing fails before its unlink (:557).  Once a window
\* has closed on a change, it never opens again.
ForeignKept ==
  [][builder = "built" =>
       /\ \A f \in File : Foreign(f) => Foreign(f)'
       /\ ForeignManifest => ForeignManifest'
       /\ capsule.extra \subseteq capsule'.extra
       /\ capsule.extra # {} => capsule'.root]_lvars

\* "Generator self-cleanup is armed only after the project transaction
\* reports success" and the supervisor "waits for the generator process to
\* exit" (README.md:162-163): as long as no armed run has succeeded and
\* ended, the capsule is complete.
SuccessGatesDeletion ==
  builder = "built" =>
    \/ \E p \in Run : run[p].ok /\ run[p].pc \in RunEnd /\ cleaner[p].pc \notin {"none", "waiting"}
    \/ /\ capsule.root /\ capsule.manifest # "absent" /\ capsule.dirs = Dir
       /\ \A f \in File : capsule.tree[f] # "absent"

\* "capsule_manifest.json is deleted last; a failure of any step keeps the
\* journal" (scaffold_compiler_implementation_plan.md:127): what is left of a
\* capsule has its manifest, and the journal of a supervisor outlives it.
EvidenceOutlivesCapsule ==
  builder = "built" /\ capsule.root =>
    /\ capsule.dirs # {} \/ (\E f \in File : capsule.tree[f] # "absent")
         => capsule.manifest # "absent"
    /\ (\E p \in Run : cleaner[p].pc # "none") => coord.journal

\* A supervisor that starts with an untouched capsule removes it, its journal
\* and its directory, unless something goes wrong from then on.
TroubleLeft == budget.faults + budget.edits + budget.kills

ArmedCleanupFinishes ==
  \A p \in Run, left \in 0 .. MaxFaults + MaxEdits + MaxKills :
    Cleaning(p, "waiting") /\ Exact /\ ~coord.extra /\ TroubleLeft = left
      ~> (~capsule.root /\ ~coord.dir) \/ TroubleLeft < left
=============================================================================

--------------------------- MODULE ScaffoldSystem ---------------------------
(***************************************************************************)
(* One generation run, the recovery commands its user may start at any     *)
(* time, and an environment that makes file operations fail, kills either  *)
(* process between any two effects, changes files, and creates a directory *)
(* where the project should go.                                            *)
(***************************************************************************)
EXTENDS GenerationRun, RecoveryCommands

ASSUME BudgetsAreNat == {Errors, Crashes, Edits} \subseteq Nat
ASSUME NoneIsNoDirectory == {NoDir, Foreign, None} \cap Tree = {} /\ NoDir # Foreign
ASSUME NoneIsNoSession == None \notin GenerationSession
ASSUME ThereIsADigest == Digest # {}

Init ==
  /\ disk = [workspace |-> FALSE, record |-> None, stray |-> FALSE,
             candidate |-> NoDir, ownership |-> FALSE, env |-> "absent",
             report |-> "absent", snapshot |-> NoDir, target |-> NoDir,
             locked |-> FALSE]
  /\ proc = [run     |-> [pc |-> "acquire", job |-> "generate",
                          session |-> None, todo |-> {}],
             command |-> [pc |-> "idle", job |-> "none",
                          session |-> None, todo |-> {}]]
  /\ faults = [error |-> Errors, crash |-> Crashes, edit |-> Edits]

----------------------------------------------------------------------------

Crash(p) ==
  /\ proc[p].pc \notin {"acquire", "idle", "ended", "crashed"}
  /\ Spend("crash")
  /\ proc' = [proc EXCEPT ![p].pc = IF p = "run" THEN "crashed"
                                                 ELSE "idle"]
  /\ \/ UNCHANGED disk
     \/ /\ WritesStore(p) /\ disk.workspace
        /\ disk' = [disk EXCEPT !.stray = TRUE]

\* Nobody edits a candidate while its files are being deleted: between the
\* comparison of the bytes and the unlink the code has no protection.
Deleting == \E p \in Process : At(p, "candidate_files")

EditCandidate(f) ==
  /\ Spend("edit")
  /\ disk.candidate # NoDir /\ disk.candidate[f] = "good" /\ ~Deleting
  /\ disk' = [disk EXCEPT !.candidate[f] = "bad"]
  /\ UNCHANGED proc

EditSnapshot(f) ==
  /\ Spend("edit")
  /\ disk.snapshot # NoDir /\ disk.snapshot[f] = "good"
  /\ disk' = [disk EXCEPT !.snapshot[f] = "bad"]
  /\ UNCHANGED proc

\* Before the run has looked at what it published, and after it is over.
EditTarget(f) ==
  /\ Spend("edit")
  /\ disk.target \notin {NoDir, Foreign} /\ disk.target[f] = "good"
  /\ \/ /\ At("run", "check_published")
        /\ disk' = [disk EXCEPT !.target[f] = "bad"]
     \/ /\ Finished("run")
        /\ disk' = [disk EXCEPT !.target[f] = "edited"]
  /\ UNCHANGED proc

CreateTarget ==
  /\ Spend("edit")
  /\ disk.target = NoDir
  /\ disk' = [disk EXCEPT !.target = Foreign]
  /\ UNCHANGED proc

Environment ==
  \/ \E p \in Process : Crash(p)
  \/ \E f \in File : EditCandidate(f) \/ EditSnapshot(f) \/ EditTarget(f)
  \/ CreateTarget

Next ==
  \/ RunStep \/ CommandStep \/ Environment
  \/ \E job \in {"cleanup", "discard", "recover"} : StartCommand(job)

Spec == Init /\ [][Next]_vars

\* A started command goes on unless it is killed; so does the run.  The user
\* starts commands when he likes, and the environment owes nothing.
FairSpec == Spec /\ WF_vars(RunStep) /\ WF_vars(CommandStep)

----------------------------------------------------------------------------

Label ==
  DOMAIN SimpleSaves \cup DOMAIN FailureSaves \cup
  {"acquire", "mkdir_workspace", "save_new", "plan", "save_planned",
   "candidate_mkdir", "assemble", "check_blueprints", "save_ownership",
   "save_materialized", "env_mkdir", "env_mark", "validate", "save_passed",
   "save_failed", "save_verified", "snapshot_mkdir", "copy",
   "publish_check", "move", "check_published", "env_check", "env_files",
   "env_marker", "env_rmdir", "candidate_check", "candidate_files",
   "unlink_report", "unlink_ownership", "release", "unlink_session",
   "rmdir_workspace", "abort", "ended", "crashed", "idle", "load",
   "preflight", "save_recovered", "save_cancelled", "save_done"}

TypeOK ==
  /\ disk \in Disk
  /\ disk.record # None => Constructible(disk.record)
  /\ ~disk.workspace => WorkspaceEmpty
  /\ \A p \in Process :
       /\ proc[p].pc \in Label
       /\ proc[p].job \in Job
       /\ proc[p].session \in GenerationSession \cup {None}
       /\ proc[p].todo \subseteq File
  /\ faults.error \in 0..Errors
  /\ faults.crash \in 0..Crashes
  /\ faults.edit \in 0..Edits

HasState(states) == disk.record # None /\ disk.record.state \in states

Published(t) == t \in [File -> {"good", "edited"}]

\* A record says COMMITTED, or later, only when the target holds the
\* generated project, byte for byte except for what its user did since: the
\* order "journal, move, compare, journal" of publish_confirmed_project and
\* the classification of recover_publish_state.
CommittedIsPublished ==
  HasState({"COMMITTED", "CLEANUP_PENDING", "DONE"}) =>
    Published(disk.target)

\* While a record owns a candidate and nobody asked to discard it, every
\* file of the project is still somewhere: no failure, crash or recovery
\* command deletes the last copy.
NoLastCopyLost ==
  disk.record # None /\ disk.record.candidate # None
    /\ disk.record.state # "CANCELLED" =>
    \A f \in File : \E t \in {disk.candidate, disk.snapshot, disk.target} :
      t \notin {NoDir, Foreign} /\ t[f] # "absent"

\* A failed or cancelled run has published nothing: what the user is told
\* can be discarded is not his project.
FailedMeansNotPublished ==
  HasState({"FAILED_RETRYABLE", "CANCELLED"}) =>
    disk.target \in {NoDir, Foreign}

\* No step of the run or of a command destroys what it does not own: a
\* changed file of an owned candidate, a directory somebody else created,
\* and the published project all stay.  This rests on an assumption about the
\* environment: EditCandidate is not taken while the files of a candidate are
\* being unlinked, since between the comparison of all bytes
\* (finalization.py:254) and an unlink (:267) the code has no protection.
OthersDataKept ==
  [][/\ disk.record # None /\ disk.record.candidate # None
          /\ disk.candidate # NoDir =>
          \A f \in File : disk.candidate[f] = "bad" =>
            disk'.candidate # NoDir /\ disk'.candidate[f] = "bad"
     /\ disk.target = Foreign => disk'.target = Foreign
     /\ disk.target \in Tree => disk'.target \in Tree]_vars

\* "AMBIGUOUS 状态不执行删除" (scaffold_compiler_implementation_plan.md:762)
\* - an ambiguous outcome is left to its user: no command changes its record
\* or takes away a directory that could hold the project.
AmbiguousIsPreserved ==
  [][HasState({"AMBIGUOUS"}) =>
       /\ disk'.record = disk.record
       /\ disk.candidate # NoDir =>
            disk'.candidate \in [File -> {"good", "bad"}]
       /\ disk.snapshot # NoDir => disk'.snapshot # NoDir
       /\ disk.target # NoDir => disk'.target # NoDir]_vars

\* Some event of the session machine leads from one record's state to the
\* other's.
MovesTo(old, new) ==
  \/ <<old.state, new.state>> \in
       {<<t[1], t[3]>> : t \in SimpleTransitions} \cup
       {<<t[1], "FAILED_RETRYABLE">> : t \in FailureTransitions} \cup
       {<<"NEW", "PLANNED">>, <<"MATERIALIZING", "MATERIALIZED">>,
        <<"VERIFYING", "VERIFIED">>}
  \/ old.state \in CancellableStates /\ new.state = "CANCELLED"

\* What is persisted follows the state machine of the session store although
\* two processes write it from their own memory.  Steps out of DONE are
\* excepted: a run still in its own cleanup may put CLEANUP_PENDING over the
\* DONE of a cleanup command (generation_workflow.py:288).
RecordFollowsStateMachine ==
  [][disk.record # None /\ disk'.record # None
       /\ disk'.record # disk.record /\ disk.record.state # "DONE" =>
       MovesTo(disk.record, disk'.record)]_vars

----------------------------------------------------------------------------
(***************************************************************************)
(* What the recovery commands promise.                                     *)
(***************************************************************************)

Accepted ==
  /\ At("command", "preflight") /\ Loaded = disk.record
  /\ \/ proc["command"].job = "cleanup" /\ CleanupAccepts(Loaded)
     \/ proc["command"].job = "discard" /\ DiscardAccepts(Loaded)

\* The evidence a command checks is enough: once it has accepted the
\* workspace of a finished run it removes the whole workspace, unless
\* something more goes wrong; it never stops half-way at something it could
\* have seen before it started.
AcceptedRecoveryFinishes ==
  \A e \in 0..Errors, c \in 0..Crashes, d \in 0..Edits :
    LET left == [error |-> e, crash |-> c, edit |-> d] IN
    Accepted /\ Finished("run") /\ faults = left
      ~> ~disk.workspace \/ faults # left

Quiet == Finished("run") /\ At("command", "idle")

\* "cleanup_pending after publication: leave the target untouched and use
\* cleanup" (docs/user_guide.md:224), and the run's own message that its
\* "cleanup is pending and can be retried": a retry is accepted.
CleanupIsRetryable ==
  Quiet /\ HasState({"CLEANUP_PENDING"}) => CleanupAccepts(disk.record)
=============================================================================

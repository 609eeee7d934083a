--------------------------- MODULE GenerationRun ----------------------------
(***************************************************************************)
(* execute_generation_transaction: one generation from the target lock to  *)
(* the removed workspace, with assemble_candidate_project,                 *)
(* prepare_validation_workspace, prepare_commit_snapshot and               *)
(* publish_confirmed_project in the place where it calls them.  The        *)
(* validators are external: they fill the validation environment and       *)
(* pass, fail a required check, or raise.                                  *)
(*                                                                         *)
(* A label names the effect that comes next.  "abort" is the outer finally *)
(* clause after an exception; "ended" and "crashed" are final.             *)
(***************************************************************************)
EXTENDS GenerationDisk

Session == proc["run"].session

\* Labels whose step persists one simple transition: its event, what follows.
SimpleSaves ==
  [save_materializing   |-> <<"MATERIALIZE_REQUESTED", "candidate_mkdir">>,
   save_verifying       |-> <<"VERIFY_REQUESTED", "env_mkdir">>,
   save_awaiting        |-> <<"FINALIZE_REQUESTED", "snapshot_mkdir">>,
   save_committing      |-> <<"FINALIZE_CONFIRMED", "publish_check">>,
   save_committed       |-> <<"PUBLISH_OBSERVED", "save_cleanup_pending">>,
   save_cleanup_pending |-> <<"CLEANUP_STARTED", "env_check">>,
   save_cleanup_failed  |-> <<"CLEANUP_FAILED", "abort">>,
   save_run_done        |-> <<"CLEANUP_SUCCEEDED", "release">>]

\* Labels whose step records a failure before the exception goes on.
FailureSaves ==
  [save_plan_failed        |-> "PLAN",
   save_materialize_failed |-> "MATERIALIZE",
   save_verify_failed      |-> "VERIFY",
   save_precheck_failed    |-> "FINALIZE_PRECHECK"]

----------------------------------------------------------------------------

\* TargetLockStore.acquire; TargetLock models what happens inside.
AcquireLock ==
  /\ At("run", "acquire")
  /\ \/ /\ disk.target = NoDir
        /\ Do("run", [disk EXCEPT !.locked = TRUE], "mkdir_workspace")
     \/ disk.target # NoDir /\ Do("run", disk, "ended")

MakeWorkspace ==
  Effect("run", "mkdir_workspace", [disk EXCEPT !.workspace = TRUE],
         "save_new", "abort")

SaveNew ==
  /\ At("run", "save_new")
  /\ SaveRecord("run", NewSession(TheDigest, 0), "plan", "abort")

CompilePlan ==
  /\ At("run", "plan")
  /\ \/ Do("run", disk, "save_planned")
     \/ OSError("run", disk, "save_plan_failed")

SavePlanned ==
  /\ At("run", "save_planned")
  /\ SaveRecord("run", PlanSucceeded(Session, TheDigest),
                "save_materializing", "abort")

SaveSimple(label) ==
  /\ At("run", label)
  /\ SaveRecord("run", Simple(Session, SimpleSaves[label][1]),
                SimpleSaves[label][2], "abort")

SaveFailure(label) ==
  /\ At("run", label)
  /\ SaveRecord("run", Failed(Session, FailureSaves[label]), "abort", "abort")

----------------------------------------------------------------------------
(***************************************************************************)
(* Materialization: assemble_candidate_project, then the ownership record. *)
(***************************************************************************)

MakeCandidate ==
  Effect("run", "candidate_mkdir", [disk EXCEPT !.candidate = EmptyTree],
         "assemble", "save_materialize_failed")

WriteCandidateFile(f) ==
  /\ At("run", "assemble")
  /\ disk.candidate[f] = "absent"
  /\ Do("run", [disk EXCEPT !.candidate[f] = "good"], "assemble")

\* _remove_incomplete_candidate: what it cannot delete stays, with the root.
AssemblyFails ==
  /\ At("run", "assemble")
  /\ \E residue \in {NoDir, disk.candidate} :
       OSError("run", [disk EXCEPT !.candidate = residue],
               "save_materialize_failed")

\* The digest of the tree is computed from what is on disk.
FinishAssembly ==
  /\ At("run", "assemble")
  /\ \A f \in File : disk.candidate[f] # "absent"
  /\ \/ disk.candidate = GoodTree /\ Do("run", disk, "check_blueprints")
     \/ /\ disk.candidate # GoodTree
        /\ Do("run", [disk EXCEPT !.candidate = NoDir],
              "save_materialize_failed")

\* Blueprint bytes that changed during materialization are an error; the
\* candidate stays.
CheckBlueprints ==
  /\ At("run", "check_blueprints")
  /\ \/ Do("run", disk, "save_ownership")
     \/ OSError("run", disk, "save_materialize_failed")

SaveOwnership ==
  Effect("run", "save_ownership", [disk EXCEPT !.ownership = TRUE],
         "save_materialized", "save_materialize_failed")

SaveMaterialized ==
  /\ At("run", "save_materialized")
  /\ SaveRecord("run", CandidateRecorded(Session, TheDigest),
                "save_verifying", "abort")

----------------------------------------------------------------------------
(***************************************************************************)
(* Verification: the environment, the validators, the report, the          *)
(* credential.                                                             *)
(***************************************************************************)

MakeEnvironment ==
  Effect("run", "env_mkdir", [disk EXCEPT !.env = "unmarked"],
         "env_mark", "save_verify_failed")

\* A marker that cannot be written takes the root with it, if that works.
MarkEnvironment ==
  /\ At("run", "env_mark")
  /\ \/ Do("run", [disk EXCEPT !.env = "marked"], "validate")
     \/ \E left \in {"absent", "unmarked"} :
          OSError("run", [disk EXCEPT !.env = left], "save_verify_failed")

\* The outcome decides which report is saved; none when a validator raises,
\* or when its report does not bind this run or omits a required check.
Validate ==
  /\ At("run", "validate")
  /\ \/ \E outcome \in {"save_passed", "save_failed"} :
          Do("run", [disk EXCEPT !.env = "filled"], outcome)
     \/ OSError("run", [disk EXCEPT !.env = "filled"], "save_verify_failed")

\* A report with a failed required check is saved, and then refused by
\* issue_verification_credential.
SaveReport ==
  \/ Effect("run", "save_passed", [disk EXCEPT !.report = "passed"],
            "save_verified", "save_verify_failed")
  \/ Effect("run", "save_failed", [disk EXCEPT !.report = "failed"],
            "save_verify_failed", "save_verify_failed")

SaveVerified ==
  /\ At("run", "save_verified")
  /\ SaveRecord("run", VerifySucceeded(Session, TheDigest),
                "save_awaiting", "abort")

----------------------------------------------------------------------------
(***************************************************************************)
(* Finalization: the sealed snapshot, the move that never replaces, the    *)
(* check of what arrived.                                                  *)
(***************************************************************************)

MakeSnapshot ==
  /\ At("run", "snapshot_mkdir")
  /\ \/ /\ disk.candidate = GoodTree
        /\ \/ Do("run", [disk EXCEPT !.snapshot = EmptyTree], "copy")
           \/ OSError("run", disk, "save_precheck_failed")
     \/ disk.candidate # GoodTree /\ Do("run", disk, "save_precheck_failed")

\* A failed copy is remembered only once it is complete: the file under
\* construction is not in created_files, stays, and keeps the root.
CopyFile(f) ==
  /\ At("run", "copy")
  /\ disk.snapshot[f] = "absent"
  /\ \/ Do("run", [disk EXCEPT !.snapshot[f] = disk.candidate[f]], "copy")
     \/ \E residue \in {NoDir, [EmptyTree EXCEPT ![f] = "bad"]} :
          OSError("run", [disk EXCEPT !.snapshot = residue],
                  "save_precheck_failed")

CopiesMatch == disk.candidate = GoodTree /\ disk.snapshot = GoodTree

\* Both trees are compared again before the snapshot is sealed.
SealSnapshot ==
  /\ At("run", "copy")
  /\ \A f \in File : disk.snapshot[f] # "absent"
  /\ \/ CopiesMatch /\ Do("run", disk, "save_committing")
     \/ ~CopiesMatch /\ Do("run", [disk EXCEPT !.snapshot = NoDir],
                           "save_precheck_failed")
     \/ \E residue \in {NoDir, disk.snapshot} :
          OSError("run", [disk EXCEPT !.snapshot = residue],
                  "save_precheck_failed")

\* publish_commit_snapshot: any refusal leaves the record COMMITTING.
CheckPublication ==
  Branch("run", "publish_check",
         disk.target = NoDir /\ disk.snapshot = GoodTree, "move", "abort")

\* A mutant of Publish: rename instead of the no-replace primitive.
PublishReplacing ==
  Effect("run", "move",
         [disk EXCEPT !.target = disk.snapshot, !.snapshot = NoDir],
         "check_published", "abort")

\* One atomic directory rename that fails when the target exists.
Publish ==
  \/ /\ disk.target = NoDir
     /\ Effect("run", "move",
               [disk EXCEPT !.target = disk.snapshot, !.snapshot = NoDir],
               "check_published", "abort")
  \/ disk.target # NoDir /\ At("run", "move") /\ Do("run", disk, "abort")

\* A mutant of CheckPublished: the bug of trusting the sealed snapshot.
SkipCheckPublished ==
  Branch("run", "check_published", TRUE, "save_committed", "abort")

CheckPublished ==
  Branch("run", "check_published", disk.target = GoodTree,
         "save_committed", "abort")

----------------------------------------------------------------------------
(***************************************************************************)
(* The end of the run, and of its lock.                                    *)
(***************************************************************************)

\* Without missing_ok: a report somebody else removed is an error too.
UnlinkRunReport ==
  /\ At("run", "unlink_report")
  /\ \/ /\ disk.report # "absent"
        /\ \/ Do("run", [disk EXCEPT !.report = "absent"],
                 "unlink_ownership")
           \/ OSError("run", disk, "save_cleanup_failed")
     \/ disk.report = "absent" /\ Do("run", disk, "save_cleanup_failed")

UnlinkRunOwnership ==
  /\ At("run", "unlink_ownership")
  /\ \/ /\ disk.ownership
        /\ \/ Do("run", [disk EXCEPT !.ownership = FALSE], "save_run_done")
           \/ OSError("run", disk, "save_cleanup_failed")
     \/ ~disk.ownership /\ Do("run", disk, "save_cleanup_failed")

ReleaseLock ==
  Effect("run", "release", [disk EXCEPT !.locked = FALSE],
         "unlink_session", "abort")

\* The finally clause: an error is logged and the lock stays.
ReleaseAfterError ==
  Effect("run", "abort", [disk EXCEPT !.locked = FALSE], "ended", "ended")

RunSaves ==
  \/ SaveNew \/ SavePlanned \/ SaveMaterialized \/ SaveVerified
  \/ \E label \in DOMAIN SimpleSaves : SaveSimple(label)
  \/ \E label \in DOMAIN FailureSaves : SaveFailure(label)

RunStep ==
  \/ AcquireLock \/ MakeWorkspace \/ CompilePlan \/ RunSaves
  \/ MakeCandidate \/ AssemblyFails \/ FinishAssembly \/ CheckBlueprints
  \/ SaveOwnership \/ MakeEnvironment \/ MarkEnvironment \/ Validate
  \/ SaveReport \/ MakeSnapshot \/ SealSnapshot \/ CheckPublication
  \/ Publish \/ CheckPublished \/ UnlinkRunReport \/ UnlinkRunOwnership
  \/ ReleaseLock \/ ReleaseAfterError
  \/ \E f \in File : WriteCandidateFile(f) \/ CopyFile(f)
  \/ DeletionStep("run")
  \/ UnlinkSession("run", "ended") \/ RemoveWorkspace("run", "ended")

\* The process dies; a store it was writing may leave its temporary file.
WritesStore(p) ==
  \/ proc[p].pc \in DOMAIN SimpleSaves \cup DOMAIN FailureSaves
  \/ proc[p].pc \in {"save_new", "save_planned", "save_ownership",
                     "save_materialized", "save_passed", "save_failed",
                     "save_verified", "save_cancelled", "save_done",
                     "save_recovered"}
============================================================================

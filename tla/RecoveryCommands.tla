-------------------------- MODULE RecoveryCommands --------------------------
(***************************************************************************)
(* The commands a user has for a workspace a run left behind:              *)
(* retry_cleanup_pending_workspace, discard_failed_workspace and           *)
(* recover_finalize_transaction.  Each loads session.json, checks the      *)
(* evidence, and acts; a refusal ends the command with nothing changed.    *)
(* The checks of one command are one step: they only read.                 *)
(***************************************************************************)
EXTENDS GenerationDisk

Loaded == proc["command"].session

\* Any entry outside the fixed five is unowned; so is a leftover *.tmp.
EntriesAllowed == disk.snapshot = NoDir /\ ~disk.stray

\* The record and the target are the only evidence left of a DONE run.
OnlySessionLeft ==
  /\ disk.candidate = NoDir /\ disk.env = "absent"
  /\ disk.report = "absent" /\ ~disk.ownership

\* A mutant of CleanupAccepts: the bug of checking what is deleted, but not
\* what the record says nor the target.
CleanupAcceptsAny(s) ==
  EntriesAllowed /\ disk.ownership /\ CandidateSafe /\ EnvironmentOwned

\* retry_cleanup_pending_workspace up to its first effect.
CleanupAccepts(s) ==
  /\ s.state \in {"CLEANUP_PENDING", "DONE"}
  /\ EntriesAllowed
  /\ IF disk.ownership THEN disk.target = GoodTree
                       ELSE s.state = "DONE" /\ OnlySessionLeft
  /\ s.state = "CLEANUP_PENDING" =>
       disk.report # "failed" /\ CandidateSafe /\ EnvironmentOwned

\* _load_bound_candidate: without a candidate a cancelled run needs no
\* evidence; with one its ownership and its whole tree must match.
CandidateBound(s) ==
  IF disk.candidate = NoDir /\ (s.state = "CANCELLED" \/ ~disk.ownership)
  THEN s.state = "CANCELLED" \/ s.candidate = None
  ELSE disk.ownership /\ disk.candidate = GoodTree /\ s.candidate # None

\* _load_bound_failed_gates: no report, then no failed verification either.
ReportBound(s) ==
  IF disk.report = "absent" THEN s.failed # "VERIFY"
                            ELSE s.candidate # None

\* A mutant of DiscardAccepts: the bug of discarding every run that stopped
\* before DONE.
DiscardAcceptsAny(s) ==
  /\ s.state \in {"FAILED_RETRYABLE", "CANCELLED", "COMMITTING", "COMMITTED",
                  "AMBIGUOUS"}
  /\ EntriesAllowed

\* discard_failed_workspace up to its first effect.
DiscardAccepts(s) ==
  /\ s.state \in {"FAILED_RETRYABLE", "CANCELLED"}
  /\ EntriesAllowed
  /\ CandidateBound(s) /\ ReportBound(s) /\ EnvironmentOwned

\* recover_publish_state: exactly one of the two directories must exist, and
\* its bytes must match.
PublishFacts ==
  LET snapshotExists == disk.snapshot # NoDir
      targetExists == disk.target # NoDir
      existing == IF snapshotExists THEN disk.snapshot ELSE disk.target
  IN  IF snapshotExists = targetExists \/ existing # GoodTree
      THEN "RECOVER_AMBIGUOUS"
      ELSE IF snapshotExists THEN "RECOVER_BEFORE_PUBLISH"
                             ELSE "RECOVER_PUBLISHED"

----------------------------------------------------------------------------

Finished(p) == proc[p].pc \in {"ended", "crashed"}

\* Neither cleanup nor discard takes the target lock, so the run may still
\* be alive; a caller of the finalize recovery owns the run.
StartCommand(job) ==
  /\ At("command", "idle")
  /\ disk.workspace
  /\ job \in {"cleanup", "discard", "recover"}
  /\ job = "recover" => Finished("run")
  /\ proc' = [proc EXCEPT !["command"].pc = "load",
                          !["command"].job = job]
  /\ UNCHANGED <<disk, faults>>

LoadSession ==
  /\ At("command", "load")
  /\ proc' = [proc EXCEPT
       !["command"].pc = IF disk.record = None THEN "idle"
                                               ELSE "preflight",
       !["command"].session = disk.record]
  /\ UNCHANGED <<disk, faults>>

\* A run that is DONE has only its metadata left to remove.
PreflightCleanup ==
  /\ proc["command"].job = "cleanup"
  /\ Branch("command", "preflight", CleanupAccepts(Loaded),
            IF Loaded.state = "DONE" THEN "unlink_ownership"
                                     ELSE "env_check", "idle")

\* The intent to cancel is persisted before anything is deleted.
PreflightDiscard ==
  /\ proc["command"].job = "discard"
  /\ Branch("command", "preflight", DiscardAccepts(Loaded),
            IF Loaded.state = "CANCELLED" THEN "candidate_check"
                                          ELSE "save_cancelled", "idle")

\* COMMITTED and AMBIGUOUS records are left as they are.
PreflightRecover ==
  /\ proc["command"].job = "recover"
  /\ Branch("command", "preflight", Loaded.state = "COMMITTING",
            "save_recovered", "idle")

SaveRecovered ==
  /\ At("command", "save_recovered")
  /\ SaveRecord("command", Simple(Loaded, PublishFacts), "idle", "idle")

SaveCancelled ==
  /\ At("command", "save_cancelled")
  /\ SaveRecord("command", Moved(Loaded, "CANCELLED"), "candidate_check",
                "idle")

\* With missing_ok.
UnlinkReport ==
  Effect("command", "unlink_report", [disk EXCEPT !.report = "absent"],
         IF proc["command"].job = "cleanup" THEN "save_done"
                                            ELSE "unlink_ownership",
         "idle")

SaveDone ==
  /\ At("command", "save_done")
  /\ SaveRecord("command", Simple(Loaded, "CLEANUP_SUCCEEDED"),
                "unlink_ownership", "idle")

UnlinkOwnership ==
  Effect("command", "unlink_ownership", [disk EXCEPT !.ownership = FALSE],
         "unlink_session", "idle")

CommandStep ==
  \/ LoadSession \/ PreflightCleanup \/ PreflightDiscard
  \/ PreflightRecover \/ SaveRecovered \/ SaveCancelled \/ UnlinkReport
  \/ SaveDone \/ UnlinkOwnership
  \/ DeletionStep("command")
  \/ UnlinkSession("command", "idle")
  \/ RemoveWorkspace("command", "idle")
============================================================================

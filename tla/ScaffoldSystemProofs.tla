------------------------- MODULE ScaffoldSystemProofs -------------------------
(***************************************************************************)
(* The safety of ScaffoldSystem for any set of files and any budgets of    *)
(* errors, kills and edits.                                                *)
(*                                                                         *)
(* The run and the commands share no lock, so the strengthening (IInv)     *)
(* says what keeps them apart: while the run builds, verifies or publishes *)
(* the record on disk is the one it has in memory, in a state that no      *)
(* command accepts (RunIsAlone); what a command has loaded and accepted    *)
(* still holds of the disk when it acts on it (CommandHolds); and a        *)
(* record's state says where the project's bytes are (RecordTells).        *)
(***************************************************************************)
EXTENDS ScaffoldSystem, TLAPS

rp == proc["run"].pc
rs == proc["run"].session
cp == proc["command"].pc
cj == proc["command"].job
cs == proc["command"].session

\* Where the run is, by the state of the record it has in memory.
AtNew == {"plan", "save_planned", "save_plan_failed"}
AtPlanned == {"save_materializing"}
AtMaterializing ==
  {"candidate_mkdir", "assemble", "check_blueprints", "save_ownership",
   "save_materialized", "save_materialize_failed"}
AtMaterialized == {"save_verifying"}
AtVerifying ==
  {"env_mkdir", "env_mark", "validate", "save_passed", "save_failed",
   "save_verified", "save_verify_failed"}
AtVerified == {"save_awaiting"}
AtAwaiting == {"snapshot_mkdir", "copy", "save_committing", "save_precheck_failed"}
AtCommitting == {"publish_check", "move", "check_published", "save_committed"}
AtCommitted == {"save_cleanup_pending"}
Building ==
  AtNew \cup AtPlanned \cup AtMaterializing \cup AtMaterialized \cup
  AtVerifying \cup AtVerified \cup AtAwaiting \cup AtCommitting \cup AtCommitted

Deletes ==
  {"env_check", "env_files", "env_marker", "env_rmdir", "candidate_check",
   "candidate_files", "unlink_report"}
AtPending == Deletes \cup {"unlink_ownership", "save_cleanup_failed", "save_run_done"}
AtDone == {"release", "unlink_session", "rmdir_workspace"}
Over == {"abort", "ended", "crashed"}
RunLabel ==
  {"acquire", "mkdir_workspace", "save_new"} \cup Building \cup AtPending \cup AtDone \cup Over

Leaves == {"unlink_ownership", "unlink_session", "rmdir_workspace"}
CommandLabel ==
  {"idle", "load", "preflight", "save_recovered", "save_cancelled", "save_done"}
    \cup Deletes \cup Leaves

Committed == {"COMMITTED", "CLEANUP_PENDING", "DONE"}
Ending == {"CLEANUP_PENDING", "DONE"}
Dropped == {"FAILED_RETRYABLE", "CANCELLED"}
Whole ==
  {"MATERIALIZED", "VERIFYING", "VERIFIED", "AWAITING_CONFIRMATION",
   "COMMITTING", "AMBIGUOUS"}

Is(s, states) == s # None /\ s.state \in states

\* A candidate with all of its files.
Full(t) == t \in [File -> {"good", "bad"}]

DiskTyped ==
  /\ disk \in Disk
  /\ disk.record # None => Constructible(disk.record)
  /\ ~disk.workspace => WorkspaceEmpty

ProcTyped ==
  /\ DOMAIN proc = Process
  /\ \A p \in Process :
       /\ DOMAIN proc[p] = {"pc", "job", "session", "todo"}
       /\ proc[p].job \in Job /\ proc[p].todo \in SUBSET File
       /\ proc[p].session \in GenerationSession \cup {None}

FaultsTyped == faults \in [error : 0..Errors, crash : 0..Crashes, edit : 0..Edits]

\* Nobody else writes while the run builds and publishes.
RunIsAlone ==
  /\ rp \in RunLabel /\ proc["run"].job = "generate"
  /\ rp \in {"acquire", "mkdir_workspace", "save_new"} => disk.record = None
  /\ rp \in Building \cup {"save_new"} => disk.workspace
  /\ rp \in Building => rs # None /\ disk.record = rs
  /\ rp \in AtNew => Is(rs, {"NEW"})
  /\ rp \in AtPlanned => Is(rs, {"PLANNED"})
  /\ rp \in AtMaterializing => Is(rs, {"MATERIALIZING"})
  /\ rp \in AtMaterialized => Is(rs, {"MATERIALIZED"})
  /\ rp \in AtVerifying => Is(rs, {"VERIFYING"})
  /\ rp \in AtVerified => Is(rs, {"VERIFIED"})
  /\ rp \in AtAwaiting => Is(rs, {"AWAITING_CONFIRMATION"})
  /\ rp \in AtCommitting => Is(rs, {"COMMITTING"})
  /\ rp \in AtCommitted => Is(rs, {"COMMITTED"})
  /\ rp \in AtPending => Is(rs, {"CLEANUP_PENDING"})
  /\ rp \in AtPending \cup AtDone =>
       Is(rs, Ending) /\ (disk.record = None \/ Is(disk.record, Ending))

\* What the run relies on between two of its effects.
RunHolds ==
  /\ rp \notin AtPending \cup AtDone \cup AtCommitted \cup Over \cup {"check_published", "save_committed"}
       => disk.target \in {NoDir, Foreign}
  /\ rp = "save_committed" => disk.target = GoodTree
  /\ rp = "assemble" => disk.candidate \in Tree
  /\ rp \in {"check_blueprints", "save_ownership", "save_materialized"} => Full(disk.candidate)
  /\ rp \in {"copy", "move"} => disk.snapshot \in Tree

\* What the record says is so on the disk.
RecordTells ==
  /\ \A s \in {disk.record, rs, cs} : Is(s, Committed) =>
       Published(disk.target) /\ rp \in AtCommitted \cup AtPending \cup AtDone \cup Over
  /\ \A s \in {disk.record, cs} : Is(s, Ending) => rp \in AtPending \cup AtDone \cup Over
  /\ \A s \in {disk.record, cs} : Is(s, Dropped) =>
       disk.target \in {NoDir, Foreign} /\ rp \in Over
  /\ Is(disk.record, {"NEW", "PLANNED", "MATERIALIZING"}) => disk.record.candidate = None
  /\ Is(disk.record, Whole) => Full(disk.candidate)
  /\ Is(disk.record, {"FAILED_RETRYABLE"}) /\ disk.record.candidate # None => Full(disk.candidate)

\* What a command has loaded is still what the disk says.
CommandHolds ==
  /\ cp \in CommandLabel
  /\ cp # "idle" => cj \in {"cleanup", "discard", "recover"}
  /\ cp \notin {"idle", "load"} => cs # None
  /\ cp \in Deletes \cup Leaves => cj \in {"cleanup", "discard"}
  /\ cp = "save_done" => cj = "cleanup"
  /\ cp = "save_cancelled" => cj = "discard"
  /\ cp = "save_recovered" => cj = "recover"
  /\ cp \in Deletes \cup Leaves \cup {"save_done"} /\ cj = "cleanup" => Is(cs, Ending)
  /\ cp \in Deletes \cup {"save_done"} /\ cj = "cleanup" => Is(cs, {"CLEANUP_PENDING"})
  /\ cp \in Deletes \cup Leaves /\ cj = "discard" => Is(cs, {"CANCELLED"})
  /\ cp = "save_cancelled" => Is(cs, {"FAILED_RETRYABLE"})
  /\ cp = "save_recovered" => Is(cs, {"COMMITTING"})
  /\ cp # "idle" /\ cj = "recover" => rp \in {"ended", "crashed"}
  /\ cp \in {"preflight", "save_recovered"} /\ cj = "recover" => disk.record = cs
  /\ Is(cs, Ending) => disk.record = None \/ Is(disk.record, Ending)
  /\ Is(cs, Dropped) => disk.record = None \/ disk.record = cs
  /\ Is(disk.record, {"AMBIGUOUS"}) => rp \in {"ended", "crashed"} /\ cs = disk.record

\* While files of a candidate are deleted, none of them is anybody's work.
DeletesOwn ==
  rp = "candidate_files" \/ cp = "candidate_files" =>
    disk.candidate = NoDir \/ disk.candidate \in [File -> {"absent", "good"}]

IInv == DiskTyped /\ ProcTyped /\ FaultsTyped /\ RunIsAlone /\ RunHolds /\ RecordTells /\ CommandHolds /\ DeletesOwn

----------------------------------------------------------------------------
(***************************************************************************)
(* What a step comes to.  StepOK says what it does to the record, to the   *)
(* trees and to what is published; the action properties follow from it.   *)
(***************************************************************************)

RecordStep ==
  \/ disk'.record = disk.record
  \/ disk.record = None
  \/ disk'.record = None /\ ~Is(disk.record, {"AMBIGUOUS"})
  \/ Is(disk.record, {"DONE"})
  \/ disk'.record # None /\ MovesTo(disk.record, disk'.record)

CandidateStep ==
  \/ disk'.candidate = disk.candidate
  \/ disk.record # None /\ disk.record.candidate = None /\ ~Is(disk.record, {"AMBIGUOUS"})
  \/ \E f \in File : /\ disk.candidate \in Tree /\ disk.candidate[f] = "good"
                     /\ disk'.candidate = [disk.candidate EXCEPT ![f] = "bad"]
  \/ /\ disk.record = None \/ Is(disk.record, Ending \cup {"CANCELLED"})
     /\ disk.candidate = NoDir \/ disk.candidate \in [File -> {"absent", "good"}]

SnapshotStep ==
  disk.snapshot # NoDir => disk'.snapshot # NoDir \/ rp \in AtAwaiting \cup AtCommitting

TargetStep ==
  \/ disk'.target = disk.target
  \/ disk.target = NoDir
  \/ disk.target \in Tree /\ disk'.target \in Tree

StepOK == RecordStep /\ CandidateStep /\ SnapshotStep /\ TargetStep

\* Only the run moves, and it keeps the record it has in memory.
OnlyRun ==
  /\ ProcTyped' /\ FaultsTyped'
  /\ rs' = rs /\ proc'["run"].job = proc["run"].job
  /\ cp' = cp /\ cj' = cj /\ cs' = cs

OnlyCommand ==
  /\ ProcTyped' /\ FaultsTyped'
  /\ rp' = rp /\ rs' = rs /\ proc'["run"].job = proc["run"].job

\* A budget never gets negative.
LEMMA Spending ==
  ASSUME FaultsTyped, NEW kind \in {"error", "crash", "edit"}, Spend(kind) PROVE FaultsTyped'
<1>1. faults' = [faults EXCEPT ![kind] = faults[kind] - 1] /\ faults[kind] > 0
  BY DEF Spend
<1>2. PICK n \in {Errors, Crashes, Edits} : faults[kind] \in 0..n /\ (kind = "error" => n = Errors)
                                          /\ (kind = "crash" => n = Crashes) /\ (kind = "edit" => n = Edits)
  BY DEF FaultsTyped
<1>3. faults[kind] - 1 \in 0..n
  BY <1>1, <1>2, BudgetsAreNat
<1> QED
  BY <1>1, <1>2, <1>3 DEF FaultsTyped

\* An effect and a failing call differ in the budget only.
LEMMA DoOrError ==
  ASSUME FaultsTyped, NEW p, NEW d, NEW to, Do(p, d, to) \/ OSError(p, d, to)
  PROVE  /\ disk' = d /\ proc' = [proc EXCEPT ![p].pc = to]
         /\ FaultsTyped'
<1>1. CASE Do(p, d, to)
  BY <1>1 DEF Do, FaultsTyped
<1>2. CASE OSError(p, d, to)
  BY <1>2, Spending DEF OSError
<1> QED
  BY <1>1, <1>2

\* What Do and OSError leave alone when the run takes the step ...
LEMMA RunDoes ==
  ASSUME ProcTyped, FaultsTyped, NEW d, NEW to, Do("run", d, to) \/ OSError("run", d, to)
  PROVE  disk' = d /\ rp' = to /\ OnlyRun
<1>1. disk' = d /\ proc' = [proc EXCEPT !["run"].pc = to] /\ FaultsTyped'
  BY DoOrError
<1>2. /\ rp' = to /\ rs' = rs /\ cp' = cp /\ cj' = cj /\ cs' = cs
      /\ proc'["run"].job = proc["run"].job
      /\ ProcTyped'
  BY <1>1 DEF ProcTyped, Process, rp, rs, cp, cj, cs
<1> QED
  BY <1>1, <1>2 DEF OnlyRun

\* ... and when the command does.
LEMMA CommandDoes ==
  ASSUME ProcTyped, FaultsTyped, NEW d, NEW to, Do("command", d, to) \/ OSError("command", d, to)
  PROVE  disk' = d /\ cp' = to /\ cj' = cj /\ cs' = cs /\ OnlyCommand
<1>1. disk' = d /\ proc' = [proc EXCEPT !["command"].pc = to] /\ FaultsTyped'
  BY DoOrError
<1>2. /\ cp' = to /\ cs' = cs /\ rp' = rp /\ cj' = cj /\ rs' = rs
      /\ proc'["run"].job = proc["run"].job
      /\ ProcTyped'
  BY <1>1 DEF ProcTyped, Process, rp, rs, cp, cj, cs
<1> QED
  BY <1>1, <1>2 DEF OnlyCommand

----------------------------------------------------------------------------
(***************************************************************************)
(* The run.                                                                *)
(***************************************************************************)

\* The run goes on within one state of its record, or gives up.
Stays ==
  \/ rp = "acquire" /\ rp' = "mkdir_workspace"
  \/ rp \in AtNew /\ rp' \in AtNew
  \/ rp \in AtMaterializing /\ rp' \in AtMaterializing
  \/ rp \in AtVerifying /\ rp' \in AtVerifying
  \/ rp \in AtAwaiting /\ rp' \in AtAwaiting
  \/ rp \in AtCommitting /\ rp' \in AtCommitting
  \/ rp \in AtPending /\ rp' \in AtPending
  \/ rp \in AtDone /\ rp' \in AtDone
  \/ rp \in RunLabel \ {"ended", "crashed"} /\ rp' \in Over

\* The record, the workspace and all trees stay.
Kept ==
  /\ disk'.record = disk.record /\ disk'.workspace = disk.workspace
  /\ disk'.candidate = disk.candidate /\ disk'.snapshot = disk.snapshot
  /\ disk'.target = disk.target

Unspoilt(t) == t = NoDir \/ t \in [File -> {"absent", "good"}]

\* A step of the run that writes no record, from what it does to the disk.
LEMMA RunAdvances ==
  ASSUME IInv, OnlyRun, DiskTyped', RunHolds', DeletesOwn', Stays,
         disk'.record = disk.record \/ (disk'.record = None /\ rp \in AtDone),
         disk'.workspace = disk.workspace \/ (rp \in AtDone /\ rp' \in Over),
         \/ disk'.candidate = disk.candidate
         \/ rp \in AtMaterializing
         \/ rp \in AtPending /\ Unspoilt(disk.candidate),
         disk'.snapshot = disk.snapshot \/ rp \in AtAwaiting \cup AtCommitting,
         disk'.target = disk.target \/ (rp \in AtCommitting /\ disk.target = NoDir)
  PROVE  IInv' /\ StepOK
<1>1. RunIsAlone'
  BY DEF IInv, OnlyRun, Stays, RunIsAlone, Is, Building, RunLabel, AtNew, AtPlanned, AtMaterializing,
         AtMaterialized, AtVerifying, AtVerified, AtAwaiting, AtCommitting, AtCommitted, AtPending,
         AtDone, Deletes, Over
<1>2. RecordTells'
  BY DEF IInv, OnlyRun, Stays, RunIsAlone, RecordTells, Is, Committed, Ending, Dropped, Whole,
         Building, RunLabel, AtNew, AtPlanned, AtMaterializing,
         AtMaterialized, AtVerifying, AtVerified, AtAwaiting, AtCommitting, AtCommitted, AtPending,
         AtDone, Deletes, Over
<1>3. CommandHolds'
  BY DEF IInv, OnlyRun, Stays, CommandHolds, Is, RunLabel, Ending, AtNew, AtMaterializing, AtVerifying,
         AtAwaiting, AtCommitting, AtPending, AtDone, Deletes, Over
<1>4. RecordStep
  BY DEF IInv, RecordStep, RunIsAlone, Is, Ending, AtDone
<1>5. CandidateStep
  BY DEF IInv, CandidateStep, RunIsAlone, RecordTells, Is, Ending, Building, AtMaterializing, Unspoilt
<1> QED
  BY <1>1, <1>2, <1>3, <1>4, <1>5 DEF IInv, OnlyRun, StepOK, SnapshotStep, TargetStep

\* Most effects of the run change neither the record nor a tree.
LEMMA RunGoesOn ==
  ASSUME IInv, OnlyRun, DiskTyped', Kept, Stays,
         rp' \notin {"save_committed", "assemble", "check_blueprints", "copy", "move", "candidate_files"},
         rp' \in {"save_ownership", "save_materialized"} => rp \in {"check_blueprints", "save_ownership"},
         rp \in {"check_published", "save_committed"} => rp' \in Over
  PROVE  IInv' /\ StepOK
<1>1. RunHolds'
  BY DEF IInv, Kept, Stays, RunHolds, RunLabel, AtNew, AtMaterializing, AtVerifying,
         AtAwaiting, AtCommitting, AtCommitted, AtPending, AtDone, Deletes, Over
<1>2. DeletesOwn'
  BY DEF IInv, OnlyRun, Kept, DeletesOwn
<1> QED
  BY <1>1, <1>2, RunAdvances DEF Kept

\* acquire_target_lock touches the lock only.
LEMMA AcquireLockStep == ASSUME IInv, AcquireLock PROVE IInv' /\ StepOK
<1>1. /\ rp = "acquire" /\ OnlyRun
      /\ \/ rp' = "mkdir_workspace" /\ disk' = [disk EXCEPT !.locked = TRUE]
         \/ rp' = "ended" /\ disk' = disk
  BY RunDoes DEF IInv, AcquireLock, At, rp
<1>2. DiskTyped' /\ Kept
  BY <1>1 DEF IInv, DiskTyped, Disk, Kept, WorkspaceEmpty
<1> QED
  BY <1>1, <1>2, RunGoesOn DEF Stays, RunLabel, Over

\* The workspace is made before there is a record.
LEMMA MakeWorkspaceStep == ASSUME IInv, MakeWorkspace PROVE IInv' /\ StepOK
<1>1. /\ rp = "mkdir_workspace" /\ OnlyRun
      /\ \/ rp' = "save_new" /\ disk' = [disk EXCEPT !.workspace = TRUE]
         \/ rp' = "abort" /\ disk' = disk
  BY RunDoes DEF IInv, MakeWorkspace, Effect, At, rp
<1>2. CASE rp' = "abort" /\ disk' = disk
  BY <1>1, <1>2, RunGoesOn DEF IInv, DiskTyped, Kept, Stays, RunLabel, Over, WorkspaceEmpty
<1>3. CASE rp' = "save_new" /\ disk' = [disk EXCEPT !.workspace = TRUE]
  <2>1. /\ DiskTyped' /\ disk'.workspace = TRUE
        /\ disk'.record = disk.record /\ disk'.candidate = disk.candidate
        /\ disk'.snapshot = disk.snapshot /\ disk'.target = disk.target
    BY <1>3 DEF IInv, DiskTyped, Disk
  <2>2. RunIsAlone'
    BY <1>1, <1>3, <2>1
    DEF IInv, OnlyRun, RunIsAlone, Building, RunLabel, AtNew, AtPlanned, AtMaterializing,
        AtMaterialized, AtVerifying, AtVerified, AtAwaiting, AtCommitting, AtCommitted, AtPending,
        AtDone, Deletes, Over
  <2>3. RunHolds' /\ DeletesOwn'
    BY <1>1, <1>3, <2>1
    DEF IInv, OnlyRun, RunHolds, DeletesOwn, AtCommitted, AtPending, AtDone, Deletes, Over
  <2>4. RecordTells' /\ CommandHolds'
    BY <1>1, <1>3, <2>1
    DEF IInv, OnlyRun, RecordTells, CommandHolds, Is, AtCommitted, AtPending, AtDone, Deletes, Over
  <2> QED
    BY <1>1, <2>1, <2>2, <2>3, <2>4
    DEF IInv, OnlyRun, StepOK, RecordStep, CandidateStep, SnapshotStep, TargetStep
<1> QED
  BY <1>1, <1>2, <1>3

\* A plan is compiled, or is not, in memory.
LEMMA CompilePlanStep == ASSUME IInv, CompilePlan PROVE IInv' /\ StepOK
<1>1. rp = "plan" /\ OnlyRun /\ rp' \in {"save_planned", "save_plan_failed"} /\ disk' = disk
  BY RunDoes DEF IInv, CompilePlan, At, rp
<1>2. DiskTyped' /\ Kept
  BY <1>1 DEF IInv, DiskTyped, Kept, WorkspaceEmpty
<1> QED
  BY <1>1, <1>2, RunGoesOn DEF Stays, AtNew

\* What materialization makes when nothing goes wrong is a whole project.
LEMMA GoodTreeIsWhole == GoodTree \in Tree /\ Full(GoodTree) /\ Published(GoodTree)
BY DEF GoodTree, Tree, Content, Full, Published

\* The blueprints are compared after the candidate is whole.
LEMMA CheckBlueprintsStep == ASSUME IInv, CheckBlueprints PROVE IInv' /\ StepOK
<1>1. /\ rp = "check_blueprints" /\ OnlyRun /\ disk' = disk
      /\ rp' \in {"save_ownership", "save_materialize_failed"}
  BY RunDoes DEF IInv, CheckBlueprints, At, rp
<1>2. DiskTyped' /\ Kept
  BY <1>1 DEF IInv, DiskTyped, Kept, WorkspaceEmpty
<1> QED
  BY <1>1, <1>2, RunGoesOn DEF Stays, AtMaterializing

\* The ownership record is written for a whole candidate.
LEMMA SaveOwnershipStep == ASSUME IInv, SaveOwnership PROVE IInv' /\ StepOK
<1>1. /\ rp = "save_ownership" /\ OnlyRun
      /\ \/ rp' = "save_materialized" /\ disk' = [disk EXCEPT !.ownership = TRUE]
         \/ rp' = "save_materialize_failed" /\ disk' = disk
  BY RunDoes DEF IInv, SaveOwnership, Effect, At, rp
<1>2. disk.workspace
  BY <1>1 DEF IInv, RunIsAlone, Building, AtMaterializing
<1>3. DiskTyped' /\ Kept
  BY <1>1, <1>2 DEF IInv, DiskTyped, Disk, Kept
<1> QED
  BY <1>1, <1>3, RunGoesOn DEF Stays, AtMaterializing

\* The validation environment, the validators and the report.
LEMMA VerificationStep ==
  ASSUME IInv, MakeEnvironment \/ MarkEnvironment \/ Validate \/ SaveReport
  PROVE  IInv' /\ StepOK
<1>1. /\ rp \in AtVerifying /\ OnlyRun /\ rp' \in AtVerifying
      /\ \/ disk' = disk
         \/ \E e \in {"absent", "unmarked", "marked", "filled"} : disk' = [disk EXCEPT !.env = e]
         \/ \E r \in {"passed", "failed"} : disk' = [disk EXCEPT !.report = r]
  <2>1. CASE MakeEnvironment
    BY <2>1, RunDoes DEF IInv, MakeEnvironment, Effect, At, rp, AtVerifying
  <2>2. CASE MarkEnvironment
    BY <2>2, RunDoes DEF IInv, MarkEnvironment, At, rp, AtVerifying
  <2>3. CASE Validate
    BY <2>3, RunDoes DEF IInv, Validate, At, rp, AtVerifying
  <2>4. CASE SaveReport
    BY <2>4, RunDoes DEF IInv, SaveReport, Effect, At, rp, AtVerifying
  <2> QED
    BY <2>1, <2>2, <2>3, <2>4
<1>2. disk.workspace
  BY <1>1 DEF IInv, RunIsAlone, Building
<1>3. DiskTyped' /\ Kept
  BY <1>1, <1>2 DEF IInv, DiskTyped, Disk, Kept
<1> QED
  BY <1>1, <1>3, RunGoesOn DEF Stays, AtVerifying

\* Only here and in the cleanup does the run write to its candidate.
LEMMA AssemblyStep ==
  ASSUME IInv, \/ MakeCandidate \/ AssemblyFails \/ FinishAssembly
               \/ \E f \in File : WriteCandidateFile(f)
  PROVE  IInv' /\ StepOK
<1>1. /\ rp \in {"candidate_mkdir", "assemble"} /\ OnlyRun
      /\ \E c \in Tree \cup {NoDir} : disk' = [disk EXCEPT !.candidate = c]
      /\ \/ rp' = "assemble" /\ disk'.candidate \in Tree
         \/ rp' = "check_blueprints" /\ disk'.candidate = GoodTree
         \/ rp' = "save_materialize_failed"
  <2>1. DiskTyped /\ disk = [disk EXCEPT !.candidate = disk.candidate]
        /\ disk.candidate \in Tree \cup {NoDir} /\ (rp = "assemble" => disk.candidate \in Tree)
    BY DEF IInv, DiskTyped, Disk, RunHolds
  <2>2. CASE MakeCandidate
    <3>1. EmptyTree \in Tree
      BY DEF EmptyTree, Tree, Content
    <3> QED
      BY <2>1, <2>2, <3>1, RunDoes DEF IInv, MakeCandidate, Effect, At, rp, DiskTyped, Disk
  <2>3. CASE AssemblyFails
    BY <2>1, <2>3, RunDoes DEF IInv, AssemblyFails, At, rp
  <2>4. CASE FinishAssembly
    BY <2>1, <2>4, RunDoes DEF IInv, FinishAssembly, At, rp
  <2>5. ASSUME NEW f \in File, WriteCandidateFile(f) PROVE <1>1!:
    <3>1. [disk.candidate EXCEPT ![f] = "good"] \in Tree
      BY <2>1, <2>5 DEF WriteCandidateFile, At, rp, Tree, Content
    <3> QED
      BY <2>1, <2>5, <3>1, RunDoes DEF IInv, WriteCandidateFile, At, rp, DiskTyped, Disk
  <2> QED
    BY <2>2, <2>3, <2>4, <2>5
<1>2. disk.workspace
  BY <1>1 DEF IInv, RunIsAlone, Building, AtMaterializing
<1>3. /\ DiskTyped' /\ disk'.record = disk.record /\ disk'.workspace = disk.workspace
      /\ disk'.snapshot = disk.snapshot /\ disk'.target = disk.target
  BY <1>1, <1>2 DEF IInv, DiskTyped, Disk
<1>4. RunHolds'
  BY <1>1, <1>3, GoodTreeIsWhole DEF IInv, RunHolds, AtCommitted, AtPending, AtDone, Deletes, Over
<1>5. DeletesOwn'
  BY <1>1 DEF IInv, OnlyRun, DeletesOwn, CommandHolds, RecordTells, Is, Ending, Dropped, Deletes,
         AtPending, AtDone, Over
<1> QED
  BY <1>1, <1>3, <1>4, <1>5, RunAdvances DEF Stays, AtMaterializing

\* prepare_commit_snapshot
LEMMA SnapshottingStep ==
  ASSUME IInv, MakeSnapshot \/ SealSnapshot \/ \E f \in File : CopyFile(f)
  PROVE  IInv' /\ StepOK
<1>1. /\ rp \in AtAwaiting /\ OnlyRun /\ rp' \in AtAwaiting
      /\ \E s \in Tree \cup {NoDir} : disk' = [disk EXCEPT !.snapshot = s]
      /\ rp' = "copy" => disk'.snapshot \in Tree
  <2>1. DiskTyped /\ disk = [disk EXCEPT !.snapshot = disk.snapshot]
        /\ disk.snapshot \in Tree \cup {NoDir} /\ (rp = "copy" => disk.snapshot \in Tree)
    BY DEF IInv, DiskTyped, Disk, RunHolds
  <2>2. CASE MakeSnapshot
    <3>1. EmptyTree \in Tree
      BY DEF EmptyTree, Tree, Content
    <3> QED
      BY <2>1, <2>2, <3>1, RunDoes DEF IInv, MakeSnapshot, At, rp, AtAwaiting, DiskTyped, Disk
  <2>3. CASE SealSnapshot
    BY <2>1, <2>3, RunDoes DEF IInv, SealSnapshot, At, rp, AtAwaiting
  <2>4. ASSUME NEW f \in File, CopyFile(f) PROVE <1>1!:
    <3>1. rp = "copy" /\ Is(disk.record, Whole)
      BY <2>4 DEF IInv, CopyFile, At, rp, RunIsAlone, Is, Building, AtAwaiting, Whole
    <3>2. disk.candidate[f] \in Content
      BY <3>1 DEF IInv, RecordTells, Full, Content
    <3>3. /\ [disk.snapshot EXCEPT ![f] = disk.candidate[f]] \in Tree
          /\ [EmptyTree EXCEPT ![f] = "bad"] \in Tree
      BY <2>1, <3>1, <3>2 DEF Tree, EmptyTree, Content
    <3> QED
      BY <2>1, <2>4, <3>1, <3>3, RunDoes DEF IInv, CopyFile, At, rp, AtAwaiting, DiskTyped, Disk
  <2> QED
    BY <2>2, <2>3, <2>4
<1>2. disk.workspace
  BY <1>1 DEF IInv, RunIsAlone, Building
<1>3. /\ DiskTyped' /\ disk'.record = disk.record /\ disk'.workspace = disk.workspace
      /\ disk'.candidate = disk.candidate /\ disk'.target = disk.target
  BY <1>1, <1>2 DEF IInv, DiskTyped, Disk
<1>4. RunHolds' /\ DeletesOwn'
  BY <1>1, <1>3 DEF IInv, OnlyRun, RunHolds, DeletesOwn, AtAwaiting, AtCommitted, AtPending, AtDone,
         Deletes, Over
<1> QED
  BY <1>1, <1>3, <1>4, RunAdvances DEF Stays

\* publish_commit_snapshot: the check, the rename that never replaces, and the
\* comparison of what arrived.
LEMMA PublicationStep ==
  ASSUME IInv, CheckPublication \/ Publish \/ CheckPublished
  PROVE  IInv' /\ StepOK
<1>1. DiskTyped /\ disk.snapshot \in Tree \cup {NoDir} /\ Is(disk.record, {"COMMITTING"}) /\ disk.workspace
  BY DEF IInv, DiskTyped, Disk, CheckPublication, Publish, CheckPublished, Branch, Effect, At, rp,
         RunIsAlone, Building, AtCommitting, Is
<1>2. CASE CheckPublication
  <2>1. /\ rp = "publish_check" /\ OnlyRun /\ disk' = disk
        /\ \/ rp' = "abort"
           \/ rp' = "move" /\ disk.target = NoDir /\ disk.snapshot = GoodTree
    BY <1>2, RunDoes DEF IInv, CheckPublication, Branch, At, rp
  <2>2. DiskTyped' /\ Kept
    BY <2>1 DEF IInv, DiskTyped, Kept, WorkspaceEmpty
  <2>4. RunHolds' /\ DeletesOwn'
    BY <2>1, <2>2, GoodTreeIsWhole DEF IInv, OnlyRun, Kept, RunHolds, DeletesOwn, AtCommitted, AtPending, AtDone,
           Deletes, Over
  <2> QED
    BY <2>1, <2>2, <2>4, RunAdvances DEF Kept, Stays, AtCommitting, RunLabel, Building, Over
<1>3. CASE Publish
  <2>1. /\ rp = "move" /\ OnlyRun
        /\ \/ rp' = "abort" /\ disk' = disk
           \/ /\ rp' = "check_published" /\ disk.target = NoDir
              /\ disk' = [disk EXCEPT !.target = disk.snapshot, !.snapshot = NoDir]
    BY <1>3, RunDoes DEF IInv, Publish, Effect, At, rp
  <2>2. CASE rp' = "abort" /\ disk' = disk
    BY <2>1, <2>2, RunGoesOn DEF IInv, DiskTyped, Kept, Stays, RunLabel, Building, AtCommitting, Over, WorkspaceEmpty
  <2>3. CASE /\ rp' = "check_published" /\ disk.target = NoDir
             /\ disk' = [disk EXCEPT !.target = disk.snapshot, !.snapshot = NoDir]
    <3>1. /\ DiskTyped' /\ disk'.record = disk.record /\ disk'.workspace = disk.workspace
          /\ disk'.candidate = disk.candidate
      BY <1>1, <2>3 DEF DiskTyped, Disk
    <3>2. RunHolds' /\ DeletesOwn'
      BY <2>1, <2>3, <3>1 DEF IInv, OnlyRun, RunHolds, DeletesOwn
    <3> QED
      BY <2>1, <2>3, <3>1, <3>2, RunAdvances DEF Stays, AtCommitting
  <2> QED
    BY <2>1, <2>2, <2>3
<1>4. CASE CheckPublished
  <2>1. /\ rp = "check_published" /\ OnlyRun /\ disk' = disk
        /\ \/ rp' = "abort"
           \/ rp' = "save_committed" /\ disk.target = GoodTree
    BY <1>4, RunDoes DEF IInv, CheckPublished, Branch, At, rp
  <2>2. DiskTyped' /\ Kept
    BY <2>1 DEF IInv, DiskTyped, Kept, WorkspaceEmpty
  <2>3. RunHolds' /\ DeletesOwn'
    BY <2>1, <2>2 DEF IInv, OnlyRun, Kept, RunHolds, DeletesOwn, Over
  <2> QED
    BY <2>1, <2>2, <2>3, RunAdvances DEF Kept, Stays, AtCommitting, RunLabel, Building, Over
<1> QED
  BY <1>2, <1>3, <1>4
----------------------------------------------------------------------------
(***************************************************************************)
(* The records the run and the commands save.                              *)
(***************************************************************************)

\* Moved and Failed keep the digests and count a revision.
LEMMA MovedRecord ==
  ASSUME NEW s \in GenerationSession, NEW state \in State \ {"FAILED_RETRYABLE"}
  PROVE  /\ Moved(s, state) \in GenerationSession /\ Constructible(Moved(s, state))
         /\ Moved(s, state).state = state /\ Moved(s, state).candidate = s.candidate
<1>1. PICK n \in Nat : n = s.revision + 1
  BY DEF GenerationSession
<1>2. Moved(s, state) = [s EXCEPT !.state = state, !.failed = None, !.revision = n]
  BY <1>1 DEF Moved
<1> QED
  BY <1>2 DEF GenerationSession, Constructible

\* The record of a failure keeps the candidate.
LEMMA FailedRecord ==
  ASSUME NEW s \in GenerationSession, NEW stage \in FailureStage
  PROVE  /\ Failed(s, stage) \in GenerationSession /\ Constructible(Failed(s, stage))
         /\ Failed(s, stage).state = "FAILED_RETRYABLE" /\ Failed(s, stage).candidate = s.candidate
<1>1. PICK n \in Nat : n = s.revision + 1
  BY DEF GenerationSession
<1>2. Failed(s, stage) = [s EXCEPT !.state = "FAILED_RETRYABLE", !.failed = stage, !.revision = n]
  BY <1>1 DEF Failed
<1> QED
  BY <1>2, NoneIsNoValue DEF GenerationSession, Constructible, State

\* The records with a new digest.
LEMMA DigestRecords ==
  ASSUME NEW s \in GenerationSession, NEW d \in Digest
  PROVE  /\ PlanSucceeded(s, d) \in GenerationSession /\ Constructible(PlanSucceeded(s, d))
         /\ PlanSucceeded(s, d).state = "PLANNED" /\ PlanSucceeded(s, d).candidate = s.candidate
         /\ CandidateRecorded(s, d) \in GenerationSession /\ Constructible(CandidateRecorded(s, d))
         /\ CandidateRecorded(s, d).state = "MATERIALIZED"
         /\ VerifySucceeded(s, d) \in GenerationSession /\ Constructible(VerifySucceeded(s, d))
         /\ VerifySucceeded(s, d).state = "VERIFIED" /\ VerifySucceeded(s, d).candidate = s.candidate
<1>1. ASSUME NEW state \in {"PLANNED", "MATERIALIZED", "VERIFIED"}
      PROVE  /\ Updated(s, state) \in GenerationSession /\ Constructible(Updated(s, state))
             /\ Updated(s, state).state = state /\ Updated(s, state).candidate = s.candidate
  BY MovedRecord DEF Updated, GenerationSession, Constructible, State
<1> QED
  BY <1>1 DEF PlanSucceeded, CandidateRecorded, VerifySucceeded, GenerationSession, Constructible

\* The first record of a run.
LEMMA NewRecord ==
  ASSUME NEW d \in Digest
  PROVE  /\ NewSession(d, 0) \in GenerationSession /\ Constructible(NewSession(d, 0))
         /\ NewSession(d, 0).state = "NEW" /\ NewSession(d, 0).candidate = None
BY DEF NewSession, GenerationSession, Constructible, State

\* There is a digest to choose.
LEMMA TheDigestIsADigest == TheDigest \in Digest
BY ThereIsADigest DEF TheDigest

\* A state and an event determine the transition.
LEMMA SimpleRecord ==
  ASSUME NEW s, NEW t \in SimpleTransitions, s.state = t[1]
  PROVE  Simple(s, t[2]) = Moved(s, t[3])
<1>1. \A x \in SimpleTransitions : x[1] = t[1] /\ x[2] = t[2] => x[3] = t[3]
  BY DEF SimpleTransitions
<1>2. PICK x : /\ x = CHOOSE y \in SimpleTransitions : y[1] = s.state /\ y[2] = t[2]
  OBVIOUS
<1>3. x \in SimpleTransitions /\ x[1] = s.state /\ x[2] = t[2]
  BY <1>2
<1> QED
  BY <1>1, <1>2, <1>3 DEF Simple

\* The transitions the program takes.
LEMMA SimpleRecords ==
  ASSUME NEW s \in GenerationSession
  PROVE  /\ s.state = "PLANNED" => Simple(s, "MATERIALIZE_REQUESTED") = Moved(s, "MATERIALIZING")
         /\ s.state = "MATERIALIZED" => Simple(s, "VERIFY_REQUESTED") = Moved(s, "VERIFYING")
         /\ s.state = "VERIFIED" => Simple(s, "FINALIZE_REQUESTED") = Moved(s, "AWAITING_CONFIRMATION")
         /\ s.state = "AWAITING_CONFIRMATION" => Simple(s, "FINALIZE_CONFIRMED") = Moved(s, "COMMITTING")
         /\ s.state = "COMMITTING" =>
              /\ Simple(s, "PUBLISH_OBSERVED") = Moved(s, "COMMITTED")
              /\ Simple(s, "RECOVER_BEFORE_PUBLISH") = Moved(s, "AWAITING_CONFIRMATION")
              /\ Simple(s, "RECOVER_PUBLISHED") = Moved(s, "COMMITTED")
              /\ Simple(s, "RECOVER_AMBIGUOUS") = Moved(s, "AMBIGUOUS")
         /\ s.state = "COMMITTED" => Simple(s, "CLEANUP_STARTED") = Moved(s, "CLEANUP_PENDING")
         /\ s.state = "CLEANUP_PENDING" =>
              /\ Simple(s, "CLEANUP_SUCCEEDED") = Moved(s, "DONE")
              /\ Simple(s, "CLEANUP_FAILED") = Moved(s, "CLEANUP_PENDING")
<1>1. \A t \in SimpleTransitions : s.state = t[1] => Simple(s, t[2]) = Moved(s, t[3])
  BY SimpleRecord
<1>2. /\ <<"PLANNED", "MATERIALIZE_REQUESTED", "MATERIALIZING">> \in SimpleTransitions
      /\ <<"MATERIALIZED", "VERIFY_REQUESTED", "VERIFYING">> \in SimpleTransitions
      /\ <<"VERIFIED", "FINALIZE_REQUESTED", "AWAITING_CONFIRMATION">> \in SimpleTransitions
      /\ <<"AWAITING_CONFIRMATION", "FINALIZE_CONFIRMED", "COMMITTING">> \in SimpleTransitions
      /\ <<"COMMITTING", "PUBLISH_OBSERVED", "COMMITTED">> \in SimpleTransitions
      /\ <<"COMMITTING", "RECOVER_BEFORE_PUBLISH", "AWAITING_CONFIRMATION">> \in SimpleTransitions
      /\ <<"COMMITTING", "RECOVER_PUBLISHED", "COMMITTED">> \in SimpleTransitions
      /\ <<"COMMITTING", "RECOVER_AMBIGUOUS", "AMBIGUOUS">> \in SimpleTransitions
      /\ <<"COMMITTED", "CLEANUP_STARTED", "CLEANUP_PENDING">> \in SimpleTransitions
      /\ <<"CLEANUP_PENDING", "CLEANUP_SUCCEEDED", "DONE">> \in SimpleTransitions
      /\ <<"CLEANUP_PENDING", "CLEANUP_FAILED", "CLEANUP_PENDING">> \in SimpleTransitions
  BY DEF SimpleTransitions
<1> QED
  BY <1>1, <1>2

----------------------------------------------------------------------------
(***************************************************************************)
(* The run's saves.                                                        *)
(***************************************************************************)

\* Which record the run may save where, and where it goes on.
Saves(s) ==
  \/ rp = "save_new" /\ s.state = "NEW" /\ s.candidate = None /\ rp' = "plan"
  \/ /\ s.candidate = rs.candidate
     /\ \/ rp = "save_planned" /\ s.state = "PLANNED" /\ rp' \in AtPlanned
        \/ rp \in AtPlanned /\ s.state = "MATERIALIZING" /\ rp' = "candidate_mkdir"
        \/ rp \in AtMaterialized /\ s.state = "VERIFYING" /\ rp' = "env_mkdir"
        \/ rp = "save_verified" /\ s.state = "VERIFIED" /\ rp' \in AtVerified
        \/ rp \in AtVerified /\ s.state = "AWAITING_CONFIRMATION" /\ rp' = "snapshot_mkdir"
        \/ rp = "save_committing" /\ s.state = "COMMITTING" /\ rp' = "publish_check"
        \/ rp = "save_committed" /\ s.state = "COMMITTED" /\ rp' \in AtCommitted
        \/ rp \in AtCommitted /\ s.state = "CLEANUP_PENDING" /\ rp' = "env_check"
        \/ rp = "save_cleanup_failed" /\ s.state = "CLEANUP_PENDING" /\ rp' = "abort"
        \/ rp = "save_run_done" /\ s.state = "DONE" /\ rp' = "release"
        \/ /\ rp \in {"save_plan_failed", "save_materialize_failed", "save_verify_failed", "save_precheck_failed"}
           /\ s.state = "FAILED_RETRYABLE" /\ rp' = "abort"
  \/ rp = "save_materialized" /\ s.state = "MATERIALIZED" /\ rp' \in AtMaterialized

\* The run writes a record that its place allows (Saves).
LEMMA RunRecords ==
  ASSUME IInv, NEW s \in GenerationSession, Constructible(s), NEW to, SaveRecord("run", s, to, "abort"),
         rp' = to => Saves(s), rp \in RunLabel \ (Over \cup {"acquire", "mkdir_workspace"})
  PROVE  IInv' /\ StepOK
<1>1. CASE OnlyRun /\ rp' = "abort" /\ disk' = disk
  <2>1. DiskTyped' /\ Kept
    BY <1>1 DEF IInv, DiskTyped, Kept, WorkspaceEmpty
  <2> QED
    BY <1>1, <2>1, RunGoesOn DEF Stays, Over
<1>2. CASE /\ disk.workspace /\ disk' = [disk EXCEPT !.record = s]
           /\ proc' = [proc EXCEPT !["run"].pc = to, !["run"].session = s]
           /\ UNCHANGED faults
  <2>1. /\ DiskTyped' /\ disk'.record = s /\ disk'.workspace = disk.workspace
        /\ disk'.candidate = disk.candidate /\ disk'.snapshot = disk.snapshot
        /\ disk'.target = disk.target
    BY <1>2 DEF IInv, DiskTyped, Disk
  <2>2. /\ ProcTyped' /\ FaultsTyped' /\ rp' = to /\ rs' = s /\ proc'["run"].job = proc["run"].job
        /\ cp' = cp /\ cj' = cj /\ cs' = cs
    BY <1>2 DEF IInv, ProcTyped, FaultsTyped, Process, rp, rs, cp, cj, cs
  <2>3. s # None /\ Saves(s)
    BY <2>2, NoneIsNoSession
  <2>4. RunIsAlone'
    BY <2>1, <2>2, <2>3, <1>2
    DEF IInv, RunIsAlone, Saves, Is, Ending, Building, RunLabel, AtNew, AtPlanned, AtMaterializing,
        AtMaterialized, AtVerifying, AtVerified, AtAwaiting, AtCommitting, AtCommitted, AtPending,
        AtDone, Deletes, Over
  <2>5. RunHolds' /\ DeletesOwn'
    <3>1. RunHolds'
      BY <2>1, <2>2, <2>3
      DEF IInv, RunHolds, Saves, AtPlanned, AtMaterialized, AtVerified,
          AtCommitted, AtPending, AtDone, Deletes, Over
    <3>2. rp' # "candidate_files"
      BY <2>3 DEF Saves, AtPlanned, AtMaterialized, AtVerified, AtCommitted
    <3>3. DeletesOwn'
      BY <2>1, <2>2, <3>2 DEF IInv, DeletesOwn
    <3> QED
      BY <3>1, <3>3
  <2>6. RecordTells'
    BY <2>1, <2>2, <2>3, GoodTreeIsWhole
    DEF IInv, RunIsAlone, RunHolds, RecordTells, Saves, Is, Committed, Ending, Dropped, Whole,
        Building, RunLabel, AtNew, AtPlanned, AtMaterializing,
        AtMaterialized, AtVerifying, AtVerified, AtAwaiting, AtCommitting, AtCommitted, AtPending,
        AtDone, Deletes, Over
  <2>7. CommandHolds'
    BY <2>1, <2>2, <2>3
    DEF IInv, RecordTells, CommandHolds, Saves, Is, Ending, Dropped, AtPlanned, AtMaterialized,
        AtVerified, AtCommitted, AtPending, AtDone, Deletes, Over
  <2>8. RecordStep
    <3>1. \/ disk.record = None
          \/ Is(disk.record, {"DONE"})
          \/ /\ Is(disk.record, {"CLEANUP_PENDING"}) /\ rp \in AtPending /\ s.state \in Ending
          \/ disk.record = rs /\ rp \in Building
      BY <2>3 DEF IInv, RunIsAlone, Saves, Is, Ending, Building, AtNew, AtMaterializing, AtVerifying,
             AtAwaiting, AtCommitting, AtPending
    <3>2. CASE disk.record = rs /\ rp \in Building
      BY <3>2, <2>1, <2>3
      DEF IInv, RunIsAlone, RecordStep, MovesTo, SimpleTransitions, FailureTransitions, Saves, Is, Building,
          AtNew, AtPlanned, AtMaterializing, AtMaterialized, AtVerifying, AtVerified, AtAwaiting,
          AtCommitting, AtCommitted
    <3>3. CASE Is(disk.record, {"CLEANUP_PENDING"}) /\ rp \in AtPending /\ s.state \in Ending
      BY <3>3, <2>1, <2>3 DEF RecordStep, MovesTo, SimpleTransitions, Is, Ending
    <3> QED
      BY <3>1, <3>2, <3>3 DEF RecordStep
  <2> QED
    BY <2>1, <2>2, <2>4, <2>5, <2>6, <2>7, <2>8
    DEF IInv, StepOK, CandidateStep, SnapshotStep, TargetStep
<1> QED
  BY <1>1, <1>2, RunDoes DEF SaveRecord, IInv

\* Every save of the run writes such a record.
LEMMA RunSavesStep == ASSUME IInv, RunSaves PROVE IInv' /\ StepOK
<1>1. ASSUME rp \in Building \cup AtPending PROVE Session = rs /\ rs \in GenerationSession
  BY <1>1 DEF IInv, ProcTyped, Process, RunIsAlone, Session, rs, Is, Ending
<1>2. CASE SaveNew
  <2>1. rp = "save_new" /\ SaveRecord("run", NewSession(TheDigest, 0), "plan", "abort")
    BY <1>2 DEF SaveNew, At, rp
  <2> QED
    BY <2>1, NewRecord, TheDigestIsADigest, RunRecords DEF Saves, RunLabel, Over
<1>3. CASE SavePlanned
  <2>1. rp = "save_planned" /\ SaveRecord("run", PlanSucceeded(rs, TheDigest), "save_materializing", "abort")
    BY <1>1, <1>3 DEF SavePlanned, At, rp, Building, AtNew
  <2> QED
    BY <1>1, <2>1, DigestRecords, TheDigestIsADigest, RunRecords
    DEF Saves, RunLabel, Over, Building, AtNew, AtPlanned
<1>4. CASE SaveMaterialized
  <2>1. rp = "save_materialized" /\ SaveRecord("run", CandidateRecorded(rs, TheDigest), "save_verifying", "abort")
    BY <1>1, <1>4 DEF SaveMaterialized, At, rp, Building, AtMaterializing
  <2> QED
    BY <1>1, <2>1, DigestRecords, TheDigestIsADigest, RunRecords
    DEF Saves, RunLabel, Over, Building, AtMaterializing, AtMaterialized
<1>5. CASE SaveVerified
  <2>1. rp = "save_verified" /\ SaveRecord("run", VerifySucceeded(rs, TheDigest), "save_awaiting", "abort")
    BY <1>1, <1>5 DEF SaveVerified, At, rp, Building, AtVerifying
  <2> QED
    BY <1>1, <2>1, DigestRecords, TheDigestIsADigest, RunRecords
    DEF Saves, RunLabel, Over, Building, AtVerifying, AtVerified
<1>6. ASSUME NEW label \in DOMAIN SimpleSaves, SaveSimple(label) PROVE IInv' /\ StepOK
  <2>1. rp = label /\ SaveRecord("run", Simple(rs, SimpleSaves[label][1]), SimpleSaves[label][2], "abort")
    BY <1>6 DEF SaveSimple, At, rp, Session, rs
  <2>2. ASSUME NEW state \in State \ {"FAILED_RETRYABLE"}, rp \in Building \cup AtPending,
               Simple(rs, SimpleSaves[label][1]) = Moved(rs, state),
               rp' = SimpleSaves[label][2] => Saves(Moved(rs, state))
        PROVE  IInv' /\ StepOK
    BY <1>1, <2>1, <2>2, MovedRecord, RunRecords
    DEF RunLabel, Over, Building, AtNew, AtPlanned, AtMaterializing, AtMaterialized, AtVerifying,
        AtVerified, AtAwaiting, AtCommitting, AtCommitted, AtPending, Deletes
  <2>3. ASSUME NEW state \in State, rp \in Building \cup AtPending PROVE Moved(rs, state).state = state /\ Moved(rs, state).candidate = rs.candidate
    BY <1>1, <2>3 DEF Moved, GenerationSession
  <2>4. CASE label = "save_materializing"
    <3>1. /\ rs.state = "PLANNED" /\ rp \in Building
          /\ SimpleSaves[label] = <<"MATERIALIZE_REQUESTED", "candidate_mkdir">>
      BY <2>1, <2>4 DEF IInv, RunIsAlone, Is, Building, AtPlanned, SimpleSaves
    <3> QED
      BY <1>1, <2>1, <2>2, <2>3, <2>4, <3>1, SimpleRecords DEF State, Saves, AtPlanned
  <2>5. CASE label = "save_verifying"
    <3>1. /\ rs.state = "MATERIALIZED" /\ rp \in Building
          /\ SimpleSaves[label] = <<"VERIFY_REQUESTED", "env_mkdir">>
      BY <2>1, <2>5 DEF IInv, RunIsAlone, Is, Building, AtMaterialized, SimpleSaves
    <3> QED
      BY <1>1, <2>1, <2>2, <2>3, <2>5, <3>1, SimpleRecords DEF State, Saves, AtMaterialized
  <2>6. CASE label = "save_awaiting"
    <3>1. /\ rs.state = "VERIFIED" /\ rp \in Building
          /\ SimpleSaves[label] = <<"FINALIZE_REQUESTED", "snapshot_mkdir">>
      BY <2>1, <2>6 DEF IInv, RunIsAlone, Is, Building, AtVerified, SimpleSaves
    <3> QED
      BY <1>1, <2>1, <2>2, <2>3, <2>6, <3>1, SimpleRecords DEF State, Saves, AtVerified
  <2>7. CASE label = "save_committing"
    <3>1. /\ rs.state = "AWAITING_CONFIRMATION" /\ rp \in Building
          /\ SimpleSaves[label] = <<"FINALIZE_CONFIRMED", "publish_check">>
      BY <2>1, <2>7 DEF IInv, RunIsAlone, Is, Building, AtAwaiting, SimpleSaves
    <3> QED
      BY <1>1, <2>1, <2>2, <2>3, <2>7, <3>1, SimpleRecords DEF State, Saves
  <2>8. CASE label = "save_committed"
    <3>1. /\ rs.state = "COMMITTING" /\ rp \in Building
          /\ SimpleSaves[label] = <<"PUBLISH_OBSERVED", "save_cleanup_pending">>
      BY <2>1, <2>8 DEF IInv, RunIsAlone, Is, Building, AtCommitting, SimpleSaves
    <3> QED
      BY <1>1, <2>1, <2>2, <2>3, <2>8, <3>1, SimpleRecords DEF State, Saves, AtCommitted
  <2>9. CASE label = "save_cleanup_pending"
    <3>1. /\ rs.state = "COMMITTED" /\ rp \in Building
          /\ SimpleSaves[label] = <<"CLEANUP_STARTED", "env_check">>
      BY <2>1, <2>9 DEF IInv, RunIsAlone, Is, Building, AtCommitted, SimpleSaves
    <3> QED
      BY <1>1, <2>1, <2>2, <2>3, <2>9, <3>1, SimpleRecords DEF State, Saves, AtCommitted
  <2>10. CASE label = "save_cleanup_failed"
    <3>1. /\ rs.state = "CLEANUP_PENDING" /\ rp \in AtPending
          /\ SimpleSaves[label] = <<"CLEANUP_FAILED", "abort">>
      BY <2>1, <2>10 DEF IInv, RunIsAlone, Is, AtPending, SimpleSaves
    <3> QED
      BY <1>1, <2>1, <2>2, <2>3, <2>10, <3>1, SimpleRecords DEF State, Saves
  <2>11. CASE label = "save_run_done"
    <3>1. /\ rs.state = "CLEANUP_PENDING" /\ rp \in AtPending
          /\ SimpleSaves[label] = <<"CLEANUP_SUCCEEDED", "release">>
      BY <2>1, <2>11 DEF IInv, RunIsAlone, Is, AtPending, SimpleSaves
    <3> QED
      BY <1>1, <2>1, <2>2, <2>3, <2>11, <3>1, SimpleRecords DEF State, Saves
  <2> QED
    BY <2>4, <2>5, <2>6, <2>7, <2>8, <2>9, <2>10, <2>11 DEF SimpleSaves
<1>7. ASSUME NEW label \in DOMAIN FailureSaves, SaveFailure(label) PROVE IInv' /\ StepOK
  <2>1. /\ rp = label /\ SaveRecord("run", Failed(rs, FailureSaves[label]), "abort", "abort")
        /\ rp \in {"save_plan_failed", "save_materialize_failed", "save_verify_failed", "save_precheck_failed"}
        /\ FailureSaves[label] \in FailureStage
    BY <1>7 DEF SaveFailure, At, rp, Session, rs, FailureSaves, FailureStage
  <2>2. rp \in Building
    BY <2>1 DEF Building, AtNew, AtMaterializing, AtVerifying, AtAwaiting
  <2> QED
    BY <1>1, <2>1, <2>2, FailedRecord, RunRecords
    DEF Saves, RunLabel, Over
<1> QED
  BY <1>2, <1>3, <1>4, <1>5, <1>6, <1>7 DEF RunSaves
----------------------------------------------------------------------------
(***************************************************************************)
(* Deletion: the steps the run's cleanup and the commands share.           *)
(***************************************************************************)

\* What a step of p leaves of the processes.
Moves(p) ==
  /\ ProcTyped' /\ FaultsTyped'
  /\ \A q \in Process : proc'[q].session = proc[q].session /\ proc'[q].job = proc[q].job
  /\ \A q \in Process \ {p} : proc'[q].pc = proc[q].pc

\* Where a process goes whose deletion is refused, or whose workspace is gone.
Stopped(p) == {Refused(p), IF p = "run" THEN "abort" ELSE "idle"}

\* A process that goes on keeps its memory.
LEMMA ProcessDoes ==
  ASSUME ProcTyped, FaultsTyped', NEW p \in Process, NEW to, proc' = [proc EXCEPT ![p].pc = to]
  PROVE  Moves(p) /\ proc'[p].pc = to
BY DEF ProcTyped, Moves

\* cleanup_validation_workspace touches the validation environment only.
LEMMA EnvironmentDoes ==
  ASSUME IInv, NEW p \in Process,
         \/ CheckEnvironment(p) \/ DeleteEnvironmentFiles(p)
         \/ DeleteEnvironmentMarker(p) \/ RemoveEnvironment(p)
  PROVE  /\ Moves(p) /\ proc[p].pc \in Deletes
         /\ proc'[p].pc \in (Deletes \ {"candidate_files"}) \cup Stopped(p)
         /\ \/ disk' = disk
            \/ disk.env # "absent" /\ \E e \in {"absent", "unmarked", "marked"} : disk' = [disk EXCEPT !.env = e]
<1> DEFINE Goes(to) ==
      /\ proc' = [proc EXCEPT ![p].pc = to] /\ FaultsTyped'
      /\ \/ disk' = disk
         \/ disk.env # "absent" /\ \E e \in {"absent", "unmarked", "marked"} : disk' = [disk EXCEPT !.env = e]
<1>1. ASSUME NEW to, Do(p, disk, to) \/ OSError(p, disk, to) PROVE Goes(to)
  BY <1>1, DoOrError DEF IInv
<1>2. ASSUME NEW e \in {"absent", "unmarked", "marked"}, disk.env # "absent", NEW to, Do(p, [disk EXCEPT !.env = e], to)
      PROVE  Goes(to)
  BY <1>2, DoOrError DEF IInv
<1> DEFINE Targets == {"env_files", "env_marker", "env_rmdir", AfterEnvironment(p)} \cup Stopped(p)
<1>3. proc[p].pc \in Deletes /\ \E to \in Targets : Goes(to)
  <2> HIDE DEF Goes
  <2>1. CASE CheckEnvironment(p)
    <3>1. Goes("env_files") \/ Goes("env_marker") \/ Goes(AfterEnvironment(p)) \/ Goes(Refused(p))
          \/ Goes(IF p = "run" THEN "abort" ELSE "idle")
      BY <1>1, <2>1 DEF CheckEnvironment
    <3> QED
      BY <2>1, <3>1 DEF CheckEnvironment, At, Deletes, Stopped
  <2>2. CASE DeleteEnvironmentFiles(p)
    <3>1. Goes("env_marker") \/ Goes(AfterEnvironment(p)) \/ Goes(Refused(p))
      BY <1>1, <1>2, <2>2 DEF DeleteEnvironmentFiles, LeaveEnvironment
    <3> QED
      BY <2>2, <3>1 DEF DeleteEnvironmentFiles, At, Deletes, Stopped
  <2>3. CASE DeleteEnvironmentMarker(p)
    <3>1. Goes("env_rmdir") \/ Goes(AfterEnvironment(p)) \/ Goes(Refused(p))
      BY <1>1, <1>2, <2>3 DEF DeleteEnvironmentMarker, LeaveEnvironment
    <3> QED
      BY <2>3, <3>1 DEF DeleteEnvironmentMarker, At, Deletes, Stopped
  <2>4. CASE RemoveEnvironment(p)
    <3>1. Goes(AfterEnvironment(p)) \/ Goes(Refused(p))
      BY <1>1, <1>2, <2>4 DEF RemoveEnvironment, LeaveEnvironment
    <3> QED
      BY <2>4, <3>1 DEF RemoveEnvironment, At, Deletes, Stopped
  <2> QED
    BY <2>1, <2>2, <2>3, <2>4
<1>4. PICK to \in Targets : Goes(to)
  BY <1>3
<1>5. Moves(p) /\ proc'[p].pc = to
  BY <1>4, ProcessDoes DEF IInv
<1>6. Targets \subseteq (Deletes \ {"candidate_files"}) \cup Stopped(p)
  BY DEF AfterEnvironment, Deletes
<1> QED
  BY <1>3, <1>4, <1>5, <1>6

\* cleanup_owned_candidate touches the candidate only, once it is known to be
\* unchanged.
LEMMA CandidateDoes ==
  ASSUME IInv, NEW p \in Process,
         CheckCandidate(p) \/ RemoveCandidate(p) \/ \E f \in File : DeleteCandidateFile(p, f)
  PROVE  /\ Moves(p) /\ proc[p].pc \in Deletes
         /\ proc'[p].pc \in Deletes \cup Stopped(p)
         /\ \/ disk' = disk
            \/ /\ disk.candidate # NoDir /\ proc[p].pc = "candidate_files"
               /\ \E c \in [File -> {"absent", "good"}] \cup {NoDir} : disk' = [disk EXCEPT !.candidate = c]
         /\ proc'[p].pc = "candidate_files" => Unspoilt(disk'.candidate)
<1> DEFINE Effects ==
      /\ Moves(p) /\ proc[p].pc \in Deletes
      /\ proc'[p].pc \in Deletes \cup Stopped(p)
      /\ \/ disk' = disk
         \/ /\ disk.candidate # NoDir /\ proc[p].pc = "candidate_files"
            /\ \E c \in [File -> {"absent", "good"}] \cup {NoDir} : disk' = [disk EXCEPT !.candidate = c]
      /\ proc'[p].pc = "candidate_files" => Unspoilt(disk'.candidate)
<1>1. ASSUME NEW to, Do(p, disk, to) \/ OSError(p, disk, to) PROVE Moves(p) /\ proc'[p].pc = to /\ disk' = disk
  <2>1. disk' = disk /\ proc' = [proc EXCEPT ![p].pc = to] /\ FaultsTyped'
    BY <1>1, DoOrError DEF IInv
  <2> QED
    BY <2>1, ProcessDoes DEF IInv
<1>2. AfterCandidate(p) \in Deletes \ {"candidate_files"} /\ Refused(p) # "candidate_files"
  BY DEF AfterCandidate, Deletes, Refused
<1>3. CASE CheckCandidate(p)
  <2>1. CASE /\ disk.candidate # NoDir /\ CandidateSafe /\ disk' = disk
             /\ proc' = [proc EXCEPT ![p].pc = "candidate_files", ![p].todo = File]
             /\ UNCHANGED faults
    <3>1. Moves(p) /\ proc'[p].pc = "candidate_files"
      BY <2>1 DEF IInv, ProcTyped, FaultsTyped, Moves
    <3> QED
      BY <1>3, <2>1, <3>1 DEF CheckCandidate, At, Deletes, CandidateSafe, Unspoilt
  <2>2. CASE Do(p, disk, AfterCandidate(p)) \/ Do(p, disk, Refused(p))
    BY <1>1, <1>2, <1>3, <2>2 DEF CheckCandidate, At, Deletes, Stopped
  <2> QED
    BY <1>3, <2>1, <2>2 DEF CheckCandidate
<1>4. ASSUME proc[p].pc = "candidate_files"
      PROVE  Unspoilt(disk.candidate) /\ disk.candidate \in Tree \cup {NoDir}
             /\ DiskTyped /\ disk = [disk EXCEPT !.candidate = disk.candidate]
  BY <1>4 DEF IInv, DeletesOwn, DiskTyped, Disk, Unspoilt, Process, rp, cp
<1>5. CASE RemoveCandidate(p)
  <2>1. proc[p].pc = "candidate_files"
    BY <1>5 DEF RemoveCandidate, At
  <2>2. CASE disk.candidate = EmptyTree /\ Do(p, [disk EXCEPT !.candidate = NoDir], AfterCandidate(p))
    <3>1. /\ disk' = [disk EXCEPT !.candidate = NoDir]
          /\ proc' = [proc EXCEPT ![p].pc = AfterCandidate(p)] /\ FaultsTyped'
      BY <2>2, DoOrError DEF IInv
    <3>2. Moves(p) /\ proc'[p].pc = AfterCandidate(p)
      BY <3>1, ProcessDoes DEF IInv
    <3>3. EmptyTree \in Tree
      BY DEF EmptyTree, Tree, Content
    <3> QED
      BY <1>2, <2>1, <2>2, <3>1, <3>2, <3>3, NoneIsNoDirectory DEF Deletes
  <2>3. CASE \E to \in {AfterCandidate(p), Refused(p)} : Do(p, disk, to) \/ OSError(p, disk, to)
    BY <1>1, <1>2, <2>1, <2>3 DEF Deletes, Stopped
  <2> QED
    BY <1>5, <2>2, <2>3 DEF RemoveCandidate
<1>6. ASSUME NEW f \in File, DeleteCandidateFile(p, f) PROVE Effects
  <2>1. /\ proc[p].pc = "candidate_files" /\ proc' = [proc EXCEPT ![p].todo = @ \ {f}]
        /\ \/ disk' = disk
           \/ disk.candidate # NoDir /\ disk' = [disk EXCEPT !.candidate[f] = "absent"]
        /\ faults' = faults \/ Spend("error")
    BY <1>6 DEF DeleteCandidateFile, At
  <2>2. FaultsTyped'
    <3>1. CASE faults' = faults
      BY <3>1 DEF IInv, FaultsTyped
    <3>2. CASE Spend("error")
      BY <3>2, Spending DEF IInv
    <3> QED
      BY <2>1, <3>1, <3>2
  <2>3. Moves(p) /\ proc'[p].pc = proc[p].pc
    BY <2>1, <2>2 DEF IInv, ProcTyped, Moves
  <2>4. disk' = disk \/ (disk.candidate # NoDir /\ \E c \in [File -> {"absent", "good"}] : disk' = [disk EXCEPT !.candidate = c])
    BY <1>4, <2>1 DEF Unspoilt
  <2>5. Unspoilt(disk'.candidate)
    BY <1>4, <2>1, <2>4 DEF Unspoilt, DiskTyped, Disk
  <2> QED
    BY <2>1, <2>3, <2>4, <2>5 DEF Deletes
<1> QED
  BY <1>3, <1>5, <1>6

\* What any step of a deletion comes to.
LEMMA DeletionDoes ==
  ASSUME IInv, NEW p \in Process, DeletionStep(p)
  PROVE  /\ Moves(p) /\ proc[p].pc \in Deletes /\ proc'[p].pc \in Deletes \cup Stopped(p)
         /\ DiskTyped' /\ disk'.record = disk.record /\ disk'.workspace = disk.workspace
         /\ disk'.snapshot = disk.snapshot /\ disk'.target = disk.target
         /\ disk'.candidate = disk.candidate \/ Unspoilt(disk.candidate)
         /\ DeletesOwn'
<1>1. /\ Moves(p) /\ proc[p].pc \in Deletes /\ proc'[p].pc \in Deletes \cup Stopped(p)
      /\ \/ disk' = disk
         \/ disk.env # "absent" /\ \E e \in {"absent", "unmarked", "marked"} : disk' = [disk EXCEPT !.env = e]
         \/ /\ disk.candidate # NoDir /\ proc[p].pc = "candidate_files"
            /\ \E c \in [File -> {"absent", "good"}] \cup {NoDir} : disk' = [disk EXCEPT !.candidate = c]
      /\ \/ proc'[p].pc # "candidate_files"
         \/ Unspoilt(disk'.candidate)
  <2>1. CASE \/ CheckEnvironment(p) \/ DeleteEnvironmentFiles(p)
             \/ DeleteEnvironmentMarker(p) \/ RemoveEnvironment(p)
    BY <2>1, EnvironmentDoes DEF Stopped, Refused
  <2>2. CASE CheckCandidate(p) \/ RemoveCandidate(p) \/ \E f \in File : DeleteCandidateFile(p, f)
    BY <2>2, CandidateDoes
  <2> QED
    BY <2>1, <2>2 DEF DeletionStep
<1>2. [File -> {"absent", "good"}] \subseteq Tree
  BY DEF Tree, Content
<1>3. /\ DiskTyped' /\ disk'.record = disk.record /\ disk'.workspace = disk.workspace
      /\ disk'.snapshot = disk.snapshot /\ disk'.target = disk.target
      /\ \/ disk'.candidate = disk.candidate
         \/ Unspoilt(disk'.candidate) /\ proc[p].pc = "candidate_files"
  BY <1>1, <1>2 DEF IInv, DiskTyped, Disk, WorkspaceEmpty, Unspoilt
<1>4. proc[p].pc = "candidate_files" => Unspoilt(disk.candidate)
  BY DEF IInv, DeletesOwn, Unspoilt, Process, rp, cp
<1>5. DeletesOwn'
  BY <1>1, <1>3 DEF IInv, DeletesOwn, Unspoilt, Moves, Process, rp, cp
<1> QED
  BY <1>1, <1>3, <1>4, <1>5----------------------------------------------------------------------------
(***************************************************************************)
(* The end of the run.                                                     *)
(***************************************************************************)

\* The run deletes after it has published.
LEMMA RunDeletionStep == ASSUME IInv, DeletionStep("run") PROVE IInv' /\ StepOK
<1>1. /\ Moves("run") /\ rp \in Deletes /\ rp' \in Deletes \cup {"save_cleanup_failed", "abort"}
      /\ DiskTyped' /\ disk'.record = disk.record /\ disk'.workspace = disk.workspace
      /\ disk'.snapshot = disk.snapshot /\ disk'.target = disk.target
      /\ disk'.candidate = disk.candidate \/ Unspoilt(disk.candidate)
      /\ DeletesOwn'
  BY DeletionDoes DEF Process, Stopped, Refused, rp
<1>2. OnlyRun
  BY <1>1 DEF Moves, OnlyRun, Process, rs, cp, cj, cs
<1>3. RunHolds'
  BY <1>1 DEF RunHolds, AtPending, Deletes, Over
<1> QED
  BY <1>1, <1>2, <1>3, RunAdvances DEF Stays, AtPending, Deletes, RunLabel, Over

\* The unlinks of the evidence, and the lock.
LEMMA EndingStep ==
  ASSUME IInv, UnlinkRunReport \/ UnlinkRunOwnership \/ ReleaseLock \/ ReleaseAfterError
  PROVE  IInv' /\ StepOK
<1>1. /\ OnlyRun
      /\ \/ rp = "unlink_report" /\ rp' \in {"unlink_ownership", "save_cleanup_failed"}
         \/ rp = "unlink_ownership" /\ rp' \in {"save_run_done", "save_cleanup_failed"}
         \/ rp = "release" /\ rp' \in {"unlink_session", "abort"}
         \/ rp = "abort" /\ rp' = "ended"
      /\ \/ disk' = disk
         \/ disk' = [disk EXCEPT !.report = "absent"]
         \/ disk' = [disk EXCEPT !.ownership = FALSE]
         \/ disk' = [disk EXCEPT !.locked = FALSE]
  <2>1. CASE UnlinkRunReport
    BY <2>1, RunDoes DEF IInv, UnlinkRunReport, At, rp
  <2>2. CASE UnlinkRunOwnership
    BY <2>2, RunDoes DEF IInv, UnlinkRunOwnership, At, rp
  <2>3. CASE ReleaseLock
    BY <2>3, RunDoes DEF IInv, ReleaseLock, Effect, At, rp
  <2>4. CASE ReleaseAfterError
    BY <2>4, RunDoes DEF IInv, ReleaseAfterError, Effect, At, rp
  <2> QED
    BY <2>1, <2>2, <2>3, <2>4
<1>2. DiskTyped' /\ Kept
  BY <1>1 DEF IInv, DiskTyped, Disk, Kept, WorkspaceEmpty
<1> QED
  BY <1>1, <1>2, RunGoesOn DEF Stays, AtPending, AtDone, Deletes, RunLabel, Over

\* The record and the workspace go last.
LEMMA RemovalStep ==
  ASSUME IInv, UnlinkSession("run", "ended") \/ RemoveWorkspace("run", "ended")
  PROVE  IInv' /\ StepOK
<1>1. /\ OnlyRun /\ rp \in {"unlink_session", "rmdir_workspace"}
      /\ rp' \in {"rmdir_workspace", "ended"} /\ (rp = "rmdir_workspace" => rp' = "ended")
      /\ \/ disk' = disk
         \/ rp = "unlink_session" /\ disk' = [disk EXCEPT !.record = None]
         \/ rp' = "ended" /\ WorkspaceEmpty /\ disk' = [disk EXCEPT !.workspace = FALSE]
  <2>1. CASE UnlinkSession("run", "ended")
    BY <2>1, RunDoes DEF IInv, UnlinkSession, At, rp
  <2>2. CASE RemoveWorkspace("run", "ended")
    BY <2>2, RunDoes DEF IInv, RemoveWorkspace, At, rp
  <2> QED
    BY <2>1, <2>2
<1>2. /\ DiskTyped' /\ disk'.record \in {disk.record, None}
      /\ disk'.workspace = disk.workspace \/ rp' = "ended"
      /\ disk'.candidate = disk.candidate /\ disk'.snapshot = disk.snapshot
      /\ disk'.target = disk.target
  BY <1>1 DEF IInv, DiskTyped, Disk, WorkspaceEmpty
<1>3. RunHolds' /\ DeletesOwn'
  BY <1>1, <1>2 DEF IInv, OnlyRun, RunHolds, DeletesOwn, AtDone, Over
<1> QED
  BY <1>1, <1>2, <1>3, RunAdvances DEF Stays, AtDone, RunLabel, Over

\* Every step of the run.
LEMMA RunStepOK == ASSUME IInv, RunStep PROVE IInv' /\ StepOK
BY AcquireLockStep, MakeWorkspaceStep, CompilePlanStep, RunSavesStep, AssemblyStep, CheckBlueprintsStep,
   SaveOwnershipStep, VerificationStep, SnapshottingStep, PublicationStep, EndingStep, RunDeletionStep,
   RemovalStep
DEF RunStep----------------------------------------------------------------------------
(***************************************************************************)
(* The commands.                                                           *)
(***************************************************************************)

\* What a command may take away without disturbing the run: a run whose
\* record is ending or cancelled does not rely on it any more.
LEMMA CommandAdvances ==
  ASSUME IInv, OnlyCommand, cs' = cs, DiskTyped', CommandHolds', DeletesOwn',
         disk'.snapshot = disk.snapshot, disk'.target = disk.target,
         \/ disk'.record = disk.record /\ disk'.workspace = disk.workspace
            /\ disk'.candidate = disk.candidate
         \/ /\ Is(cs, Ending \cup {"CANCELLED"}) /\ disk'.record \in {disk.record, None}
            /\ disk'.candidate = disk.candidate \/ Unspoilt(disk.candidate)
  PROVE  IInv' /\ StepOK
<1>1. Is(cs, Ending \cup {"CANCELLED"}) =>
        /\ rp \in AtPending \cup AtDone \cup Over
        /\ disk.record = None \/ Is(disk.record, Ending \cup {"CANCELLED"})
  BY DEF IInv, RecordTells, CommandHolds, Is, Ending, Dropped
<1>2. RunIsAlone'
  BY <1>1 DEF IInv, OnlyCommand, RunIsAlone, Is, Ending, Building, RunLabel, AtNew, AtPlanned,
         AtMaterializing, AtMaterialized, AtVerifying, AtVerified, AtAwaiting, AtCommitting, AtCommitted,
         AtPending, AtDone, Deletes, Over
<1>3. RunHolds'
  BY <1>1 DEF IInv, OnlyCommand, RunHolds, AtPending, AtDone, AtCommitted, Deletes, Over
<1>4. RecordTells'
  BY <1>1 DEF IInv, OnlyCommand, RecordTells, Is, Ending, Dropped, Whole
<1>5. RecordStep /\ CandidateStep
  BY <1>1 DEF RecordStep, CandidateStep, Is, Ending, Unspoilt
<1> QED
  BY <1>2, <1>3, <1>4, <1>5 DEF IInv, OnlyCommand, StepOK, SnapshotStep, TargetStep

\* From its first deletion on, a command only takes away.
LEMMA CommandDrops ==
  ASSUME IInv, OnlyCommand, cs' = cs, cj' = cj, DiskTyped', DeletesOwn',
         disk'.snapshot = disk.snapshot, disk'.target = disk.target,
         disk'.record \in {disk.record, None},
         disk'.candidate = disk.candidate \/ Unspoilt(disk.candidate),
         \/ cp \in Deletes \cup Leaves /\ cp' = "idle"
         \/ cp \in Deletes /\ cp' \in Deletes \cup {"unlink_ownership"}
         \/ cp \in Deletes /\ cj = "cleanup" /\ cp' = "save_done"
         \/ cp \in Leaves /\ cp' \in Leaves
  PROVE  IInv' /\ StepOK
<1>1. Is(cs, Ending \cup {"CANCELLED"})
  BY DEF IInv, CommandHolds, Is, Ending
<1>2. CommandHolds'
  BY <1>1 DEF IInv, OnlyCommand, CommandHolds, Is, Ending, CommandLabel, Deletes, Leaves
<1> QED
  BY <1>1, <1>2, CommandAdvances

\* A command deletes what its record says is to go.
LEMMA CommandDeletionStep == ASSUME IInv, DeletionStep("command") PROVE IInv' /\ StepOK
<1>1. /\ Moves("command") /\ cp \in Deletes /\ cp' \in Deletes \cup {"idle"}
      /\ DiskTyped' /\ disk'.record = disk.record
      /\ disk'.snapshot = disk.snapshot /\ disk'.target = disk.target
      /\ disk'.candidate = disk.candidate \/ Unspoilt(disk.candidate)
      /\ DeletesOwn'
  BY DeletionDoes DEF Process, Stopped, Refused, cp
<1>2. OnlyCommand /\ cs' = cs /\ cj' = cj
  BY <1>1 DEF Moves, OnlyCommand, Process, rp, rs, cj, cs
<1> QED
  BY <1>1, <1>2, CommandDrops

\* A command unlinks the last records and the workspace.
LEMMA CommandLeavesStep ==
  ASSUME IInv, \/ UnlinkReport \/ UnlinkOwnership
               \/ UnlinkSession("command", "idle") \/ RemoveWorkspace("command", "idle")
  PROVE  IInv' /\ StepOK
<1>1. /\ OnlyCommand /\ cs' = cs /\ cj' = cj
      /\ \/ cp = "unlink_report" /\ cp' = (IF cj = "cleanup" THEN "save_done" ELSE "unlink_ownership")
         \/ cp \in Deletes \cup Leaves /\ cp' = "idle"
         \/ cp = "unlink_ownership" /\ cp' = "unlink_session"
         \/ cp = "unlink_session" /\ cp' = "rmdir_workspace"
      /\ \/ disk' = disk
         \/ disk' = [disk EXCEPT !.report = "absent"]
         \/ disk' = [disk EXCEPT !.ownership = FALSE]
         \/ disk' = [disk EXCEPT !.record = None]
         \/ WorkspaceEmpty /\ disk' = [disk EXCEPT !.workspace = FALSE]
  <2>1. CASE UnlinkReport
    BY <2>1, CommandDoes DEF IInv, UnlinkReport, Effect, At, cp, cj, Deletes
  <2>2. CASE UnlinkOwnership
    BY <2>2, CommandDoes DEF IInv, UnlinkOwnership, Effect, At, cp, Leaves
  <2>3. CASE UnlinkSession("command", "idle")
    BY <2>3, CommandDoes DEF IInv, UnlinkSession, At, cp, Leaves
  <2>4. CASE RemoveWorkspace("command", "idle")
    BY <2>4, CommandDoes DEF IInv, RemoveWorkspace, At, cp, Leaves
  <2> QED
    BY <2>1, <2>2, <2>3, <2>4
<1>2. /\ DiskTyped' /\ disk'.record \in {disk.record, None}
      /\ disk'.candidate = disk.candidate /\ disk'.snapshot = disk.snapshot
      /\ disk'.target = disk.target
  BY <1>1 DEF IInv, DiskTyped, Disk, WorkspaceEmpty
<1>3. DeletesOwn'
  BY <1>1, <1>2 DEF IInv, OnlyCommand, DeletesOwn
<1> QED
  BY <1>1, <1>2, <1>3, CommandDrops DEF Deletes, Leaves

\* What a command accepts after it has looked at the evidence.
LEMMA PreflightStep ==
  ASSUME IInv, PreflightCleanup \/ PreflightDiscard \/ PreflightRecover
  PROVE  IInv' /\ StepOK
<1>1. /\ OnlyCommand /\ cs' = cs /\ cj' = cj /\ disk' = disk /\ cp = "preflight"
      /\ \/ cp' = "idle"
         \/ cj = "cleanup" /\ cs.state = "DONE" /\ cp' = "unlink_ownership"
         \/ cj = "cleanup" /\ cs.state = "CLEANUP_PENDING" /\ cp' = "env_check"
         \/ cj = "discard" /\ cs.state = "CANCELLED" /\ cp' = "candidate_check"
         \/ cj = "discard" /\ cs.state = "FAILED_RETRYABLE" /\ cp' = "save_cancelled"
         \/ cj = "recover" /\ cs.state = "COMMITTING" /\ cp' = "save_recovered"
  <2>1. CASE PreflightCleanup
    BY <2>1, CommandDoes DEF IInv, PreflightCleanup, Branch, At, Loaded, CleanupAccepts, cp, cj, cs
  <2>2. CASE PreflightDiscard
    BY <2>2, CommandDoes DEF IInv, PreflightDiscard, Branch, At, Loaded, DiscardAccepts, cp, cj, cs
  <2>3. CASE PreflightRecover
    BY <2>3, CommandDoes DEF IInv, PreflightRecover, Branch, At, Loaded, cp, cj, cs
  <2> QED
    BY <2>1, <2>2, <2>3
<1>2. DiskTyped'
  BY <1>1 DEF IInv, DiskTyped, WorkspaceEmpty
<1>3. CommandHolds'
  BY <1>1 DEF IInv, OnlyCommand, CommandHolds, CommandLabel, Is, Ending, Dropped, Deletes, Leaves
<1>4. DeletesOwn'
  BY <1>1 DEF IInv, OnlyCommand, DeletesOwn
<1> QED
  BY <1>1, <1>2, <1>3, <1>4, CommandAdvances

\* A command is started with nothing in memory.
LEMMA StartStep ==
  ASSUME IInv, NEW job \in {"cleanup", "discard", "recover"}, StartCommand(job)
  PROVE  IInv' /\ StepOK
<1>1. /\ OnlyCommand /\ cs' = cs /\ cj' = job /\ disk' = disk /\ cp = "idle" /\ cp' = "load"
      /\ job = "recover" => rp \in {"ended", "crashed"}
  BY DEF IInv, StartCommand, Finished, At, ProcTyped, FaultsTyped, Process, Job, OnlyCommand, rp, rs, cp, cj, cs
<1>2. DiskTyped'
  BY <1>1 DEF IInv, DiskTyped, WorkspaceEmpty
<1>3. CommandHolds' /\ DeletesOwn'
  BY <1>1 DEF IInv, OnlyCommand, CommandHolds, DeletesOwn, CommandLabel, Is, Deletes, Leaves
<1> QED
  BY <1>1, <1>2, <1>3, CommandAdvances

\* What a command loads is what the disk says.
LEMMA LoadStep == ASSUME IInv, LoadSession PROVE IInv' /\ StepOK
<1>1. /\ OnlyCommand /\ cs' = disk.record /\ cj' = cj /\ disk' = disk /\ cp = "load"
      /\ cp' = IF disk.record = None THEN "idle" ELSE "preflight"
  BY DEF IInv, LoadSession, At, DiskTyped, Disk, ProcTyped, FaultsTyped, Process, OnlyCommand, rp, rs, cp, cj, cs
<1>2. DiskTyped' /\ RunIsAlone' /\ RunHolds'
  BY <1>1 DEF IInv, OnlyCommand, DiskTyped, RunIsAlone, RunHolds, WorkspaceEmpty
<1>3. RecordTells'
  BY <1>1 DEF IInv, OnlyCommand, RecordTells
<1>4. CommandHolds' /\ DeletesOwn'
  BY <1>1 DEF IInv, OnlyCommand, CommandHolds, DeletesOwn, CommandLabel, Is, Deletes, Leaves
<1> QED
  BY <1>1, <1>2, <1>3, <1>4 DEF IInv, OnlyCommand, StepOK, RecordStep, CandidateStep, SnapshotStep, TargetStep

\* Which record a command may save where, and where it goes on.
CommandMay(s) ==
  \/ /\ cp = "save_recovered" /\ cp' = "idle"
     /\ \/ s.state = "AWAITING_CONFIRMATION"
        \/ s.state = "COMMITTED" /\ disk.target = GoodTree
        \/ s.state = "AMBIGUOUS"
  \/ cp = "save_cancelled" /\ s.state = "CANCELLED" /\ cp' = "candidate_check"
  \/ cp = "save_done" /\ s.state = "DONE" /\ cp' = "unlink_ownership"

\* A command writes a record that its preflight allows (CommandMay).
LEMMA CommandRecords ==
  ASSUME IInv, NEW s \in GenerationSession, Constructible(s), NEW to, SaveRecord("command", s, to, "idle"),
         cp' = to => CommandMay(s), cp \in {"save_recovered", "save_cancelled", "save_done"}
  PROVE  IInv' /\ StepOK
<1>1. CASE OnlyCommand /\ cs' = cs /\ cj' = cj /\ cp' = "idle" /\ disk' = disk
  <2>1. DiskTyped' /\ DeletesOwn'
    BY <1>1 DEF IInv, OnlyCommand, DiskTyped, DeletesOwn, WorkspaceEmpty
  <2>2. CommandHolds'
    BY <1>1 DEF IInv, OnlyCommand, CommandHolds, CommandLabel, Is, Deletes, Leaves
  <2> QED
    BY <1>1, <2>1, <2>2, CommandAdvances
<1>2. CASE /\ disk.workspace /\ disk' = [disk EXCEPT !.record = s]
           /\ proc' = [proc EXCEPT !["command"].pc = to, !["command"].session = s]
           /\ UNCHANGED faults
  <2>1. /\ DiskTyped' /\ disk'.record = s /\ disk'.workspace = disk.workspace
        /\ disk'.candidate = disk.candidate /\ disk'.snapshot = disk.snapshot
        /\ disk'.target = disk.target
    BY <1>2 DEF IInv, DiskTyped, Disk
  <2>2. OnlyCommand /\ cp' = to /\ cs' = s /\ cj' = cj
    BY <1>2 DEF IInv, ProcTyped, FaultsTyped, Process, OnlyCommand, rp, rs, cp, cj, cs
  <2>3. s # None /\ CommandMay(s)
    BY <2>2, NoneIsNoSession
  <2>4. \/ s.state \in {"AWAITING_CONFIRMATION", "COMMITTED", "AMBIGUOUS"} /\ rp \in {"ended", "crashed"}
           /\ Is(disk.record, {"COMMITTING"})
        \/ s.state = "CANCELLED" /\ rp \in Over /\ disk.target \in {NoDir, Foreign}
           /\ (disk.record = None \/ Is(disk.record, {"FAILED_RETRYABLE"}))
        \/ s.state = "DONE" /\ rp \in AtPending \cup AtDone \cup Over /\ Published(disk.target)
           /\ (disk.record = None \/ Is(disk.record, Ending))
    BY <2>3 DEF IInv, CommandMay, CommandHolds, RecordTells, Is, Committed, Ending, Dropped
  <2>5. RunIsAlone'
    BY <2>1, <2>2, <2>3, <2>4
    DEF IInv, OnlyCommand, RunIsAlone, Is, Ending, Building, RunLabel, AtNew, AtPlanned,
        AtMaterializing, AtMaterialized, AtVerifying, AtVerified, AtAwaiting, AtCommitting, AtCommitted,
        AtPending, AtDone, Deletes, Over
  <2>6. RunHolds' /\ DeletesOwn'
    BY <2>1, <2>2, <2>3 DEF IInv, OnlyCommand, RunHolds, DeletesOwn, CommandMay
  <2>7. RecordTells'
    BY <2>1, <2>2, <2>3, <2>4, GoodTreeIsWhole
    DEF IInv, OnlyCommand, RecordTells, CommandMay, Is, Committed, Ending, Dropped, Whole, Over
  <2>8. CommandHolds'
    BY <2>1, <2>2, <2>3, <2>4
    DEF IInv, OnlyCommand, CommandHolds, CommandMay, CommandLabel, Is, Ending, Dropped, Deletes, Leaves
  <2>9. RecordStep
    BY <2>1, <2>3, <2>4 DEF RecordStep, MovesTo, SimpleTransitions, CancellableStates, Is, Ending
  <2> QED
    BY <2>1, <2>2, <2>5, <2>6, <2>7, <2>8, <2>9
    DEF IInv, OnlyCommand, StepOK, CandidateStep, SnapshotStep, TargetStep
<1> QED
  BY <1>1, <1>2, CommandDoes DEF SaveRecord, IInv

\* Every save of a command writes such a record.
LEMMA CommandSavesStep ==
  ASSUME IInv, SaveRecovered \/ SaveCancelled \/ SaveDone PROVE IInv' /\ StepOK
<1>1. ASSUME cp \in {"save_recovered", "save_cancelled", "save_done"} PROVE Loaded = cs /\ cs \in GenerationSession
  BY <1>1 DEF IInv, ProcTyped, Process, CommandHolds, Loaded, cs
<1>2. ASSUME NEW state \in State \ {"FAILED_RETRYABLE"}, NEW to, SaveRecord("command", Moved(cs, state), to, "idle"),
             cp \in {"save_recovered", "save_cancelled", "save_done"},
             Moved(cs, state).state = state /\ cp' = to => CommandMay(Moved(cs, state))
      PROVE  IInv' /\ StepOK
  BY <1>1, <1>2, MovedRecord, CommandRecords
<1>3. CASE SaveRecovered
  <2>1. /\ cp = "save_recovered" /\ cs.state = "COMMITTING"
        /\ SaveRecord("command", Simple(cs, PublishFacts), "idle", "idle")
    BY <1>1, <1>3 DEF IInv, SaveRecovered, CommandHolds, Is, At, cp
  <2>2. \/ PublishFacts \in {"RECOVER_AMBIGUOUS", "RECOVER_BEFORE_PUBLISH"}
        \/ PublishFacts = "RECOVER_PUBLISHED" /\ disk.target = GoodTree
    BY DEF PublishFacts
  <2>3. \/ Simple(cs, PublishFacts) = Moved(cs, "AMBIGUOUS")
        \/ Simple(cs, PublishFacts) = Moved(cs, "AWAITING_CONFIRMATION")
        \/ Simple(cs, PublishFacts) = Moved(cs, "COMMITTED") /\ disk.target = GoodTree
    BY <1>1, <2>1, <2>2, SimpleRecords
  <2> QED
    BY <1>2, <2>1, <2>3 DEF CommandMay, State
<1>4. CASE SaveCancelled
  <2>1. cp = "save_cancelled" /\ SaveRecord("command", Moved(cs, "CANCELLED"), "candidate_check", "idle")
    BY <1>1, <1>4 DEF SaveCancelled, At, cp
  <2> QED
    BY <1>2, <2>1 DEF CommandMay, State
<1>5. CASE SaveDone
  <2>1. /\ cp = "save_done" /\ cs.state = "CLEANUP_PENDING"
        /\ SaveRecord("command", Simple(cs, "CLEANUP_SUCCEEDED"), "unlink_ownership", "idle")
    BY <1>1, <1>5 DEF IInv, SaveDone, CommandHolds, Is, At, cp
  <2> QED
    BY <1>1, <1>2, <2>1, SimpleRecords DEF CommandMay, State
<1> QED
  BY <1>3, <1>4, <1>5

\* Every step of a command.
LEMMA CommandStepOK == ASSUME IInv, CommandStep PROVE IInv' /\ StepOK
BY LoadStep, PreflightStep, CommandSavesStep, CommandDeletionStep, CommandLeavesStep DEF CommandStep----------------------------------------------------------------------------
(***************************************************************************)
(* The environment, the first state, and any step at all.                  *)
(***************************************************************************)

\* A killed run gives up; a killed command is idle; a store's temporary file
\* may stay.
LEMMA CrashStep == ASSUME IInv, NEW p \in Process, Crash(p) PROVE IInv' /\ StepOK
<1>1. /\ FaultsTyped' /\ DiskTyped' /\ Kept
      /\ proc' = [proc EXCEPT ![p].pc = IF p = "run" THEN "crashed" ELSE "idle"]
  <2>1. disk' = disk \/ (disk.workspace /\ disk' = [disk EXCEPT !.stray = TRUE])
    BY DEF Crash
  <2>2. DiskTyped' /\ Kept
    BY <2>1 DEF IInv, DiskTyped, Disk, Kept, WorkspaceEmpty
  <2> QED
    BY <2>2, Spending DEF IInv, Crash
<1>2. Moves(p) /\ proc'[p].pc = IF p = "run" THEN "crashed" ELSE "idle"
  BY <1>1, ProcessDoes DEF IInv
<1>3. CASE p = "run"
  <2>1. OnlyRun /\ rp' = "crashed" /\ rp \notin {"ended", "crashed"} /\ rp \in RunLabel
    BY <1>2, <1>3 DEF IInv, Crash, Moves, OnlyRun, Process, RunIsAlone, rp, rs, cp, cj, cs
  <2> QED
    BY <1>1, <2>1, RunGoesOn DEF Stays, Over
<1>4. CASE p = "command"
  <2>1. OnlyCommand /\ cs' = cs /\ cj' = cj /\ cp' = "idle"
    BY <1>2, <1>4 DEF Moves, OnlyCommand, Process, rp, rs, cp, cj, cs
  <2>2. CommandHolds'
    BY <1>1, <2>1 DEF IInv, OnlyCommand, Kept, CommandHolds, CommandLabel, Is, Deletes, Leaves
  <2>3. DeletesOwn'
    BY <1>1, <2>1 DEF IInv, OnlyCommand, Kept, DeletesOwn
  <2> QED
    BY <1>1, <2>1, <2>2, <2>3, CommandAdvances DEF Kept
<1> QED
  BY <1>3, <1>4 DEF Process

\* An edit leaves the record and the processes alone.
LEMMA EditKeeps ==
  ASSUME IInv, UNCHANGED proc, Spend("edit"), disk'.record = disk.record, disk'.workspace = disk.workspace
  PROVE  /\ ProcTyped' /\ FaultsTyped' /\ RunIsAlone' /\ CommandHolds'
         /\ rp' = rp /\ rs' = rs /\ cp' = cp /\ cj' = cj /\ cs' = cs
         /\ RecordStep
<1>1. /\ rp' = rp /\ rs' = rs /\ cp' = cp /\ cj' = cj /\ cs' = cs
      /\ proc'["run"].job = proc["run"].job
  BY DEF rp, rs, cp, cj, cs
<1>2. ProcTyped' /\ FaultsTyped'
  BY Spending DEF IInv, ProcTyped
<1> QED
  BY <1>1, <1>2 DEF IInv, RunIsAlone, CommandHolds, RecordStep

\* Others edit a file of the candidate.
LEMMA EditCandidateStep == ASSUME IInv, NEW f \in File, EditCandidate(f) PROVE IInv' /\ StepOK
<1>1. /\ disk.candidate \in Tree /\ disk.candidate[f] = "good"
      /\ disk' = [disk EXCEPT !.candidate = [disk.candidate EXCEPT ![f] = "bad"]]
      /\ UNCHANGED proc /\ Spend("edit") /\ cp # "candidate_files" /\ rp # "candidate_files"
  BY DEF IInv, DiskTyped, Disk, EditCandidate, Deleting, At, Process, rp, cp
<1>2. [disk.candidate EXCEPT ![f] = "bad"] \in Tree
  BY <1>1 DEF Tree, Content
<1>3. /\ disk'.candidate = [disk.candidate EXCEPT ![f] = "bad"]
      /\ disk'.record = disk.record /\ disk'.workspace = disk.workspace
      /\ disk'.snapshot = disk.snapshot /\ disk'.target = disk.target
      /\ DiskTyped'
  BY <1>1, <1>2, NoneIsNoDirectory DEF IInv, DiskTyped, Disk, WorkspaceEmpty
<1>4. Full(disk.candidate) => Full(disk'.candidate)
  BY <1>3 DEF Full
<1>5. RunHolds' /\ RecordTells' /\ DeletesOwn'
  BY <1>1, <1>2, <1>3, <1>4, EditKeeps DEF IInv, RunHolds, RecordTells, DeletesOwn
<1> QED
  BY <1>1, <1>3, <1>5, EditKeeps DEF IInv, StepOK, CandidateStep, SnapshotStep, TargetStep

\* Others edit a file of the snapshot.
LEMMA EditSnapshotStep == ASSUME IInv, NEW f \in File, EditSnapshot(f) PROVE IInv' /\ StepOK
<1>1. /\ disk.snapshot \in Tree
      /\ disk' = [disk EXCEPT !.snapshot = [disk.snapshot EXCEPT ![f] = "bad"]]
      /\ UNCHANGED proc /\ Spend("edit")
  BY DEF IInv, DiskTyped, Disk, EditSnapshot
<1>2. [disk.snapshot EXCEPT ![f] = "bad"] \in Tree
  BY <1>1 DEF Tree, Content
<1>3. /\ disk'.snapshot = [disk.snapshot EXCEPT ![f] = "bad"]
      /\ disk'.record = disk.record /\ disk'.workspace = disk.workspace
      /\ disk'.candidate = disk.candidate /\ disk'.target = disk.target
      /\ DiskTyped'
  BY <1>1, <1>2, NoneIsNoDirectory DEF IInv, DiskTyped, Disk, WorkspaceEmpty
<1>4. RunHolds' /\ RecordTells' /\ DeletesOwn'
  BY <1>1, <1>2, <1>3, EditKeeps DEF IInv, RunHolds, RecordTells, DeletesOwn
<1> QED
  BY <1>1, <1>2, <1>3, <1>4, EditKeeps, NoneIsNoDirectory
  DEF IInv, StepOK, CandidateStep, SnapshotStep, TargetStep

\* The user edits what is published, or what is not yet known to be.
LEMMA EditTargetStep == ASSUME IInv, NEW f \in File, EditTarget(f) PROVE IInv' /\ StepOK
<1>1. PICK c \in {"bad", "edited"} :
        /\ disk.target \in Tree
        /\ disk' = [disk EXCEPT !.target = [disk.target EXCEPT ![f] = c]]
        /\ UNCHANGED proc /\ Spend("edit")
        /\ c = "bad" => rp = "check_published"
        /\ c = "edited" => rp \in {"ended", "crashed"}
  BY DEF IInv, DiskTyped, Disk, EditTarget, Finished, At, rp
<1>2. [disk.target EXCEPT ![f] = c] \in Tree
  BY <1>1 DEF Tree, Content
<1>3. /\ disk'.target = [disk.target EXCEPT ![f] = c]
      /\ disk'.record = disk.record /\ disk'.workspace = disk.workspace
      /\ disk'.candidate = disk.candidate /\ disk'.snapshot = disk.snapshot
      /\ DiskTyped'
  BY <1>1, <1>2 DEF IInv, DiskTyped, Disk, WorkspaceEmpty
<1>4. Published(disk.target) => Published(disk'.target) \/ rp = "check_published"
  BY <1>1, <1>3 DEF Published
<1>5. RunHolds' /\ DeletesOwn'
  BY <1>1, <1>3, EditKeeps DEF IInv, RunHolds, DeletesOwn, Over
<1>6. RecordTells'
  BY <1>1, <1>3, <1>4, EditKeeps, NoneIsNoDirectory
  DEF IInv, RecordTells, Is, AtCommitted, AtPending, AtDone, Deletes, Over
<1> QED
  BY <1>1, <1>2, <1>3, <1>5, <1>6, EditKeeps DEF IInv, StepOK, CandidateStep, SnapshotStep, TargetStep

\* Others take the target while it is free.
LEMMA CreateTargetStep == ASSUME IInv, CreateTarget PROVE IInv' /\ StepOK
<1>1. disk.target = NoDir /\ disk' = [disk EXCEPT !.target = Foreign] /\ UNCHANGED proc /\ Spend("edit")
  BY DEF CreateTarget
<1>2. /\ disk'.target = Foreign
      /\ disk'.record = disk.record /\ disk'.workspace = disk.workspace
      /\ disk'.candidate = disk.candidate /\ disk'.snapshot = disk.snapshot
      /\ DiskTyped'
  BY <1>1 DEF IInv, DiskTyped, Disk, WorkspaceEmpty
<1>3. ~Published(disk.target) /\ disk.target # GoodTree
  BY <1>1, NoneIsNoDirectory, GoodTreeIsWhole DEF Published, Tree, Content
<1>4. RunHolds' /\ RecordTells' /\ DeletesOwn'
  BY <1>1, <1>2, <1>3, EditKeeps DEF IInv, RunHolds, RecordTells, DeletesOwn
<1> QED
  BY <1>1, <1>2, <1>4, EditKeeps DEF IInv, StepOK, CandidateStep, SnapshotStep, TargetStep

\* Before the run there is nothing.
LEMMA InitIsInvariant == ASSUME Init PROVE IInv
<1>1. DiskTyped
  BY DEF Init, DiskTyped, Disk, WorkspaceEmpty
<1>2. /\ ProcTyped /\ rp = "acquire" /\ rs = None /\ proc["run"].job = "generate"
      /\ cp = "idle" /\ cs = None
  BY DEF Init, ProcTyped, Process, Job, rp, rs, cp, cs
<1>3. FaultsTyped
  BY BudgetsAreNat DEF Init, FaultsTyped
<1>4. disk.record = None /\ disk.target = NoDir
  BY DEF Init
<1>5. RunIsAlone
  BY <1>2, <1>4 DEF RunIsAlone, Building, RunLabel, AtNew, AtPlanned, AtMaterializing, AtMaterialized,
         AtVerifying, AtVerified, AtAwaiting, AtCommitting, AtCommitted, AtPending, AtDone, Deletes, Over
<1>6. RunHolds /\ RecordTells
  BY <1>2, <1>4 DEF RunHolds, RecordTells, Is
<1>7. CommandHolds /\ DeletesOwn
  BY <1>2, <1>4 DEF CommandHolds, DeletesOwn, CommandLabel, Is, Deletes, Leaves
<1> QED
  BY <1>1, <1>2, <1>3, <1>5, <1>6, <1>7 DEF IInv

\* Any step keeps the invariant, and does to the record and to the trees what
\* StepOK says.
LEMMA AnyStep == ASSUME IInv, [Next]_vars PROVE IInv' /\ StepOK
<1>1. CASE RunStep
  BY <1>1, RunStepOK
<1>2. CASE CommandStep
  BY <1>2, CommandStepOK
<1>3. CASE Environment
  BY <1>3, CrashStep, EditCandidateStep, EditSnapshotStep, EditTargetStep, CreateTargetStep DEF Environment
<1>4. CASE \E job \in {"cleanup", "discard", "recover"} : StartCommand(job)
  BY <1>4, StartStep
<1>5. CASE UNCHANGED vars
  <2>1. /\ disk' = disk /\ proc' = proc /\ faults' = faults
        /\ rp' = rp /\ rs' = rs /\ cp' = cp /\ cj' = cj /\ cs' = cs
    BY <1>5 DEF vars, rp, rs, cp, cj, cs
  <2>2. DiskTyped' /\ ProcTyped' /\ FaultsTyped'
    BY <2>1 DEF IInv, DiskTyped, ProcTyped, FaultsTyped, WorkspaceEmpty
  <2>3. RunIsAlone' /\ RunHolds' /\ RecordTells' /\ CommandHolds' /\ DeletesOwn'
    BY <2>1 DEF IInv, RunIsAlone, RunHolds, RecordTells, CommandHolds, DeletesOwn
  <2> QED
    BY <2>1, <2>2, <2>3 DEF IInv, StepOK, RecordStep, CandidateStep, SnapshotStep, TargetStep
<1> QED
  BY <1>1, <1>2, <1>3, <1>4, <1>5 DEF Next

----------------------------------------------------------------------------
(***************************************************************************)
(* What follows.                                                           *)
(***************************************************************************)

\* For any files and budgets: in every state of every behaviour the run and
\* the command stand where IInv says they do.
THEOREM SystemInvariant == Spec => []IInv
BY InitIsInvariant, AnyStep, PTL DEF Spec

\* Every state is well typed, every record on disk is one its own constructor
\* accepts, and a workspace that is gone has left nothing behind.
THEOREM SystemTypeCorrect == Spec => []TypeOK
<1>1. ASSUME IInv PROVE TypeOK
  <2>1. /\ disk \in Disk /\ (disk.record # None => Constructible(disk.record))
        /\ ~disk.workspace => WorkspaceEmpty
    BY <1>1 DEF IInv, DiskTyped
  <2>2. faults.error \in 0..Errors /\ faults.crash \in 0..Crashes /\ faults.edit \in 0..Edits
    BY <1>1 DEF IInv, FaultsTyped
  <2>3. RunLabel \subseteq Label /\ CommandLabel \subseteq Label
    BY DEF RunLabel, CommandLabel, Label, SimpleSaves, FailureSaves, Building, AtNew, AtPlanned, AtMaterializing,
           AtMaterialized, AtVerifying, AtVerified, AtAwaiting, AtCommitting, AtCommitted, AtPending,
           AtDone, Deletes, Leaves, Over
  <2>4. ASSUME NEW p \in Process
        PROVE  /\ proc[p].pc \in Label /\ proc[p].job \in Job
               /\ proc[p].session \in GenerationSession \cup {None} /\ proc[p].todo \subseteq File
    BY <1>1, <2>3 DEF IInv, ProcTyped, Process, RunIsAlone, CommandHolds, rp, cp
  <2> QED
    BY <2>1, <2>2, <2>4 DEF TypeOK
<1> QED
  BY <1>1, SystemInvariant, PTL

\* Whatever fails, dies or is edited, and whenever commands are started: a
\* record that says COMMITTED or later means the project is in the target.
THEOREM CommittedMeansPublished == Spec => []CommittedIsPublished
<1>1. IInv => CommittedIsPublished
  BY DEF IInv, RecordTells, CommittedIsPublished, HasState, Is, Committed
<1> QED
  BY <1>1, SystemInvariant, PTL

\* While a record owns a candidate and is not cancelled, every file of the
\* project is in the candidate, in the snapshot or in the target.
THEOREM ProjectIsNeverLost == Spec => []NoLastCopyLost
<1>1. ASSUME IInv, disk.record # None, disk.record.candidate # None, disk.record.state # "CANCELLED"
      PROVE  Published(disk.target) \/ Full(disk.candidate)
  BY <1>1 DEF IInv, DiskTyped, Disk, GenerationSession, State, RecordTells, Is, Committed, Whole
<1>2. ASSUME NEW t, Published(t) \/ Full(t), NEW f \in File
      PROVE  t \notin {NoDir, Foreign} /\ t[f] # "absent"
  BY <1>2, NoneIsNoDirectory DEF Published, Full, Tree, Content
<1>3. IInv => NoLastCopyLost
  BY <1>1, <1>2 DEF NoLastCopyLost
<1> QED
  BY <1>3, SystemInvariant, PTL

\* A run that is recorded as failed, or cancelled, has published nothing.
THEOREM FailedRunsPublishNothing == Spec => []FailedMeansNotPublished
<1>1. IInv => FailedMeansNotPublished
  BY DEF IInv, RecordTells, FailedMeansNotPublished, HasState, Is, Dropped
<1> QED
  BY <1>1, SystemInvariant, PTL

\* No step of the run, of a command or of the environment changes an edited
\* file of an owned candidate, a foreign target, or takes a published project
\* away, if nobody edits a candidate while its files are being unlinked.
THEOREM OthersDataIsKept == Spec => OthersDataKept
<1> DEFINE Keeps ==
      /\ disk.record # None /\ disk.record.candidate # None /\ disk.candidate # NoDir =>
           \A f \in File : disk.candidate[f] = "bad" =>
             disk'.candidate # NoDir /\ disk'.candidate[f] = "bad"
      /\ disk.target = Foreign => disk'.target = Foreign
      /\ disk.target \in Tree => disk'.target \in Tree
<1>1. ASSUME IInv, StepOK PROVE Keeps
  <2>1. disk.record # None /\ disk.record.candidate # None /\ disk.candidate # NoDir =>
           \A f \in File : disk.candidate[f] = "bad" =>
             disk'.candidate # NoDir /\ disk'.candidate[f] = "bad"
    <3> SUFFICES ASSUME disk.record # None, disk.record.candidate # None, disk.candidate # NoDir,
                        NEW f \in File, disk.candidate[f] = "bad"
                 PROVE  disk'.candidate # NoDir /\ disk'.candidate[f] = "bad"
      OBVIOUS
    <3>1. CASE disk'.candidate = disk.candidate
      BY <3>1
    <3>2. ASSUME NEW g \in File, disk.candidate \in Tree, disk.candidate[g] = "good",
                 disk'.candidate = [disk.candidate EXCEPT ![g] = "bad"]
          PROVE  disk'.candidate # NoDir /\ disk'.candidate[f] = "bad"
      <4>1. [disk.candidate EXCEPT ![g] = "bad"] \in Tree
        BY <3>2 DEF Tree, Content
      <4> QED
        BY <3>2, <4>1, NoneIsNoDirectory DEF Tree
    <3>3. disk.candidate \notin [File -> {"absent", "good"}]
      OBVIOUS
    <3> QED
      BY <1>1, <3>1, <3>2, <3>3 DEF StepOK, CandidateStep
  <2>2. /\ disk.target = Foreign => disk'.target = Foreign
        /\ disk.target \in Tree => disk'.target \in Tree
    BY <1>1, NoneIsNoDirectory DEF StepOK, TargetStep
  <2> QED
    BY <2>1, <2>2
<1>2. IInv /\ [Next]_vars => [Keeps]_vars
  BY <1>1, AnyStep
<1> HIDE DEF Keeps
<1>3. Spec => [][Keeps]_vars
  BY <1>2, SystemInvariant, PTL DEF Spec
<1> QED
  BY <1>3 DEF OthersDataKept, Keeps

\* Once a record says AMBIGUOUS no step changes it, or takes away the
\* candidate, the snapshot or the target.
THEOREM AmbiguousIsLeftAlone == Spec => AmbiguousIsPreserved
<1> DEFINE Preserves ==
      HasState({"AMBIGUOUS"}) =>
        /\ disk'.record = disk.record
        /\ disk.candidate # NoDir => disk'.candidate \in [File -> {"good", "bad"}]
        /\ disk.snapshot # NoDir => disk'.snapshot # NoDir
        /\ disk.target # NoDir => disk'.target # NoDir
<1>1. ASSUME IInv, StepOK PROVE Preserves
  <2> SUFFICES ASSUME Is(disk.record, {"AMBIGUOUS"})
               PROVE  /\ disk'.record = disk.record
                      /\ disk'.candidate \in [File -> {"good", "bad"}]
                      /\ disk.snapshot # NoDir => disk'.snapshot # NoDir
                      /\ disk.target # NoDir => disk'.target # NoDir
    BY DEF HasState, Is
  <2>1. disk'.record = disk.record
    BY <1>1 DEF StepOK, RecordStep, MovesTo, SimpleTransitions, FailureTransitions, CancellableStates, Is
  <2>2. Full(disk.candidate) /\ rp \in {"ended", "crashed"}
    BY <1>1 DEF IInv, RecordTells, CommandHolds, Is, Whole
  <2>3. Full(disk'.candidate)
    BY <1>1, <2>2 DEF StepOK, CandidateStep, Full, Is, Ending
  <2>4. disk.snapshot # NoDir => disk'.snapshot # NoDir
    BY <1>1, <2>2 DEF StepOK, SnapshotStep, AtAwaiting, AtCommitting
  <2>5. disk.target # NoDir => disk'.target # NoDir
    BY <1>1, NoneIsNoDirectory DEF StepOK, TargetStep
  <2> QED
    BY <2>1, <2>3, <2>4, <2>5 DEF Full
<1>2. IInv /\ [Next]_vars => [Preserves]_vars
  BY <1>1, AnyStep
<1> HIDE DEF Preserves
<1>3. Spec => [][Preserves]_vars
  BY <1>2, SystemInvariant, PTL DEF Spec
<1> QED
  BY <1>3 DEF AmbiguousIsPreserved, Preserves

\* Although the run and the commands write it from their own memories, the
\* record on disk follows the state machine as long as it does not say DONE.
THEOREM RecordObeysStateMachine == Spec => RecordFollowsStateMachine
<1> DEFINE Follows ==
      disk.record # None /\ disk'.record # None
        /\ disk'.record # disk.record /\ disk.record.state # "DONE" =>
        MovesTo(disk.record, disk'.record)
<1>1. ASSUME StepOK PROVE Follows
  BY <1>1 DEF StepOK, RecordStep, Is
<1>2. IInv /\ [Next]_vars => [Follows]_vars
  BY <1>1, AnyStep
<1> HIDE DEF Follows
<1>3. Spec => [][Follows]_vars
  BY <1>2, SystemInvariant, PTL DEF Spec
<1> QED
  BY <1>3 DEF RecordFollowsStateMachine, Follows
===============================================================================

--------------------------- MODULE GenerationDisk ---------------------------
(***************************************************************************)
(* What one generation run leaves on disk, and the steps both the run      *)
(* itself and the recovery commands take on it: saving session.json,       *)
(* deleting the validation environment, deleting the owned candidate,      *)
(* unlinking the evidence files.  GenerationRun and RecoveryCommands add   *)
(* the rest of their programs; ScaffoldSystem composes them.               *)
(*                                                                         *)
(* Every file-system effect is one step, because a crash or another        *)
(* process can come between any two of them.  A file of a tree is absent,  *)
(* good (the generated bytes), bad (bytes changed by somebody before       *)
(* publication) or edited (the user's work on the published project).      *)
(* A store's write-fsync-replace is one step: nobody reads the temporary   *)
(* file; only its presence counts, after a crash in the middle (stray).    *)
(***************************************************************************)
EXTENDS SessionMachine, FiniteSets

CONSTANTS File,     \* paths of the generated project
          NoDir,    \* the value of a directory that does not exist
          Foreign,  \* a target directory somebody else created
          Errors, Crashes, Edits  \* how many of each the environment does

VARIABLES
  disk,    \* the target's parent directory, see Disk below
  proc,    \* the generation process and the recovery command
  faults   \* what is left of Errors, Crashes and Edits

vars == <<disk, proc, faults>>

Content == {"absent", "good", "bad", "edited"}
Tree == [File -> Content]
EmptyTree == [f \in File |-> "absent"]
GoodTree == [f \in File |-> "good"]

\* The configuration, plan, candidate and verification digests of this run.
TheDigest == CHOOSE d \in Digest : TRUE

Disk ==
  [workspace : BOOLEAN,                         \* the run's directory
   record    : GenerationSession \cup {None},   \* session.json
   stray     : BOOLEAN,                         \* a *.tmp a crash left
   candidate : Tree \cup {NoDir},
   ownership : BOOLEAN,                         \* candidate_ownership.json
   env       : {"absent", "unmarked", "marked", "filled"}, \* validation-env
   report    : {"absent", "passed", "failed"},  \* validation_report.json
   snapshot  : Tree \cup {NoDir},               \* .commit-<run id>
   target    : Tree \cup {NoDir, Foreign},
   locked    : BOOLEAN]                         \* .<target>.scaffold.lock

Process == {"run", "command"}
Job == {"generate", "cleanup", "discard", "recover", "none"}

----------------------------------------------------------------------------
(***************************************************************************)
(* Steps.  Do is an effect that works, OSError one that raises; Effect     *)
(* may do either, and a guard on the disk that makes the system call fail  *)
(* by itself costs the environment nothing.                                *)
(***************************************************************************)

At(p, label) == proc[p].pc = label

Spend(kind) ==
  /\ faults[kind] > 0
  /\ faults' = [faults EXCEPT ![kind] = @ - 1]

Do(p, newDisk, to) ==
  /\ disk' = newDisk
  /\ proc' = [proc EXCEPT ![p].pc = to]
  /\ UNCHANGED faults

OSError(p, newDisk, to) ==
  /\ Spend("error")
  /\ disk' = newDisk
  /\ proc' = [proc EXCEPT ![p].pc = to]

Effect(p, from, newDisk, to, onError) ==
  /\ At(p, from)
  /\ Do(p, newDisk, to) \/ OSError(p, disk, onError)

\* A step that only reads the disk.
Branch(p, from, condition, to, otherwise) ==
  /\ At(p, from)
  /\ Do(p, disk, IF condition THEN to ELSE otherwise)

\* A mutant of SaveRecord: the bug of creating what is missing of the path.
SaveRecordAnywhere(p, s, to, onError) ==
  \/ /\ disk' = [disk EXCEPT !.record = s]
     /\ proc' = [proc EXCEPT ![p].pc = to, ![p].session = s]
     /\ UNCHANGED faults
  \/ OSError(p, disk, onError)

\* SessionStateStore.save: the record is replaced as a whole, or not at all;
\* a missing directory makes it fail.
SaveRecord(p, s, to, onError) ==
  \/ /\ disk.workspace
     /\ disk' = [disk EXCEPT !.record = s]
     /\ proc' = [proc EXCEPT ![p].pc = to, ![p].session = s]
     /\ UNCHANGED faults
  \/ ~disk.workspace /\ Do(p, disk, onError)
  \/ OSError(p, disk, onError)

\* transition_session for an event that moves the state and nothing else.
Simple(s, event) ==
  LET t == CHOOSE x \in SimpleTransitions : x[1] = s.state /\ x[2] = event
  IN  Moved(s, t[3])

\* Which label follows, and where a failure leads, depends on the program.
\* The run records CLEANUP_FAILED; a command reports and ends.
Refused(p) == IF p = "run" THEN "save_cleanup_failed" ELSE "idle"
AfterEnvironment(p) ==
  IF proc[p].job = "discard" THEN "unlink_report" ELSE "candidate_check"
AfterCandidate(p) ==
  IF proc[p].job = "discard" THEN "env_check" ELSE "unlink_report"

----------------------------------------------------------------------------
(***************************************************************************)
(* cleanup_validation_workspace: an absent root is clean, one without its  *)
(* marker is not touched; files first, then the marker, then the root.     *)
(***************************************************************************)

\* A mutant of EnvironmentOwned: the bug of leaving the refusal to the
\* deletion itself.
EnvironmentAssumed == TRUE

EnvironmentOwned == disk.env # "unmarked"

CheckEnvironment(p) ==
  /\ At(p, "env_check")
  /\ \/ ~disk.workspace /\ Do(p, disk, IF p = "run" THEN "abort" ELSE "idle")
     \/ /\ disk.workspace /\ disk.env = "absent"
        /\ Do(p, disk, AfterEnvironment(p))
     \/ /\ disk.workspace /\ disk.env = "unmarked"
        /\ Do(p, disk, Refused(p))
     \/ disk.env = "filled" /\ Do(p, disk, "env_files")
     \/ disk.env = "marked" /\ Do(p, disk, "env_marker")

\* The caller goes on exactly when the root is gone at the end, whoever
\* removed it.
LeaveEnvironment(p) ==
  IF disk.env = "absent" THEN AfterEnvironment(p) ELSE Refused(p)

DeleteEnvironmentFiles(p) ==
  /\ At(p, "env_files")
  /\ \/ /\ disk.env = "filled"
        /\ \/ Do(p, [disk EXCEPT !.env = "marked"], "env_marker")
           \/ OSError(p, disk, Refused(p))
     \/ disk.env # "filled" /\ Do(p, disk, LeaveEnvironment(p))

DeleteEnvironmentMarker(p) ==
  /\ At(p, "env_marker")
  /\ \/ /\ disk.env = "marked"
        /\ \/ Do(p, [disk EXCEPT !.env = "unmarked"], "env_rmdir")
           \/ OSError(p, disk, Refused(p))
     \/ disk.env # "marked" /\ Do(p, disk, LeaveEnvironment(p))

RemoveEnvironment(p) ==
  /\ At(p, "env_rmdir")
  /\ \/ /\ disk.env = "unmarked"
        /\ \/ Do(p, [disk EXCEPT !.env = "absent"], AfterEnvironment(p))
           \/ OSError(p, disk, Refused(p))
     \/ disk.env # "unmarked" /\ Do(p, disk, LeaveEnvironment(p))

----------------------------------------------------------------------------
(***************************************************************************)
(* cleanup_owned_candidate: nothing is deleted unless everything left of   *)
(* the tree is unchanged and owned; every file is then tried once.         *)
(***************************************************************************)

\* A mutant of CandidateSafe: the bug of not comparing the bytes.
CandidateNamesSafe == disk.candidate # NoDir

\* verify_owned_candidate_cleanup_safety: files may be missing, the root may
\* not: a root that cannot be stat'ed counts as a link.
CandidateSafe == disk.candidate \in [File -> {"absent", "good"}]

CheckCandidate(p) ==
  /\ At(p, "candidate_check")
  /\ \/ disk.candidate = NoDir /\ Do(p, disk, AfterCandidate(p))
     \/ /\ disk.candidate # NoDir /\ CandidateSafe
        /\ disk' = disk
        /\ proc' = [proc EXCEPT ![p].pc = "candidate_files",
                                ![p].todo = File]
        /\ UNCHANGED faults
     \/ /\ disk.candidate # NoDir /\ ~CandidateSafe
        /\ Do(p, disk, Refused(p))

DeleteCandidateFile(p, f) ==
  /\ At(p, "candidate_files")
  /\ f \in proc[p].todo
  /\ proc' = [proc EXCEPT ![p].todo = @ \ {f}]
  /\ \/ disk.candidate = NoDir /\ UNCHANGED <<disk, faults>>
     \/ /\ disk.candidate # NoDir
        /\ disk' = [disk EXCEPT !.candidate[f] = "absent"]
        /\ UNCHANGED faults
     \/ /\ disk.candidate # NoDir
        /\ disk.candidate[f] # "absent"
        /\ Spend("error")
        /\ UNCHANGED disk

RemoveCandidate(p) ==
  /\ At(p, "candidate_files")
  /\ proc[p].todo = {}
  /\ \/ disk.candidate = NoDir /\ Do(p, disk, AfterCandidate(p))
     \/ /\ disk.candidate = EmptyTree
        /\ \/ Do(p, [disk EXCEPT !.candidate = NoDir], AfterCandidate(p))
           \/ OSError(p, disk, Refused(p))
     \/ /\ disk.candidate \notin {NoDir, EmptyTree}
        /\ Do(p, disk, Refused(p))

----------------------------------------------------------------------------
(***************************************************************************)
(* The last steps of every program, in its own order.                      *)
(***************************************************************************)

\* rmdir of the workspace works only on an empty directory.
WorkspaceEmpty ==
  /\ disk.record = None /\ ~disk.stray /\ ~disk.ownership
  /\ disk.candidate = NoDir /\ disk.snapshot = NoDir
  /\ disk.env = "absent" /\ disk.report = "absent"

UnlinkSession(p, onError) ==
  /\ At(p, "unlink_session")
  /\ \/ /\ disk.record # None
        /\ \/ Do(p, [disk EXCEPT !.record = None], "rmdir_workspace")
           \/ OSError(p, disk, onError)
     \/ disk.record = None /\ Do(p, disk, onError)

RemoveWorkspace(p, end) ==
  /\ At(p, "rmdir_workspace")
  /\ \/ /\ disk.workspace /\ WorkspaceEmpty
        /\ \/ Do(p, [disk EXCEPT !.workspace = FALSE], end)
           \/ OSError(p, disk, end)
     \/ ~(disk.workspace /\ WorkspaceEmpty) /\ Do(p, disk, end)

DeletionStep(p) ==
  \/ CheckEnvironment(p) \/ DeleteEnvironmentFiles(p)
  \/ DeleteEnvironmentMarker(p) \/ RemoveEnvironment(p)
  \/ CheckCandidate(p) \/ RemoveCandidate(p)
  \/ \E f \in File : DeleteCandidateFile(p, f)
============================================================================

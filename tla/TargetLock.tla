----------------------------- MODULE TargetLock -----------------------------
(***************************************************************************)
(* The lock file beside a target directory (target_lock.py): generation    *)
(* processes acquire it with an exclusive create, publish the target while *)
(* they hold it, and release it; recoverers audit a lock whose owner may   *)
(* be dead and remove it.  Every file-system call is a step of its own,    *)
(* any process may die between two of them, and a dead process leaves its  *)
(* file behind.                                                            *)
(*                                                                         *)
(* The serialized record with its nonce is unique to its owner, so a lock  *)
(* is its owner and whether the record is completely written: an empty or  *)
(* partial file parses as nothing.                                         *)
(***************************************************************************)
CONSTANTS Run,        \* generation processes, each acquires at most once
          Recoverer,  \* processes that call recover_stale
          NoLock, NoRun

VARIABLES lock,    \* the lock file
          target,  \* whether the target exists
          pc,      \* where each run stands
          audit,   \* where each recoverer stands
          seen     \* the owner each recoverer read

lvars == <<lock, target, pc, audit, seen>>

LockRecord == [owner : Run, written : BOOLEAN]

ASSUME NoLockIsNoRecord == NoLock \notin LockRecord
ASSUME NoRunIsNoRun == NoRun \notin Run

\* Between the exclusive create and the last unlink.
Holding == {"write", "generate", "compare", "unlink"}
Dead == {"ended", "crashed"}
RunPc == {"start", "create"} \cup Holding \cup Dead
AuditPc == {"idle", "alive", "reread", "unlink"}

\* A process is alive from its start on; process_is_alive is the caller's.
Alive(r) == pc[r] \notin Dead

LockOf(r) == [owner |-> r, written |-> TRUE]

Init ==
  /\ lock = NoLock /\ target = FALSE
  /\ pc = [r \in Run |-> "start"]
  /\ audit = [c \in Recoverer |-> "idle"]
  /\ seen = [c \in Recoverer |-> NoRun]

Goto(r, label) == pc' = [pc EXCEPT ![r] = label]
AuditGoto(c, label) == audit' = [audit EXCEPT ![c] = label]

----------------------------------------------------------------------------
(***************************************************************************)
(* TargetLockStore.acquire, the run in between, TargetLockStore.release.   *)
(***************************************************************************)

\* An existing target cannot be locked.
CheckTarget(r) ==
  /\ pc[r] = "start"
  /\ Goto(r, IF target THEN "ended" ELSE "create")
  /\ UNCHANGED <<lock, target, audit, seen>>

\* A mutant of Create: the bug of opening the file with "w" instead of "x".
CreateOver(r) ==
  /\ pc[r] = "create"
  /\ lock' = [owner |-> r, written |-> FALSE]
  /\ Goto(r, "write")
  /\ UNCHANGED <<target, audit, seen>>

\* open("x"): exactly one process creates the file.
Create(r) ==
  /\ pc[r] = "create"
  /\ \/ /\ lock = NoLock
        /\ lock' = [owner |-> r, written |-> FALSE]
        /\ Goto(r, "write")
     \/ /\ lock # NoLock
        /\ Goto(r, "ended")
        /\ UNCHANGED lock
  /\ UNCHANGED <<target, audit, seen>>

\* The record is written through the open file, whatever its name is now.
Write(r) ==
  /\ pc[r] = "write"
  /\ lock' = IF lock = [owner |-> r, written |-> FALSE] THEN LockOf(r)
                                                        ELSE lock
  /\ Goto(r, "generate")
  /\ UNCHANGED <<target, audit, seen>>

\* OSError while writing: the file this call created is unlinked by name.
WriteFails(r) ==
  /\ pc[r] = "write"
  /\ lock' = NoLock
  /\ Goto(r, "ended")
  /\ UNCHANGED <<target, audit, seen>>

\* The no-replace move of the run that holds the lock.
Publish(r) ==
  /\ pc[r] = "generate" /\ ~target
  /\ target' = TRUE
  /\ UNCHANGED <<lock, pc, audit, seen>>

StartRelease(r) ==
  /\ pc[r] = "generate"
  /\ Goto(r, "compare")
  /\ UNCHANGED <<lock, target, audit, seen>>

\* The bytes must be the ones this process wrote; anything else stays.
CompareOwn(r) ==
  /\ pc[r] = "compare"
  /\ Goto(r, IF lock = LockOf(r) THEN "unlink" ELSE "ended")
  /\ UNCHANGED <<lock, target, audit, seen>>

\* The unlink may fail; the process ends with its file in place.
UnlinkOwn(r) ==
  /\ pc[r] = "unlink"
  /\ lock' \in {NoLock, lock}
  /\ Goto(r, "ended")
  /\ UNCHANGED <<target, audit, seen>>

Crash(r) ==
  /\ Alive(r)
  /\ Goto(r, "crashed")
  /\ UNCHANGED <<lock, target, audit, seen>>

----------------------------------------------------------------------------
(***************************************************************************)
(* TargetLockStore.recover_stale.                                          *)
(***************************************************************************)

\* A mutant of Audit: the bug of not keeping the audited bytes.
AuditForgets(c) ==
  /\ audit[c] = "idle"
  /\ lock # NoLock /\ lock.written /\ ~target
  /\ AuditGoto(c, "alive")
  /\ UNCHANGED <<lock, target, pc, seen>>

\* A record that does not parse, or an existing target, is AMBIGUOUS; both
\* are read here, the target is read again before the unlink.
Audit(c) ==
  /\ audit[c] = "idle"
  /\ lock # NoLock /\ lock.written /\ ~target
  /\ seen' = [seen EXCEPT ![c] = lock.owner]
  /\ AuditGoto(c, "alive")
  /\ UNCHANGED <<lock, target, pc>>

\* A mutant of CheckAlive: the bug of not asking.
AssumeDead(c) ==
  /\ audit[c] = "alive"
  /\ AuditGoto(c, "reread")
  /\ UNCHANGED <<lock, target, pc, seen>>

\* ACTIVE for a live owner; AMBIGUOUS when the question itself fails.
CheckAlive(c) ==
  /\ audit[c] = "alive"
  /\ \/ AuditGoto(c, IF Alive(seen[c]) THEN "idle" ELSE "reread")
     \/ AuditGoto(c, "idle")
  /\ UNCHANGED <<lock, target, pc, seen>>

\* The lock must still be the audited one, the target still absent.
Reread(c) ==
  /\ audit[c] = "reread"
  /\ AuditGoto(c, IF lock = LockOf(seen[c]) /\ ~target THEN "unlink"
                                                       ELSE "idle")
  /\ UNCHANGED <<lock, target, pc, seen>>

\* Unlinked by name: nothing ties the removed file to the one compared.
UnlinkStale(c) ==
  /\ audit[c] = "unlink"
  /\ lock' \in {NoLock, lock}
  /\ AuditGoto(c, "idle")
  /\ UNCHANGED <<target, pc, seen>>

----------------------------------------------------------------------------

RunNext(r) ==
  \/ CheckTarget(r) \/ Create(r) \/ Write(r) \/ WriteFails(r) \/ Publish(r)
  \/ StartRelease(r) \/ CompareOwn(r) \/ UnlinkOwn(r) \/ Crash(r)

RecovererNext(c) ==
  Audit(c) \/ CheckAlive(c) \/ Reread(c) \/ UnlinkStale(c)

Next == (\E r \in Run : RunNext(r)) \/ (\E c \in Recoverer : RecovererNext(c))

Spec == Init /\ [][Next]_lvars

TypeOK ==
  /\ lock \in LockRecord \cup {NoLock}
  /\ target \in BOOLEAN
  /\ pc \in [Run -> RunPc]
  /\ audit \in [Recoverer -> AuditPc]
  /\ seen \in [Recoverer -> Run \cup {NoRun}]
  /\ \A c \in Recoverer : audit[c] # "idle" => seen[c] \in Run

\* I-07 (scaffold_compiler_implementation_plan.md:235): one target has at
\* most one active session, with every crash and every recovery of a crashed
\* owner's lock in between.
MutualExclusion ==
  \A r, s \in Run : pc[r] \in Holding /\ pc[s] \in Holding => r = s

\* Whoever is about to unlink the lock by name, a releasing owner or a
\* recoverer, finds its own lock or a dead owner's there.
UnlinksOnlyItsLock ==
  /\ \A r \in Run : pc[r] = "unlink" => lock = LockOf(r)
  /\ \A c \in Recoverer : audit[c] = "unlink" =>
       lock # NoLock /\ ~Alive(lock.owner)

\* No lock file disappears under the process that holds it.
HolderKeepsLock ==
  [][\A r \in Run : pc[r] \in Holding /\ pc'[r] \in Holding =>
       lock' # NoLock /\ lock'.owner = r]_lvars
=============================================================================

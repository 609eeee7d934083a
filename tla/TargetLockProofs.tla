-------------------------- MODULE TargetLockProofs --------------------------
(***************************************************************************)
(* The target lock is exclusive for any number of generation processes, as *)
(* long as no two processes audit it at the same time.  TLC shows with two *)
(* recoverers that the hypothesis cannot be dropped.                       *)
(***************************************************************************)
EXTENDS TargetLock, TLAPS

AtMostOneRecoverer == \A c, d \in Recoverer : c = d

\* A process that is past its exclusive create has its own file in place.
HolderOwnsLock ==
  \A r \in Run : pc[r] \in Holding =>
    lock = [owner |-> r, written |-> pc[r] # "write"]

\* What a recoverer has established so far cannot become false any more.
AuditIsSound ==
  \A c \in Recoverer :
    /\ audit[c] # "idle" => seen[c] \in Run
    /\ audit[c] \in {"reread", "unlink"} => pc[seen[c]] \in Dead
    /\ audit[c] = "unlink" => lock = LockOf(seen[c])

IInv == TypeOK /\ HolderOwnsLock /\ AuditIsSound

\* A free lock with nobody started satisfies the invariant.
LEMMA InitIInv == Init => IInv
BY NoLockIsNoRecord, NoRunIsNoRun
   DEF Init, IInv, TypeOK, HolderOwnsLock, AuditIsSound, LockRecord, RunPc,
       AuditPc, Holding, Dead

\* The record a process writes is a lock record and names its writer.
LEMMA LockRecordFacts ==
  ASSUME NEW r \in Run, NEW s \in Run, NEW w \in BOOLEAN, NEW v \in BOOLEAN
  PROVE  /\ [owner |-> r, written |-> w] \in LockRecord
         /\ [owner |-> r, written |-> w] # NoLock
         /\ [owner |-> r, written |-> w] = [owner |-> s, written |-> v]
              => r = s /\ w = v
<1>1. [owner |-> r, written |-> w] \in LockRecord
  BY DEF LockRecord
<1>2. [owner |-> r, written |-> w] # NoLock
  BY <1>1, NoLockIsNoRecord
<1>3. ASSUME [owner |-> r, written |-> w] = [owner |-> s, written |-> v]
      PROVE  r = s /\ w = v
  <2>1. [owner |-> r, written |-> w].owner = [owner |-> s, written |-> v].owner
    BY <1>3
  <2>2. [owner |-> r, written |-> w].written
          = [owner |-> s, written |-> v].written
    BY <1>3
  <2>. QED BY <2>1, <2>2
<1>. QED BY <1>1, <1>2, <1>3

\* A step of a generation process preserves the invariant: it touches the
\* lock only while it is free or its own, so never while a recoverer is
\* about to unlink it.
LEMMA RunKeepsIInv ==
  ASSUME IInv, NEW r \in Run, RunNext(r)
  PROVE  IInv'
<1>. USE DEF IInv, TypeOK
<1>a. \A s \in Run : pc[s] \in Holding =>
        lock = [owner |-> s, written |-> pc[s] # "write"]
  BY DEF HolderOwnsLock
<1>b. pc[r] \notin Dead
  BY DEF RunNext, CheckTarget, Create, Write, WriteFails, Publish,
     StartRelease, CompareOwn, UnlinkOwn, Crash, Dead, Alive
<1>c. ASSUME NEW c \in Recoverer, audit[c] = "unlink"
      PROVE  lock = LockOf(seen[c]) /\ seen[c] \in Run /\ seen[c] # r
  BY <1>b, <1>c DEF AuditIsSound
<1>d. ASSUME pc[r] \in Holding, NEW s \in Run, pc[s] \in Holding
      PROVE  s = r
  BY <1>a, <1>d, LockRecordFacts
<1>e. ASSUME pc[r] \in Holding, NEW c \in Recoverer
      PROVE  audit[c] # "unlink"
  <2>1. SUFFICES ASSUME audit[c] = "unlink" PROVE FALSE
    OBVIOUS
  <2>2. lock = [owner |-> seen[c], written |-> TRUE] /\ seen[c] \in Run
          /\ seen[c] # r
    BY <1>c, <2>1 DEF LockOf
  <2>3. lock = [owner |-> r, written |-> pc[r] # "write"]
    BY <1>a, <1>e
  <2>. QED BY <2>2, <2>3, LockRecordFacts
<1>f. UNCHANGED <<audit, seen>>
  BY DEF RunNext, CheckTarget, Create, Write, WriteFails, Publish,
     StartRelease, CompareOwn, UnlinkOwn, Crash
<1>g. /\ \A s \in Run : s # r => pc'[s] = pc[s]
      /\ pc' \in [Run -> RunPc]
  BY DEF RunNext, CheckTarget, Create, Write, WriteFails, Publish,
     StartRelease, CompareOwn, UnlinkOwn, Crash, Goto, RunPc, Holding, Dead
<1>h. ASSUME NEW s \in Run, pc[s] \in Dead
      PROVE  pc'[s] \in Dead
  BY <1>b, <1>g, <1>h
<1>1. CASE UNCHANGED lock /\ (pc'[r] \in Holding =>
             pc[r] \in Holding /\ (pc'[r] # "write") = (pc[r] # "write"))
  <2>1. HolderOwnsLock'
    BY <1>1, <1>a, <1>g DEF HolderOwnsLock
  <2>2. AuditIsSound'
    BY <1>1, <1>f, <1>h DEF AuditIsSound, LockOf
  <2>3. target' \in BOOLEAN
    BY DEF RunNext, CheckTarget, Create, Write, WriteFails, Publish,
     StartRelease, CompareOwn, UnlinkOwn, Crash
  <2>. QED BY <1>1, <1>f, <1>g, <2>1, <2>2, <2>3
<1>2. CASE CheckTarget(r) \/ Publish(r) \/ StartRelease(r) \/ CompareOwn(r)
             \/ Crash(r)
  <2>1. UNCHANGED lock /\ (pc'[r] \in Holding =>
             pc[r] \in Holding /\ (pc'[r] # "write") = (pc[r] # "write"))
    BY <1>2 DEF CheckTarget, Publish, StartRelease, CompareOwn, Crash, Goto,
                Holding, Dead
  <2>. QED BY <1>1, <2>1
<1>3. CASE Create(r)
  <2>1. CASE lock # NoLock
    <3>1. UNCHANGED lock /\ pc'[r] = "ended"
      BY <1>3, <2>1 DEF Create, Goto
    <3>. QED BY <1>1, <3>1 DEF Holding
  <2>2. CASE lock = NoLock
    <3>1. /\ lock' = [owner |-> r, written |-> FALSE]
          /\ pc'[r] = "write" /\ target' = target
      BY <1>3, <2>2 DEF Create, Goto
    <3>2. \A s \in Run : pc[s] \notin Holding
      BY <1>a, <2>2, LockRecordFacts
    <3>3. \A c \in Recoverer : audit[c] # "unlink"
      BY <1>c, <2>2, LockRecordFacts DEF LockOf
    <3>4. lock' \in LockRecord
      BY <3>1, LockRecordFacts
    <3>5. HolderOwnsLock'
      BY <3>1, <3>2, <1>g DEF HolderOwnsLock
    <3>6. AuditIsSound'
      BY <3>3, <1>f, <1>h DEF AuditIsSound
    <3>. QED BY <3>1, <3>4, <3>5, <3>6, <1>f, <1>g
  <2>. QED BY <2>1, <2>2
<1>4. CASE Write(r)
  <2>1. lock = [owner |-> r, written |-> FALSE] /\ pc[r] \in Holding
    BY <1>4, <1>a DEF Write, Holding
  <2>2. lock' = [owner |-> r, written |-> TRUE] /\ pc'[r] = "generate"
          /\ target' = target
    BY <1>4, <2>1 DEF Write, LockOf, Goto
  <2>3. HolderOwnsLock'
    BY <2>1, <2>2, <1>d, <1>g DEF HolderOwnsLock
  <2>4. AuditIsSound'
    BY <2>1, <1>e, <1>f, <1>h DEF AuditIsSound
  <2>5. lock' \in LockRecord
    BY <2>2, LockRecordFacts
  <2>. QED BY <2>2, <2>3, <2>4, <2>5, <1>f, <1>g
<1>5. CASE WriteFails(r) \/ UnlinkOwn(r)
  <2>1. /\ pc[r] \in Holding /\ pc'[r] = "ended" /\ target' = target
        /\ lock' \in {NoLock, lock}
    BY <1>5 DEF WriteFails, UnlinkOwn, Goto, Holding
  <2>2. \A s \in Run : pc'[s] \notin Holding
    BY <2>1, <1>d, <1>g DEF Holding
  <2>3. AuditIsSound'
    BY <2>1, <1>e, <1>f, <1>h DEF AuditIsSound
  <2>. QED BY <2>1, <2>2, <2>3, <1>f, <1>g DEF HolderOwnsLock
<1>. QED BY <1>2, <1>3, <1>4, <1>5 DEF RunNext

\* A step of the only recoverer preserves the invariant: what it unlinks is
\* the lock of a dead process, which holds nothing.
LEMMA RecovererKeepsIInv ==
  ASSUME AtMostOneRecoverer, IInv, NEW c \in Recoverer, RecovererNext(c)
  PROVE  IInv'
<1>. USE DEF IInv, TypeOK
<1>a. \A d \in Recoverer : d = c
  BY DEF AtMostOneRecoverer
<1>1. CASE Audit(c)
  <2>1. lock \in LockRecord /\ lock.owner \in Run
    BY <1>1 DEF Audit, LockRecord
  <2>2. /\ seen' = [seen EXCEPT ![c] = lock.owner]
        /\ audit' = [audit EXCEPT ![c] = "alive"]
        /\ UNCHANGED <<lock, target, pc>>
    BY <1>1 DEF Audit, AuditGoto
  <2>3. seen'[c] \in Run /\ audit'[c] = "alive"
    BY <2>1, <2>2
  <2>4. AuditIsSound'
    BY <2>3, <1>a DEF AuditIsSound
  <2>5. HolderOwnsLock'
    BY <2>2 DEF HolderOwnsLock
  <2>. QED BY <2>1, <2>2, <2>4, <2>5 DEF AuditPc
<1>2. CASE CheckAlive(c)
  <2>1. /\ UNCHANGED <<lock, target, pc, seen>>
        /\ audit' \in [Recoverer -> AuditPc]
        /\ seen[c] \in Run
        /\ audit'[c] \in {"idle", "reread"}
        /\ audit'[c] = "reread" => ~Alive(seen[c])
    BY <1>2 DEF CheckAlive, AuditGoto, AuditPc, AuditIsSound
  <2>2. AuditIsSound'
    BY <2>1, <1>a DEF AuditIsSound, Alive
  <2>. QED BY <2>1, <2>2 DEF HolderOwnsLock, AuditIsSound
<1>3. CASE Reread(c)
  <2>1. /\ UNCHANGED <<lock, target, pc, seen>>
        /\ audit' \in [Recoverer -> AuditPc]
        /\ seen[c] \in Run /\ pc[seen[c]] \in Dead
        /\ audit'[c] \in {"idle", "unlink"}
        /\ audit'[c] = "unlink" => lock = LockOf(seen[c])
    BY <1>3 DEF Reread, AuditGoto, AuditPc, AuditIsSound
  <2>2. AuditIsSound'
    BY <2>1, <1>a DEF AuditIsSound, LockOf
  <2>. QED BY <2>1, <2>2 DEF HolderOwnsLock, AuditIsSound
<1>4. CASE UnlinkStale(c)
  <2>1. /\ UNCHANGED <<target, pc, seen>>
        /\ lock' \in {NoLock, lock}
        /\ audit' \in [Recoverer -> AuditPc]
        /\ audit'[c] = "idle"
        /\ seen[c] \in Run /\ pc[seen[c]] \in Dead
        /\ lock = [owner |-> seen[c], written |-> TRUE]
    BY <1>4 DEF UnlinkStale, AuditGoto, AuditPc, AuditIsSound, LockOf
  <2>2. \A r \in Run : pc[r] \notin Holding
    <3>1. SUFFICES ASSUME NEW r \in Run, pc[r] \in Holding PROVE FALSE
      OBVIOUS
    <3>2. lock = [owner |-> r, written |-> pc[r] # "write"]
      BY <3>1 DEF HolderOwnsLock
    <3>3. r = seen[c]
      BY <2>1, <3>2, LockRecordFacts
    <3>. QED BY <2>1, <3>1, <3>3 DEF Holding, Dead
  <2>3. AuditIsSound'
    BY <2>1, <1>a DEF AuditIsSound
  <2>. QED BY <2>1, <2>2, <2>3 DEF HolderOwnsLock, AuditIsSound
<1>. QED BY <1>1, <1>2, <1>3, <1>4 DEF RecovererNext

\* The invariant is inductive.
LEMMA NextIInv ==
  ASSUME AtMostOneRecoverer, IInv, [Next]_lvars
  PROVE  IInv'
<1>1. CASE UNCHANGED lvars
  BY <1>1 DEF IInv, TypeOK, HolderOwnsLock, AuditIsSound, LockOf, lvars
<1>2. CASE \E r \in Run : RunNext(r)
  BY <1>2, RunKeepsIInv
<1>3. CASE \E c \in Recoverer : RecovererNext(c)
  BY <1>3, RecovererKeepsIInv
<1>. QED BY <1>1, <1>2, <1>3 DEF Next

\* The invariant holds throughout.
LEMMA SpecIInv ==
  ASSUME AtMostOneRecoverer
  PROVE  Spec => []IInv
<1>1. Init => IInv
  BY InitIInv
<1>2. IInv /\ [Next]_lvars => IInv'
  BY NextIInv
<1>. QED BY <1>1, <1>2, PTL DEF Spec

\* I-07 for every number of runs: two processes are never both between the
\* creation of the lock file and its removal.
THEOREM LockIsExclusive ==
  ASSUME AtMostOneRecoverer
  PROVE  Spec => []MutualExclusion
<1>1. IInv => MutualExclusion
  BY LockRecordFacts DEF IInv, HolderOwnsLock, MutualExclusion
<1>. QED BY <1>1, SpecIInv, PTL

\* release and recover_stale unlink by name, and never hit a live lock.
THEOREM UnlinkIsOwned ==
  ASSUME AtMostOneRecoverer
  PROVE  Spec => []UnlinksOnlyItsLock
<1>1. ASSUME IInv PROVE UnlinksOnlyItsLock
  <2>1. ASSUME NEW r \in Run, pc[r] = "unlink"
        PROVE  lock = LockOf(r)
    BY <1>1, <2>1 DEF IInv, HolderOwnsLock, Holding, LockOf
  <2>2. ASSUME NEW c \in Recoverer, audit[c] = "unlink"
        PROVE  lock # NoLock /\ ~Alive(lock.owner)
    <3>1. /\ lock = [owner |-> seen[c], written |-> TRUE]
          /\ seen[c] \in Run /\ pc[seen[c]] \in Dead
      BY <1>1, <2>2 DEF IInv, AuditIsSound, LockOf
    <3>. QED BY <3>1, LockRecordFacts DEF Alive
  <2>. QED BY <2>1, <2>2 DEF UnlinksOnlyItsLock
<1>. QED BY <1>1, SpecIInv, PTL

\* The file of a process that holds the lock never goes away under it.
THEOREM HolderKeepsItsLock ==
  ASSUME AtMostOneRecoverer
  PROVE  Spec => HolderKeepsLock
<1>1. ASSUME IInv'
      PROVE  \A r \in Run : pc[r] \in Holding /\ pc'[r] \in Holding =>
               lock' # NoLock /\ lock'.owner = r
  <2>1. SUFFICES ASSUME NEW r \in Run, pc'[r] \in Holding
                 PROVE  lock' # NoLock /\ lock'.owner = r
    OBVIOUS
  <2>2. lock' = [owner |-> r, written |-> pc'[r] # "write"]
    BY <1>1, <2>1 DEF IInv, HolderOwnsLock, Holding
  <2>. QED BY <2>2, LockRecordFacts
<1>. QED BY <1>1, SpecIInv, PTL DEF HolderKeepsLock

\* Every state is well typed, however many processes audit the lock.
THEOREM TypeCorrect == Spec => []TypeOK
<1>1. Init => TypeOK
  BY InitIInv DEF IInv
<1>2. ASSUME TypeOK, NEW r \in Run, RunNext(r)
      PROVE  TypeOK'
  <2>. USE <1>2 DEF TypeOK
  <2>1. pc' \in [Run -> RunPc] /\ target' \in BOOLEAN
          /\ UNCHANGED <<audit, seen>>
    BY DEF RunNext, CheckTarget, Create, Write, WriteFails, Publish,
       StartRelease, CompareOwn, UnlinkOwn, Crash, Goto, RunPc, Holding, Dead
  <2>2. lock' \in {lock, NoLock, [owner |-> r, written |-> FALSE], LockOf(r)}
    BY DEF RunNext, CheckTarget, Create, Write, WriteFails, Publish,
       StartRelease, CompareOwn, UnlinkOwn, Crash
  <2>3. [owner |-> r, written |-> FALSE] \in LockRecord
          /\ LockOf(r) \in LockRecord
    BY DEF LockOf, LockRecord
  <2>4. lock' \in LockRecord \cup {NoLock}
    BY <2>2, <2>3
  <2>. QED BY <2>1, <2>4
<1>3. ASSUME TypeOK, NEW c \in Recoverer, RecovererNext(c)
      PROVE  TypeOK'
  BY <1>3 DEF TypeOK, RecovererNext, Audit, CheckAlive, Reread, UnlinkStale,
              AuditGoto, AuditPc, LockRecord
<1>4. TypeOK /\ [Next]_lvars => TypeOK'
  BY <1>2, <1>3 DEF Next, lvars, TypeOK
<1>. QED BY <1>1, <1>4, PTL DEF Spec
============================================================================

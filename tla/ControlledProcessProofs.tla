---------------------- MODULE ControlledProcessProofs ----------------------
(***************************************************************************)
(* What run_controlled_process guarantees of its result, for any set of    *)
(* descendants, any limits and any amount of output.                       *)
(***************************************************************************)
EXTENDS ControlledProcess, TLAPS

\* Nothing exists before Popen; a thread reads only after it.
StartInv ==
  call.pc = "start" =>
    /\ os.alive = {} /\ os.doomed = {} /\ os.open = {} /\ os.code = "none"
    /\ \A s \in Stream : reader[s].pc = "idle"

\* What a reader stored is what it took from the stream, less the chunk in
\* its hand, cut at the capture limit.
ReaderInv ==
  \A s \in Stream :
    /\ reader[s].hand <= reader[s].taken /\ reader[s].taken <= written[s]
    /\ reader[s].pc # "chunk" => reader[s].hand = 0
    /\ reader[s].stored = Least(reader[s].taken - reader[s].hand, CaptureLimit)
    /\ reader[s].truncated = (reader[s].taken - reader[s].hand > VisibleLimit)

\* A reader is done only when every write end is closed, for good.
DoneInv ==
  \A s \in Stream : reader[s].pc = "done" =>
    call.pc # "start" /\ os.open = {} /\ reader[s].taken = written[s]

AfterWaits == {"join_stdout", "join_stderr", "close_stdout", "close_stderr", "returned"}
AfterKill == {"wait_killed", "kill_child", "wait_last"}

\* The caller leaves the waits behind only with an ended child or an exception.
WaitInv ==
  /\ call.pc \notin {"start", "raised"} => (Child \in os.alive <=> os.code = "none")
  /\ call.pc \in AfterWaits /\ ~call.raising => Child \notin os.alive
  /\ call.pc = "returned" => ~call.raising

\* On POSIX the child is never killed without its group.
KillInv ==
  /\ Child \in os.alive => Child \in os.group
  /\ os.code = "killed" => Child \in os.doomed /\ Child \notin os.alive
  /\ call.platform = "posix" =>
       /\ call.pc # "taskkill"
       /\ Child \in os.doomed => os.alive \cap os.group \subseteq os.doomed
       /\ call.pc \in AfterKill /\ Child \in os.alive => Child \in os.doomed

ProcessInv == TypeOK /\ StartInv /\ ReaderInv /\ DoneInv /\ WaitInv /\ KillInv

----------------------------------------------------------------------------
LEMMA CaptureLimitIsNatural == CaptureLimit \in Nat \ {0}
  BY LimitsArePositive, BoundsAreNatural DEF CaptureLimit

LEMMA InitEstablishes == Init => ProcessInv
<1> SUFFICES ASSUME Init PROVE ProcessInv
  OBVIOUS
<1> USE CaptureLimitIsNatural, LimitsArePositive DEF Init, NewReader
<1>1. TypeOK
  BY DEF TypeOK, OsRecord, ReaderRecord, CallRecord, ReaderPc, CallPc, ExitCode
<1>2. ReaderInv
  <2>1. ASSUME NEW s \in Stream
        PROVE  /\ reader[s].hand = 0 /\ reader[s].taken = 0 /\ written[s] = 0
               /\ reader[s].stored = 0 /\ reader[s].truncated = FALSE
    OBVIOUS
  <2>2. Least(0 - 0, CaptureLimit) = 0
    BY DEF Least
  <2>3. (0 - 0 > VisibleLimit) = FALSE
    OBVIOUS
  <2> HIDE DEF Init
  <2>4. ASSUME NEW s \in Stream
        PROVE  /\ reader[s].hand <= reader[s].taken /\ reader[s].taken <= written[s]
               /\ reader[s].pc # "chunk" => reader[s].hand = 0
               /\ reader[s].stored = Least(reader[s].taken - reader[s].hand, CaptureLimit)
               /\ reader[s].truncated = (reader[s].taken - reader[s].hand > VisibleLimit)
    <3>1. reader[s].hand <= reader[s].taken /\ reader[s].taken <= written[s]
      <4>1. 0 <= 0
        OBVIOUS
      <4> QED
        BY <2>1, <4>1, Zenon
    <3>2. reader[s].stored = Least(reader[s].taken - reader[s].hand, CaptureLimit)
      BY <2>1, <2>2
    <3>3. reader[s].truncated = (reader[s].taken - reader[s].hand > VisibleLimit)
      BY <2>1, <2>3
    <3> QED
      BY <2>1, <3>1, <3>2, <3>3
  <2> QED
    BY <2>4 DEF ReaderInv
<1> QED
  BY <1>1, <1>2 DEF ProcessInv, StartInv, DoneInv, WaitInv, KillInv, AfterWaits, AfterKill

----------------------------------------------------------------------------
(***************************************************************************)
(* The command's steps only change os and written.                         *)
(***************************************************************************)

LEMMA ExitPreserves ==
  ASSUME ProcessInv, NEW p \in Process, Exit(p) PROVE ProcessInv'
<1> USE DEF ProcessInv, Exit
<1>1. TypeOK'
  <2>1. PICK code \in ExitCode, A \in SUBSET Process, O \in SUBSET Process :
          os' = [os EXCEPT !.alive = A, !.open = O, !.code = code]
    <3>1. PICK code \in ExitCode :
            os' = [os EXCEPT !.alive = @ \ {p}, !.open = @ \ {p},
                             !.code = IF p = Child THEN code ELSE @]
      BY DEF ExitCode
    <3>2. /\ os.alive \ {p} \in SUBSET Process /\ os.open \ {p} \in SUBSET Process
          /\ (IF p = Child THEN code ELSE os.code) \in ExitCode
      BY <3>1 DEF TypeOK, OsRecord
    <3> QED
      BY <3>1, <3>2
  <2> QED
    BY <2>1 DEF TypeOK, OsRecord
<1>2. StartInv' /\ ReaderInv' /\ DoneInv'
  BY DEF TypeOK, OsRecord, StartInv, ReaderInv, DoneInv
<1>3. WaitInv'
  BY DEF TypeOK, OsRecord, WaitInv, StartInv, KillInv
<1>4. KillInv'
  BY DEF TypeOK, OsRecord, KillInv
<1> QED
  BY <1>1, <1>2, <1>3, <1>4

LEMMA OtherCommandStepsPreserve ==
  ASSUME ProcessInv,
         \/ \E p \in Process : CloseOutput(p)
         \/ \E d \in Descendant : Fork(d) \/ Detach(d)
         \/ \E s \in Stream : Write(s)
  PROVE  ProcessInv'
<1> USE ChildIsNoDescendant DEF ProcessInv, Running
<1>1. TypeOK'
  <2>1. CASE \E s \in Stream : Write(s)
    BY <2>1 DEF TypeOK, Write
  <2>2. ASSUME NEW p \in Process, CloseOutput(p) PROVE TypeOK'
    <3>1. PICK O \in SUBSET Process : os' = [os EXCEPT !.open = O]
      BY <2>2 DEF CloseOutput, TypeOK, OsRecord
    <3> QED
      BY <2>2, <3>1 DEF CloseOutput, TypeOK, OsRecord
  <2>3. ASSUME NEW d \in Descendant, Detach(d) PROVE TypeOK'
    <3>1. PICK G \in SUBSET Process : os' = [os EXCEPT !.group = G]
      BY <2>3 DEF Detach, TypeOK, OsRecord
    <3> QED
      BY <2>3, <3>1 DEF Detach, TypeOK, OsRecord
  <2>4. ASSUME NEW d \in Descendant, Fork(d) PROVE TypeOK'
    <3>1. d \in Process
      BY DEF Process
    <3>2. /\ os.born \cup {d} \in SUBSET Process /\ os.alive \cup {d} \in SUBSET Process
          /\ os.group \cup {d} \in SUBSET Process /\ os.open \cup {d} \in SUBSET Process
          /\ os.open \in SUBSET Process
      BY <3>1 DEF TypeOK, OsRecord
    <3>3. PICK B \in SUBSET Process, A \in SUBSET Process,
               G \in SUBSET Process, O \in SUBSET Process :
            os' = [os EXCEPT !.born = B, !.alive = A, !.group = G, !.open = O]
      BY <2>4, <3>2 DEF Fork
    <3> QED
      BY <2>4, <3>3 DEF Fork, TypeOK, OsRecord
  <2> QED
    BY <2>1, <2>2, <2>3, <2>4
<1>2. StartInv'
  BY DEF TypeOK, OsRecord, StartInv, CloseOutput, Fork, Detach, Write
<1>3. ReaderInv'
  <2>1. CASE \E s \in Stream : Write(s)
    BY <2>1 DEF TypeOK, ReaderRecord, ReaderInv, Write
  <2>2. CASE UNCHANGED <<written, reader, call>>
    BY <2>2 DEF ReaderInv
  <2> QED
    BY <2>1, <2>2 DEF CloseOutput, Fork, Detach
<1>4. DoneInv'
  BY DEF TypeOK, OsRecord, DoneInv, CloseOutput, Fork, Detach, Write
<1>5. WaitInv'
  BY DEF TypeOK, OsRecord, WaitInv, CloseOutput, Fork, Detach, Write
<1>6. KillInv'
  BY DEF TypeOK, OsRecord, KillInv, CloseOutput, Fork, Detach, Write
<1> QED
  BY <1>1, <1>2, <1>3, <1>4, <1>5, <1>6

----------------------------------------------------------------------------
(***************************************************************************)
(* The readers' steps only change reader.                                  *)
(***************************************************************************)

LEMMA EnterReadPreserves ==
  ASSUME ProcessInv, NEW s \in Stream, EnterRead(s) PROVE ProcessInv'
<1> USE DEF ProcessInv, EnterRead, Started
<1>1. TypeOK'
  BY DEF TypeOK, ReaderRecord, ReaderPc
<1>2. StartInv' /\ WaitInv' /\ KillInv'
  BY DEF StartInv, WaitInv, KillInv
<1>3. ReaderInv' /\ DoneInv'
  BY DEF TypeOK, ReaderRecord, ReaderPc, ReaderInv, DoneInv
<1> QED
  BY <1>1, <1>2, <1>3

LEMMA TakeChunkPreserves ==
  ASSUME ProcessInv, NEW s \in Stream, TakeChunk(s) PROVE ProcessInv'
<1> USE DEF ProcessInv
<1>1. PICK n \in Chunks(s) :
        reader' = [reader EXCEPT ![s] =
          [reader[s] EXCEPT !.pc = IF n = 0 THEN "done" ELSE "chunk",
                            !.taken = @ + n, !.hand = n]]
  BY DEF TakeChunk
<1>2. /\ n \in Nat /\ n <= written[s] - reader[s].taken
      /\ n = 0 => os.open = {} /\ written[s] = reader[s].taken
      /\ reader[s].pc = "reading" /\ reader[s].hand = 0
      /\ UNCHANGED <<os, written, call>>
  <2>1. written[s] \in Nat /\ reader[s].taken \in Nat /\ reader[s].taken <= written[s]
    BY DEF TypeOK, ReaderRecord, ReaderInv
  <2>2. reader[s].pc = "reading" /\ reader[s].hand = 0 /\ UNCHANGED <<os, written, call>>
    BY DEF TakeChunk, ReaderInv
  <2>3. /\ n \in Nat /\ n <= written[s] - reader[s].taken
        /\ n = 0 => os.open = {} /\ written[s] = reader[s].taken
    <3>1. CASE Available(s) >= ChunkSize
      BY <2>1, <3>1, LimitsArePositive DEF Chunks, Available
    <3>2. CASE ~(Available(s) >= ChunkSize)
      BY <2>1, <3>2, LimitsArePositive DEF Chunks, Available
    <3> QED
      BY <3>1, <3>2
  <2> QED
    BY <2>2, <2>3
<1>3. /\ reader'[s].pc = (IF n = 0 THEN "done" ELSE "chunk")
      /\ reader'[s].taken = reader[s].taken + n /\ reader'[s].hand = n
      /\ reader'[s].stored = reader[s].stored
      /\ reader'[s].truncated = reader[s].truncated
      /\ \A t \in Stream \ {s} : reader'[t] = reader[t]
  BY <1>1 DEF TypeOK, ReaderRecord
<1>4. TypeOK'
  <2>1. /\ reader[s].taken + n \in Nat
        /\ (IF n = 0 THEN "done" ELSE "chunk") \in ReaderPc
    BY <1>2 DEF TypeOK, ReaderRecord, ReaderPc
  <2>2. PICK taken \in Nat, pc \in ReaderPc :
          reader' = [reader EXCEPT ![s] =
                       [reader[s] EXCEPT !.pc = pc, !.taken = taken, !.hand = n]]
    BY <1>1, <2>1
  <2>3. [reader[s] EXCEPT !.pc = pc, !.taken = taken, !.hand = n] \in ReaderRecord
    BY <1>2, <2>2 DEF TypeOK, ReaderRecord
  <2> QED
    BY <1>2, <2>2, <2>3 DEF TypeOK
<1>5. ReaderInv'
  <2>1. /\ reader'[s].hand <= reader'[s].taken /\ reader'[s].taken <= written'[s]
        /\ reader'[s].pc # "chunk" => reader'[s].hand = 0
        /\ reader'[s].taken - reader'[s].hand = reader[s].taken - reader[s].hand
    BY <1>2, <1>3 DEF ReaderInv, TypeOK, ReaderRecord
  <2> QED
    BY <1>2, <1>3, <2>1 DEF ReaderInv
<1>6. DoneInv'
  <2> SUFFICES ASSUME NEW t \in Stream, reader'[t].pc = "done"
               PROVE  call'.pc # "start" /\ os'.open = {} /\ reader'[t].taken = written'[t]
    BY DEF DoneInv
  <2>1. CASE t = s
    <3>1. n = 0
      BY <1>3, <2>1
    <3>2. reader[s].taken \in Nat
      BY DEF TypeOK, ReaderRecord
    <3> QED
      BY <1>2, <1>3, <2>1, <3>1, <3>2 DEF StartInv
  <2>2. CASE t # s
    BY <1>2, <1>3, <2>2 DEF DoneInv
  <2> QED
    BY <2>1, <2>2
<1>7. StartInv' /\ WaitInv' /\ KillInv'
  BY <1>2, <1>3 DEF StartInv, WaitInv, KillInv
<1> QED
  BY <1>4, <1>5, <1>6, <1>7

LEMMA ExtendPreserves ==
  ASSUME ProcessInv, NEW s \in Stream, Extend(s) PROVE ProcessInv'
<1> USE CaptureLimitIsNatural, LimitsArePositive DEF ProcessInv
<1>1. /\ reader[s].taken \in Nat /\ reader[s].hand \in Nat
      /\ reader[s].stored \in 0 .. CaptureLimit /\ reader[s].truncated \in BOOLEAN
  BY DEF TypeOK, ReaderRecord
<1>2. /\ reader[s].pc = "chunk"
      /\ reader'[s].pc = "idle" /\ reader'[s].hand = 0
      /\ reader'[s].taken = reader[s].taken
      /\ reader'[s].stored = reader[s].stored + Least(CaptureLimit - reader[s].stored, reader[s].hand)
      /\ reader'[s].truncated = (reader[s].truncated \/ reader[s].taken > VisibleLimit)
      /\ \A t \in Stream \ {s} : reader'[t] = reader[t]
      /\ UNCHANGED <<os, written, call>>
  BY DEF Extend, TypeOK, ReaderRecord
<1>3. TypeOK'
  <2>1. reader[s].stored + Least(CaptureLimit - reader[s].stored, reader[s].hand)
          \in 0 .. CaptureLimit
    BY <1>1 DEF Least
  <2>2. PICK stored \in 0 .. CaptureLimit, truncated \in BOOLEAN :
          reader' = [reader EXCEPT ![s] =
                       [reader[s] EXCEPT !.pc = "idle", !.hand = 0,
                                         !.stored = stored, !.truncated = truncated]]
    BY <1>1, <2>1 DEF Extend
  <2>3. [reader[s] EXCEPT !.pc = "idle", !.hand = 0, !.stored = stored, !.truncated = truncated]
          \in ReaderRecord
    BY <2>2 DEF TypeOK, ReaderRecord, ReaderPc
  <2> QED
    BY <1>2, <2>2, <2>3 DEF TypeOK
<1>4. ReaderInv'
  <2>1. reader'[s].stored = Least(reader'[s].taken - reader'[s].hand, CaptureLimit)
    BY <1>1, <1>2 DEF ReaderInv, Least
  <2>2. reader'[s].truncated = (reader'[s].taken - reader'[s].hand > VisibleLimit)
    BY <1>1, <1>2 DEF ReaderInv
  <2>3. reader'[s].hand <= reader'[s].taken /\ reader'[s].taken <= written'[s]
    BY <1>1, <1>2 DEF ReaderInv
  <2> QED
    BY <1>2, <2>1, <2>2, <2>3 DEF ReaderInv
<1>5. StartInv' /\ DoneInv' /\ WaitInv' /\ KillInv'
  BY <1>2 DEF StartInv, DoneInv, WaitInv, KillInv
<1> QED
  BY <1>3, <1>4, <1>5

----------------------------------------------------------------------------
(***************************************************************************)
(* The caller's steps only change call and os.                             *)
(***************************************************************************)

LEMMA CallerKeepsReaders ==
  ASSUME ProcessInv, Caller PROVE UNCHANGED <<written, reader>> /\ ReaderInv'
<1>1. UNCHANGED <<written, reader>>
  BY DEF Caller, Popen, Wait, Poll, KillGroup, TaskKill, WaitKilled, KillChild, WaitLast,
         Finally, Join, Close, Unchanged
<1> QED
  BY <1>1 DEF ProcessInv, ReaderInv

LEMMA CallerKeepsTypes == ASSUME ProcessInv, Caller PROVE TypeOK'
<1> USE CallerKeepsReaders DEF ProcessInv, TypeOK, OsRecord, CallRecord, CallPc, Goto, Unchanged
<1>1. CASE Popen
  BY <1>1 DEF Popen, Process
<1>2. CASE Wait \/ Poll \/ WaitKilled \/ WaitLast
  BY <1>2 DEF Wait, Poll, WaitKilled, WaitLast, ChildExited
<1>3. CASE KillGroup \/ TaskKill \/ KillChild
  <2>1. PICK D \in SUBSET Process : os' = [os EXCEPT !.doomed = D]
    BY <1>3 DEF KillGroup, TaskKill, KillChild
  <2>2. call' \in CallRecord
    BY <1>3 DEF KillGroup, TaskKill, KillChild
  <2> QED
    BY <2>1, <2>2
<1>4. CASE Finally
  <2>1. CASE Join("stdout", "join_stdout", "join_stderr")
             \/ Join("stderr", "join_stderr", "close_stdout")
    BY <2>1 DEF Join
  <2>2. ASSUME NEW s \in Stream, NEW from, NEW to \in CallPc, Close(s, from, to)
        PROVE  TypeOK'
    <3>1. PICK C \in SUBSET Stream : call' = [call EXCEPT !.pc = to, !.closed = C]
      BY <2>2 DEF Close
    <3> QED
      BY <2>2, <3>1 DEF Close
  <2>3. "stdout" \in Stream /\ "stderr" \in Stream
    BY DEF Stream
  <2> QED
    BY <1>4, <2>1, <2>2, <2>3 DEF Finally
<1> QED
  BY <1>1, <1>2, <1>3, <1>4 DEF Caller

LEMMA CallerPreserves == ASSUME ProcessInv, Caller PROVE ProcessInv'
<1> USE DEF ProcessInv, Goto, Unchanged
<1>0. TypeOK' /\ ReaderInv' /\ UNCHANGED <<written, reader>>
  BY CallerKeepsTypes, CallerKeepsReaders
<1>1. CASE Popen
  <2>1. call.pc = "start" /\ call'.pc \in {"wait", "raised"} /\ call'.platform = call.platform
    BY <1>1 DEF Popen, TypeOK, CallRecord
  <2>2. \/ UNCHANGED os /\ call'.pc = "raised"
        \/ /\ os'.alive = {Child} /\ os'.group = {Child} /\ os'.open = {Child}
           /\ os'.doomed = os.doomed /\ os'.code = os.code
           /\ call'.pc = "wait"
    BY <1>1 DEF Popen, TypeOK, OsRecord, CallRecord
  <2>3. StartInv' /\ DoneInv'
    BY <1>0, <2>1 DEF StartInv, DoneInv
  <2>4. WaitInv' /\ KillInv'
    BY <2>1, <2>2 DEF StartInv, WaitInv, KillInv, AfterWaits, AfterKill
  <2> QED
    BY <1>0, <2>3, <2>4
<1>2. CASE Wait \/ Poll \/ WaitKilled \/ WaitLast
  <2>1. /\ UNCHANGED os
        /\ call.pc \notin {"start", "returned", "raised"} /\ call'.pc \notin {"start", "returned", "raised"}
        /\ call'.platform = call.platform
        /\ call'.pc \in AfterWaits /\ ~call'.raising => Child \notin os.alive
        /\ call.platform = "posix" => call'.pc # "taskkill"
        /\ call'.pc \in AfterKill /\ Child \in os.alive => call.pc \in AfterKill
    BY <1>2 DEF Wait, Poll, WaitKilled, WaitLast, ChildExited, TypeOK, CallRecord,
                AfterWaits, AfterKill
  <2>2. StartInv' /\ DoneInv'
    BY <1>0, <2>1 DEF StartInv, DoneInv
  <2>3. WaitInv' /\ KillInv'
    BY <2>1 DEF WaitInv, KillInv
  <2> QED
    BY <1>0, <2>2, <2>3
<1>3. CASE KillGroup \/ TaskKill \/ KillChild
  <2>1. /\ os'.alive = os.alive /\ os'.group = os.group /\ os'.open = os.open
        /\ os'.code = os.code /\ os.doomed \subseteq os'.doomed
    BY <1>3 DEF KillGroup, TaskKill, KillChild, TypeOK, OsRecord
  <2>2. /\ call.pc \in {"kill", "taskkill", "kill_child"}
        /\ call'.pc \in {"wait_killed", "wait_last", "join_stdout"}
        /\ call'.platform = call.platform
        /\ call'.pc = "join_stdout" => call'.raising
    BY <1>3 DEF KillGroup, TaskKill, KillChild, TypeOK, CallRecord
  <2>3. call.platform = "posix" =>
          /\ Child \in os'.doomed => os.alive \cap os.group \subseteq os'.doomed
          /\ Child \in os.alive => Child \in os'.doomed
    <3>1. CASE KillGroup
      BY <3>1 DEF KillGroup, KillInv, TypeOK, OsRecord
    <3>2. CASE TaskKill
      BY <3>2 DEF TaskKill, KillInv
    <3>3. CASE KillChild
      BY <3>3 DEF KillChild, KillInv, AfterKill, TypeOK, OsRecord
    <3> QED
      BY <1>3, <3>1, <3>2, <3>3
  <2>4. StartInv' /\ DoneInv'
    BY <1>0, <2>1, <2>2 DEF StartInv, DoneInv
  <2>5. WaitInv'
    BY <2>1, <2>2 DEF WaitInv, AfterWaits
  <2>6. KillInv'
    BY <2>1, <2>2, <2>3 DEF KillInv
  <2> QED
    BY <1>0, <2>4, <2>5, <2>6
<1>4. CASE Finally
  <2>1. /\ UNCHANGED os
        /\ call.pc \in AfterWaits \ {"returned"} /\ call'.pc \in AfterWaits \cup {"raised"}
        /\ call'.platform = call.platform /\ call'.raising = call.raising
        /\ call'.pc = "returned" => ~call.raising
    BY <1>4 DEF Finally, Join, Close, AfterWaits, TypeOK, CallRecord
  <2>2. StartInv' /\ DoneInv'
    BY <1>0, <2>1 DEF StartInv, DoneInv, AfterWaits
  <2>3. WaitInv' /\ KillInv'
    BY <2>1 DEF WaitInv, KillInv, AfterWaits, AfterKill
  <2> QED
    BY <1>0, <2>2, <2>3
<1> QED
  BY <1>1, <1>2, <1>3, <1>4 DEF Caller

LEMMA StepPreserves == ProcessInv /\ [Next]_pvars => ProcessInv'
<1> SUFFICES ASSUME ProcessInv, [Next]_pvars PROVE ProcessInv'
  OBVIOUS
<1>1. CASE Caller
  BY <1>1, CallerPreserves
<1>2. CASE \E s \in Stream : Drain(s)
  BY <1>2, EnterReadPreserves, TakeChunkPreserves, ExtendPreserves DEF Drain
<1>3. CASE Command
  BY <1>3, ExitPreserves, OtherCommandStepsPreserve DEF Command
<1>4. CASE UNCHANGED pvars
  BY <1>4 DEF pvars, ProcessInv, TypeOK, StartInv, ReaderInv, DoneInv, WaitInv, KillInv,
              OsRecord, Least
<1> QED
  BY <1>1, <1>2, <1>3, <1>4 DEF Next

THEOREM ProcessInvariant == Spec => []ProcessInv
  BY InitEstablishes, StepPreserves, PTL DEF Spec

\* The types hold and the captured output never exceeds its limit.
THEOREM ProcessTypeCorrect == Spec => []TypeOK
<1>1. ProcessInv => TypeOK
  BY DEF ProcessInv
<1> QED
  BY <1>1, ProcessInvariant, PTL

\* A stream read to its end is captured up to the limit plus the margin and
\* flagged as truncated exactly when it exceeds the limit.
THEOREM OutputIsAccounted == Spec => []OutputAccounted
<1>1. ProcessInv => OutputAccounted
  BY DEF ProcessInv, TypeOK, ReaderRecord, ReaderInv, DoneInv, OutputAccounted
<1> QED
  BY <1>1, ProcessInvariant, PTL

\* A result is built only for a child that has ended.
THEOREM ResultIsOfAnEndedChild == Spec => []ResultMeansExited
<1>1. ProcessInv => ResultMeansExited
  BY DEF ProcessInv, WaitInv, AfterWaits, ResultMeansExited, ChildExited
<1> QED
  BY <1>1, ProcessInvariant, PTL

\* On POSIX a timeout that killed the child killed its group with it.
THEOREM GroupIsKilledWithChild == Spec => []TimeoutKillsTheGroup
<1>1. ProcessInv => TimeoutKillsTheGroup
  BY DEF ProcessInv, KillInv, TimeoutKillsTheGroup
<1> QED
  BY <1>1, ProcessInvariant, PTL
=============================================================================

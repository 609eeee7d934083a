------------------------- MODULE ControlledProcess -------------------------
(***************************************************************************)
(* run_controlled_process (validation.py): one external command under a    *)
(* timeout, with both its output streams drained by reader threads into    *)
(* bounded buffers.  The command may leave descendants behind which keep   *)
(* the write ends of its pipes open, inside its process group or outside.  *)
(*                                                                         *)
(* A timeout is enabled whenever what it waits for has not happened; when  *)
(* it fires is left open.  A byte is a unit of output; only how many there *)
(* are matters.  Redaction, decoding and logging are left out.             *)
(***************************************************************************)
EXTENDS Integers

CONSTANTS Child,         \* the started process
          Descendant,    \* processes it may leave behind
          VisibleLimit,  \* output_limit_bytes
          Margin,        \* the longest secret, captured beyond the limit
          ChunkSize,     \* 8192
          MaxOutput      \* bound: bytes written to one stream

ASSUME ChildIsNoDescendant == Child \notin Descendant
ASSUME LimitsArePositive == VisibleLimit \in Nat \ {0} /\ ChunkSize \in Nat \ {0}
ASSUME BoundsAreNatural == Margin \in Nat /\ MaxOutput \in Nat

VARIABLES os,       \* the processes: born, alive, in the group, with open pipes, killed
          written,  \* bytes the command has written to each stream
          reader,   \* the two reader threads
          call      \* the caller of run_controlled_process

pvars == <<os, written, reader, call>>

Process == {Child} \cup Descendant
Stream == {"stdout", "stderr"}
CaptureLimit == VisibleLimit + Margin
Least(m, n) == IF m <= n THEN m ELSE n

CallPc == {"start", "wait", "poll", "kill", "taskkill", "wait_killed", "kill_child",
           "wait_last", "join_stdout", "join_stderr", "close_stdout", "close_stderr",
           "returned", "raised"}
ReaderPc == {"idle", "reading", "chunk", "done", "failed"}
\* code: how the child ended.
ExitCode == {"none", "zero", "nonzero", "killed"}

NewReader == [pc |-> "idle", taken |-> 0, hand |-> 0, stored |-> 0, truncated |-> FALSE]

Init ==
  /\ os = [born |-> {}, alive |-> {}, group |-> {}, open |-> {}, doomed |-> {}, code |-> "none"]
  /\ written = [s \in Stream |-> 0]
  /\ reader = [s \in Stream |-> NewReader]
  /\ \E platform \in {"posix", "nt"} :
       call = [pc |-> "start", platform |-> platform, timedOut |-> FALSE,
               raising |-> FALSE, closed |-> {}]

Ended == call.pc \in {"returned", "raised"}
Started == call.pc # "start"

----------------------------------------------------------------------------
(***************************************************************************)
(* The command and what it leaves behind.                                  *)
(***************************************************************************)

Running(p) == p \in os.alive /\ p \notin os.doomed

\* A process ends by itself or, once killed, by the signal.
Exit(p) ==
  /\ p \in os.alive
  /\ \E code \in (IF p \in os.doomed THEN {"killed"} ELSE {"zero", "nonzero"}) :
       os' = [os EXCEPT !.alive = @ \ {p}, !.open = @ \ {p},
                        !.code = IF p = Child THEN code ELSE @]
  /\ UNCHANGED <<written, reader, call>>

Die(p) == p \in os.doomed /\ Exit(p)

\* A descendant inherits the group and the pipes that are still open,
Fork(d) ==
  /\ Running(Child) /\ d \notin os.born
  /\ os' = [os EXCEPT !.born = @ \cup {d}, !.alive = @ \cup {d},
                      !.group = @ \cup {d},
                      !.open = IF Child \in @ THEN @ \cup {d} ELSE @]
  /\ UNCHANGED <<written, reader, call>>

\* may leave the group (setsid),
Detach(d) ==
  /\ Running(d) /\ d \in os.group
  /\ os' = [os EXCEPT !.group = @ \ {d}]
  /\ UNCHANGED <<written, reader, call>>

\* and any process may redirect its output away.
CloseOutput(p) ==
  /\ Running(p) /\ p \in os.open
  /\ os' = [os EXCEPT !.open = @ \ {p}]
  /\ UNCHANGED <<written, reader, call>>

Write(s) ==
  /\ s \notin call.closed /\ \E p \in os.open : Running(p)
  /\ written[s] < MaxOutput
  /\ written' = [written EXCEPT ![s] = @ + 1]
  /\ UNCHANGED <<os, reader, call>>

Command ==
  \/ \E p \in Process : Exit(p) \/ CloseOutput(p)
  \/ \E d \in Descendant : Fork(d) \/ Detach(d)
  \/ \E s \in Stream : Write(s)

----------------------------------------------------------------------------
(***************************************************************************)
(* _drain_bounded_stream.  The stream is buffered: read(8192) holds its    *)
(* lock until a full chunk has come or every write end is closed.          *)
(***************************************************************************)

\* Reading a closed stream raises in the thread.
EnterRead(s) ==
  /\ Started /\ reader[s].pc = "idle"
  /\ reader' = [reader EXCEPT ![s].pc = IF s \in call.closed THEN "failed" ELSE "reading"]
  /\ UNCHANGED <<os, written, call>>

Available(s) == written[s] - reader[s].taken

Chunks(s) ==
  IF Available(s) >= ChunkSize THEN {ChunkSize}
  ELSE IF os.open = {} THEN {Available(s)} ELSE {}

TakeChunk(s) ==
  /\ reader[s].pc = "reading"
  /\ \E n \in Chunks(s) :
       reader' = [reader EXCEPT ![s] =
         [reader[s] EXCEPT !.pc = IF n = 0 THEN "done" ELSE "chunk",
                           !.taken = @ + n, !.hand = n]]
  /\ UNCHANGED <<os, written, call>>

\* A mutant of Extend: the buffer is not bounded.
ExtendUnbounded(s) ==
  /\ reader[s].pc = "chunk"
  /\ LET r == reader[s]
     IN  reader' = [reader EXCEPT ![s] =
           [r EXCEPT !.pc = "idle", !.hand = 0, !.stored = @ + r.hand,
                     !.truncated = @ \/ r.stored >= VisibleLimit]]
  /\ UNCHANGED <<os, written, call>>

Extend(s) ==
  /\ reader[s].pc = "chunk"
  /\ LET r == reader[s]
         remaining == CaptureLimit - r.stored
     IN  reader' = [reader EXCEPT ![s] =
           [r EXCEPT !.pc = "idle", !.hand = 0,
                     !.stored = @ + Least(remaining, r.hand),
                     !.truncated = @ \/ r.taken > VisibleLimit]]
  /\ UNCHANGED <<os, written, call>>

Drain(s) == EnterRead(s) \/ TakeChunk(s) \/ Extend(s)

----------------------------------------------------------------------------
(***************************************************************************)
(* The caller.                                                             *)
(***************************************************************************)

Goto(from, to) == call.pc = from /\ call' = [call EXCEPT !.pc = to]
ChildExited == Child \notin os.alive
Unchanged == UNCHANGED <<os, written, reader>>

\* Popen raises when the executable cannot be started.
Popen ==
  /\ UNCHANGED <<written, reader>>
  /\ \/ Goto("start", "raised") /\ UNCHANGED os
     \/ /\ Goto("start", "wait")
        /\ os' = [os EXCEPT !.born = {Child}, !.alive = {Child},
                            !.group = {Child}, !.open = {Child}]

\* A mutant of Wait: no timeout.
WaitForever ==
  /\ ChildExited /\ Goto("wait", "join_stdout")
  /\ Unchanged

Wait ==
  /\ call.pc = "wait"
  /\ call' = IF ChildExited THEN [call EXCEPT !.pc = "join_stdout"]
             ELSE [call EXCEPT !.pc = "poll", !.timedOut = TRUE]
  /\ Unchanged

\* _terminate_process_tree: a child that has exited meanwhile is left alone,
Poll ==
  /\ Goto("poll", IF ChildExited THEN "wait_killed"
                  ELSE IF call.platform = "posix" THEN "kill" ELSE "taskkill")
  /\ Unchanged

\* A mutant of KillGroup: the signal goes to the child alone.
KillChildOnly ==
  /\ Goto("kill", "wait_killed")
  /\ os' = [os EXCEPT !.doomed = @ \cup (os.alive \cap {Child})]
  /\ UNCHANGED <<written, reader>>

\* otherwise its whole group is killed.
KillGroup ==
  /\ Goto("kill", "wait_killed")
  /\ os' = [os EXCEPT !.doomed = @ \cup (os.alive \cap os.group)]
  /\ UNCHANGED <<written, reader>>

\* taskkill /T kills the tree, or fails and the child is killed, or hangs;
\* its TimeoutExpired passes through the handler into finally.
TaskKill ==
  /\ UNCHANGED <<written, reader>>
  /\ \/ /\ Goto("taskkill", "wait_killed")
        /\ \E reached \in {os.group, {Child}} :
             os' = [os EXCEPT !.doomed = @ \cup (os.alive \cap reached)]
     \/ /\ call.pc = "taskkill"
        /\ call' = [call EXCEPT !.pc = "join_stdout", !.raising = TRUE]
        /\ \E reached \in SUBSET os.group :
             os' = [os EXCEPT !.doomed = @ \cup (os.alive \cap reached)]

WaitKilled ==
  /\ Goto("wait_killed", IF ChildExited THEN "join_stdout" ELSE "kill_child")
  /\ Unchanged

KillChild ==
  /\ Goto("kill_child", "wait_last")
  /\ os' = [os EXCEPT !.doomed = @ \cup (os.alive \cap {Child})]
  /\ UNCHANGED <<written, reader>>

\* A mutant of WaitLast: its TimeoutExpired is swallowed.
WaitLastQuietly ==
  /\ Goto("wait_last", "join_stdout")
  /\ Unchanged

\* The last wait has no handler.
WaitLast ==
  /\ call.pc = "wait_last"
  /\ call' = [call EXCEPT !.pc = "join_stdout", !.raising = ~ChildExited]
  /\ Unchanged

\* join(timeout=5) gives up on a reader whose pipe stays open.  Five seconds
\* are taken to be enough for a reader whose pipe is closed.
Join(s, from, to) ==
  /\ Goto(from, to)
  /\ reader[s].pc \in {"done", "failed"} \/ os.open # {}
  /\ Unchanged

\* close() waits for the stream's lock.
Close(s, from, to) ==
  /\ call.pc = from
  /\ reader[s].pc # "reading"
  /\ call' = [call EXCEPT !.pc = to, !.closed = @ \cup {s}]
  /\ Unchanged

Finally ==
  \/ Join("stdout", "join_stdout", "join_stderr")
  \/ Join("stderr", "join_stderr", "close_stdout")
  \/ Close("stdout", "close_stdout", "close_stderr")
  \/ Close("stderr", "close_stderr", IF call.raising THEN "raised" ELSE "returned")

Caller ==
  \/ Popen \/ Wait \/ Poll \/ KillGroup \/ TaskKill \/ WaitKilled
  \/ KillChild \/ WaitLast \/ Finally

----------------------------------------------------------------------------
Next == Command \/ Caller \/ \E s \in Stream : Drain(s)

Spec == Init /\ [][Next]_pvars

(***************************************************************************)
(* The caller and the readers go on whenever they can, and a killed        *)
(* process dies.  Nothing makes the command or its descendants do anything.*)
(***************************************************************************)
FairSpec ==
  /\ Spec
  /\ WF_pvars(Caller)
  /\ \A s \in Stream : WF_pvars(Drain(s))
  /\ \A p \in Process : WF_pvars(Die(p))

----------------------------------------------------------------------------
ReaderRecord ==
  [pc : ReaderPc, taken : Nat, hand : Nat, stored : 0 .. CaptureLimit, truncated : BOOLEAN]
CallRecord ==
  [pc : CallPc, platform : {"posix", "nt"}, timedOut : BOOLEAN, raising : BOOLEAN,
   closed : SUBSET Stream]
OsRecord ==
  [born : SUBSET Process, alive : SUBSET Process, group : SUBSET Process,
   open : SUBSET Process, doomed : SUBSET Process, code : ExitCode]

\* The types; the captured bytes never exceed the capture limit.
TypeOK ==
  /\ os \in OsRecord
  /\ written \in [Stream -> Nat]
  /\ reader \in [Stream -> ReaderRecord]
  /\ call \in CallRecord

\* A reader that saw the end of its stream captured all of it up to the
\* limit plus the margin, and flagged it exactly when it exceeds the limit.
OutputAccounted ==
  \A s \in Stream : reader[s].pc = "done" =>
    /\ reader[s].stored = Least(written[s], CaptureLimit)
    /\ reader[s].truncated = (written[s] > VisibleLimit)

\* A result, which holds the child's return code, is built only for a child
\* that has ended, however the waits and kills went.
ResultMeansExited == call.pc = "returned" => ChildExited /\ os.code # "none"

\* After a timeout that killed the child, no process that stayed in its
\* group is left running.  (A child that exits between the timeout and the
\* poll is not killed, and then neither are its descendants.)
TimeoutKillsTheGroup ==
  Ended /\ call.platform = "posix" /\ os.code = "killed" => os.alive \cap os.group \subseteq os.doomed

\* On POSIX, a call ends if from some time on no descendant has the pipes
\* open, whatever the child itself does.
ReturnsOncePipesClose ==
  call.platform = "posix" /\ <>[](os.open \cap Descendant = {}) => <>Ended

\* Every call ends: "every external process has a timeout, an output limit
\* and cleanup" (scaffold_compiler_implementation_plan.md:851).
CallReturns == <>Ended
=============================================================================

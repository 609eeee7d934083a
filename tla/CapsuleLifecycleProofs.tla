------------------------ MODULE CapsuleLifecycleProofs ------------------------
(***************************************************************************)
(* The safety of CapsuleLifecycle for any tree, any set of runs and any    *)
(* number of faults, edits and kills.                                      *)
(*                                                                         *)
(* Three facts carry the induction.  The coordination directory has one    *)
(* owner at a time, from the mkdir of a run to the end of its supervisor   *)
(* (CoordOwned), so nobody takes away the journal of somebody else while   *)
(* there is a capsule (Journalled).  A cleaner that has not failed has     *)
(* everything that still exists yet to visit (Progress), so it gives up    *)
(* the manifest, and then the root, of an empty capsule only.  And whoever *)
(* deletes belongs to an armed run that succeeded and ended, or comes      *)
(* after such a run (Armed).  That what others changed stays               *)
(* (StaysForeign) follows from what a cleaner compares before it deletes.  *)
(***************************************************************************)
EXTENDS CapsuleLifecycle, TLAPS

CleanerRecord ==
  [pc : CleanerPc, files : SUBSET File, matched : SUBSET File, dirs : SUBSET Dir,
   missing : BOOLEAN, failed : BOOLEAN]

CapsuleTyped ==
  /\ capsule \in [root : BOOLEAN, tree : [File -> Content], dirs : SUBSET Dir,
                  manifest : Content, extra : SUBSET (Dir \cup {Root})]
  /\ \A f \in File : capsule.tree[f] # "absent" => Home[f] \in Places
  /\ \A d \in capsule.dirs : Home[d] \in Places
  /\ capsule.extra \subseteq Places

CoordTyped ==
  /\ coord \in [dir : BOOLEAN, journal : BOOLEAN, extra : BOOLEAN]
  /\ coord.journal => coord.dir

ProcessesTyped ==
  /\ run \in [Run -> [pc : RunPc, ok : BOOLEAN]]
  /\ cleaner \in [Cleaner -> CleanerRecord]

\* Nobody runs, cleans up or edits a capsule before it is complete.
BuilderFirst ==
  /\ builder = "copying" => capsule.root
  /\ builder # "built" =>
       /\ capsule.manifest # "good" /\ capsule.extra = {}
       /\ \A p \in Run : run[p].pc \in {"idle", "failed"}
       /\ \A c \in Cleaner : cleaner[c].pc = "none"

\* The supervisor of a run that armed the cleanup, succeeded and ended is, or
\* was, awake.
Awake ==
  \E p \in Run : run[p].ok /\ run[p].pc \in RunEnd /\ cleaner[p].pc \notin {"none", "waiting"}

Armed ==
  /\ \A p \in Run :
       /\ run[p].pc \in {"mkdir", "journal", "start", "output"} => run[p].ok
       /\ cleaner[p].pc # "none" => run[p].ok /\ run[p].pc \in RunEnd \cup {"output"}
       /\ cleaner[p].pc \notin {"none", "waiting", "killed"} => run[p].pc \in RunEnd
  /\ cleaner[Retry].pc # "none" => Awake

\* The coordination directory is p's, to write to and to remove.
Arming(p) == run[p].pc \in {"journal", "start", "disarm"}
Owns(p) == Arming(p) \/ cleaner[p].pc \notin CleanerEnd \cup {"none"}

CoordOwned ==
  /\ \A p \in Run : Owns(p) => coord.dir
  /\ \A p, q \in Run : Owns(p) /\ Owns(q) => p = q
  /\ \A p \in Run : cleaner[p].pc \in {"coord_rmdir", "restore"} => ~coord.journal

Leaving == {"journal_check", "journal_unlink", "coord_rmdir", "restore", "done"}

Journalled ==
  capsule.root =>
    \A p \in Run : cleaner[p].pc # "none" =>
      /\ coord.journal /\ cleaner[p].pc \notin Leaving
      /\ \A q \in Run : ~Arming(q)

Empty == capsule.dirs = {} /\ \A f \in File : capsule.tree[f] = "absent"

Progress ==
  \A c \in Cleaner :
    /\ cleaner[c].pc = "files" /\ ~cleaner[c].failed =>
         /\ capsule.dirs \subseteq cleaner[c].dirs
         /\ \A f \in File \ cleaner[c].files : capsule.tree[f] = "absent"
    /\ cleaner[c].pc = "root" => Empty

ManifestLast == builder = "built" /\ capsule.manifest = "absent" => Empty

Whole ==
  /\ capsule.root /\ capsule.manifest # "absent" /\ capsule.dirs = Dir
  /\ \A f \in File : capsule.tree[f] # "absent"

Gated == builder = "built" => Awake \/ Whole

IInv ==
  /\ CapsuleTyped /\ CoordTyped /\ ProcessesTyped
  /\ BuilderFirst /\ Armed /\ CoordOwned /\ Journalled /\ Progress /\ ManifestLast /\ Gated

\* What a step may do to what others added,
Keeps ==
  builder = "built" =>
    /\ capsule.extra \subseteq capsule'.extra
    /\ capsule.extra # {} => capsule'.root

\* and to what they changed.
StaysForeign ==
  builder = "built" =>
    /\ \A f \in File : Foreign(f) => Foreign(f)'
    /\ ForeignManifest => ForeignManifest'

\* Whether the coordination directory and its journal are in order.
CoordInv == CoordTyped /\ CoordOwned /\ Journalled

----------------------------------------------------------------------------
(***************************************************************************)
(* Frames: what a step leaves in order by leaving it alone.                *)
(***************************************************************************)

\* A step that leaves the capsule alone.
LEMMA CapsuleStays ==
  ASSUME IInv, capsule' = capsule, builder' = builder
  PROVE  CapsuleTyped' /\ ManifestLast' /\ (Whole => Whole') /\ Keeps
<1>1. CapsuleTyped' /\ ManifestLast' /\ (Whole => Whole')
  BY DEF IInv, CapsuleTyped, Places, ManifestLast, Empty, Whole
<1>2. Keeps
  <2>1. capsule.extra # {} => capsule.root
    BY DEF IInv, CapsuleTyped, Places
  <2> QED
    BY <2>1 DEF Keeps
<1> QED
  BY <1>1, <1>2

\* A step of nobody who deletes.
LEMMA CleanersStay == ASSUME IInv, capsule' = capsule, cleaner' = cleaner PROVE Progress'
BY DEF IInv, Progress, Empty

\* What a move of a run changes of the runs.
LEMMA RunFrame ==
  ASSUME ProcessesTyped, NEW p \in Run, NEW from, NEW to \in RunPc, RunMoves(p, from, to)
  PROVE  /\ run[p].pc = from /\ run'[p].pc = to /\ run'[p].ok = run[p].ok
         /\ \A q \in Run \ {p} : run'[q] = run[q]
         /\ run' \in [Run -> [pc : RunPc, ok : BOOLEAN]]
BY DEF ProcessesTyped, RunMoves

\* What a move of a cleaner changes of the cleaners.
LEMMA CleanerFrame ==
  ASSUME ProcessesTyped, NEW c \in Cleaner, NEW from, NEW to \in CleanerPc, CleanerMoves(c, from, to)
  PROVE  /\ cleaner[c].pc = from /\ cleaner'[c].pc = to
         /\ cleaner'[c].files = cleaner[c].files /\ cleaner'[c].dirs = cleaner[c].dirs
         /\ cleaner'[c].failed = cleaner[c].failed
         /\ \A d \in Cleaner \ {c} : cleaner'[d] = cleaner[d]
         /\ cleaner' \in [Cleaner -> CleanerRecord]
BY DEF ProcessesTyped, CleanerMoves, CleanerRecord

----------------------------------------------------------------------------
(***************************************************************************)
(* The runs.                                                               *)
(***************************************************************************)

\* A run that goes on, before it has a supervisor.
LEMMA RunGoes ==
  ASSUME IInv, NEW p \in Run, UNCHANGED <<capsule, builder, cleaner>>, CoordInv',
         run' \in [Run -> [pc : RunPc, ok : BOOLEAN]], \A q \in Run \ {p} : run'[q] = run[q],
         run[p].pc \notin RunEnd, run[p].ok => run'[p].ok,
         run'[p].pc \in {"mkdir", "journal", "start", "output"} => run'[p].ok,
         run[p].pc = "output" => run'[p].pc \in RunEnd,
         builder # "built" => run'[p].pc = "failed"
  PROVE  IInv' /\ Keeps
<1>1. ProcessesTyped'
  BY DEF IInv, ProcessesTyped
<1>2. BuilderFirst'
  BY DEF IInv, BuilderFirst
<1>3. Awake => Awake'
  BY DEF Awake
<1>4. Armed'
  BY <1>3 DEF IInv, Armed
<1> QED
  BY <1>1, <1>2, <1>3, <1>4, CapsuleStays, CleanersStay DEF IInv, Gated, CoordInv

\* The same, for a step that leaves the coordination directory alone.
LEMMA RunGoesOn ==
  ASSUME IInv, NEW p \in Run, NEW from, NEW to \in RunPc, RunMoves(p, from, to),
         UNCHANGED <<capsule, coord, builder, cleaner>>, from \notin RunEnd,
         to \in {"journal", "start", "disarm"} => from \in {"journal", "start", "disarm"},
         to \in {"mkdir", "journal", "start", "output"} => from \in {"mkdir", "journal", "start", "output"},
         from = "output" => to \in RunEnd,
         builder # "built" => to = "failed"
  PROVE  IInv' /\ Keeps
<1>1. /\ run[p].pc = from /\ run'[p].pc = to /\ run'[p].ok = run[p].ok
      /\ \A q \in Run \ {p} : run'[q] = run[q]
      /\ run' \in [Run -> [pc : RunPc, ok : BOOLEAN]]
  BY RunFrame DEF IInv
<1>2. \A q \in Run : (Arming(q)' => Arming(q)) /\ (Owns(q)' => Owns(q))
  BY <1>1 DEF Arming, Owns
<1>3. CoordInv'
  BY <1>1, <1>2 DEF IInv, CoordInv, CoordTyped, CoordOwned, Journalled
<1>4. run'[p].pc \in {"mkdir", "journal", "start", "output"} => run'[p].ok
  BY <1>1 DEF IInv, Armed
<1> QED
  BY <1>1, <1>3, <1>4, RunGoes

\* A run before the capsule is complete is refused: it is not exact.
LEMMA UnbuiltIsNotExact == ASSUME IInv, builder # "built" PROVE ~Exact
BY DEF IInv, BuilderFirst, Exact

\* A run reads the capsule.
LEMMA LoadStep == ASSUME IInv, NEW p \in Run, Load(p) PROVE IInv' /\ Keeps
<1>1. PICK to \in {"loaded", "failed"} : RunMoves(p, "idle", to) /\ (to = "loaded" => Exact)
  BY DEF Load
<1> QED
  BY <1>1, RunGoesOn, UnbuiltIsNotExact DEF Load, RunPc, RunEnd

\* Only a complete capsule's run gets further.
LEMMA RunningMeansBuilt ==
  ASSUME IInv, NEW p \in Run, run[p].pc \notin {"idle", "failed"} PROVE builder = "built"
BY DEF IInv, BuilderFirst

\* A run executes its command.
LEMMA ExecuteStep == ASSUME IInv, NEW p \in Run, Execute(p) PROVE IInv' /\ Keeps
<1>1. run[p].pc = "loaded" /\ builder = "built"
  BY RunningMeansBuilt DEF Execute, RunMoves
<1>2. CASE run' = [run EXCEPT ![p] = [pc |-> "mkdir", ok |-> TRUE]]
  <2>1. /\ run'[p].pc = "mkdir" /\ run'[p].ok = TRUE
        /\ \A q \in Run \ {p} : run'[q] = run[q]
        /\ run' \in [Run -> [pc : RunPc, ok : BOOLEAN]]
    BY <1>2 DEF IInv, ProcessesTyped, RunPc
  <2>2. \A q \in Run : (Arming(q)' => Arming(q)) /\ (Owns(q)' => Owns(q))
    BY <2>1 DEF Execute, Arming, Owns
  <2>3. CoordInv'
    BY <2>1, <2>2 DEF IInv, CoordInv, CoordTyped, CoordOwned, Journalled, Execute
  <2> QED
    BY <1>1, <2>1, <2>3, RunGoes DEF Execute, RunEnd
<1>3. ASSUME NEW to \in {"succeeded", "failed"}, RunMoves(p, "loaded", to) PROVE IInv' /\ Keeps
  BY <1>1, <1>3, RunGoesOn DEF Execute, RunPc, RunEnd
<1> QED
  BY <1>2, <1>3 DEF Execute

\* mkdir makes its run the owner; it fails when there is one.
LEMMA MakeCoordStep == ASSUME IInv, NEW p \in Run, MakeCoord(p) PROVE IInv' /\ Keeps
<1>1. run[p].pc = "mkdir" /\ builder = "built"
  BY RunningMeansBuilt DEF MakeCoord, RunMoves
<1>2. CASE ~coord.dir /\ RunMoves(p, "mkdir", "journal") /\ coord' = [coord EXCEPT !.dir = TRUE]
  <2>1. /\ run'[p].pc = "journal" /\ run'[p].ok = run[p].ok
        /\ \A q \in Run \ {p} : run'[q] = run[q]
        /\ run' \in [Run -> [pc : RunPc, ok : BOOLEAN]]
    BY <1>2, RunFrame DEF IInv, RunPc
  <2>2. /\ \A q \in Run : Owns(q)' => q = p
        /\ \A q \in Run : Owns(q) => FALSE
    BY <1>2, <2>1 DEF IInv, MakeCoord, CoordOwned, Arming, Owns
  <2>3. CoordTyped' /\ coord'.dir /\ coord'.journal = coord.journal
    BY <1>2 DEF IInv, CoordTyped
  <2>4. ~coord.journal
    BY <1>2 DEF IInv, CoordTyped
  <2>5. CoordOwned' /\ Journalled'
    BY <2>2, <2>3, <2>4 DEF IInv, MakeCoord, CoordOwned, Journalled
  <2> QED
    BY <1>1, <2>1, <2>3, <2>5, RunGoes DEF IInv, MakeCoord, Armed, CoordInv, RunEnd
<1>3. CASE RunMoves(p, "mkdir", "failed") /\ UNCHANGED coord
  BY <1>1, <1>3, RunGoesOn DEF MakeCoord, RunPc, RunEnd
<1> QED
  BY <1>2, <1>3 DEF MakeCoord

\* While a run arms the cleanup nobody else owns the directory, and no
\* supervisor has started from a capsule that is still there.
LEMMA ArmingIsAlone ==
  ASSUME IInv, NEW p \in Run, Arming(p)
  PROVE  /\ coord.dir /\ \A q \in Run : Owns(q) => q = p
         /\ \A q \in Run : cleaner[q].pc \in CleanerEnd \cup {"none"}
         /\ capsule.root => \A q \in Run : cleaner[q].pc = "none"
<1>1. cleaner[p].pc = "none"
  BY DEF IInv, Armed, Arming, RunEnd
<1> QED
  BY <1>1 DEF IInv, CoordOwned, Journalled, Owns

\* The journal is written by the owner of the directory.
LEMMA WriteJournalStep == ASSUME IInv, NEW p \in Run, WriteJournal(p) PROVE IInv' /\ Keeps
<1>1. PICK to \in {"start", "disarm"}, written \in BOOLEAN :
        /\ RunMoves(p, "journal", to) /\ UNCHANGED <<capsule, builder, cleaner>>
        /\ coord' = [coord EXCEPT !.journal = written]
  <2>1. coord = [coord EXCEPT !.journal = coord.journal] /\ coord.journal \in BOOLEAN
    BY DEF IInv, CoordTyped
  <2> QED
    BY <2>1 DEF WriteJournal
<1>2. /\ run[p].pc = "journal" /\ run'[p].pc = to /\ run'[p].ok = run[p].ok
      /\ \A q \in Run \ {p} : run'[q] = run[q]
      /\ run' \in [Run -> [pc : RunPc, ok : BOOLEAN]]
  BY <1>1, RunFrame DEF IInv, RunPc
<1>3. Arming(p)
  BY <1>2 DEF Arming
<1>4. CoordTyped' /\ coord'.dir
  BY <1>1, <1>3, ArmingIsAlone DEF IInv, CoordTyped
<1>5. \A q \in Run : Owns(q)' => q = p
  BY <1>1, <1>2, <1>3, ArmingIsAlone DEF Arming, Owns
<1>6. CoordOwned' /\ Journalled'
  BY <1>1, <1>3, <1>4, <1>5, ArmingIsAlone DEF CoordOwned, Journalled, CleanerEnd
<1>7. builder = "built" /\ run[p].ok
  BY <1>2, RunningMeansBuilt DEF IInv, Armed
<1> QED
  BY <1>1, <1>2, <1>4, <1>6, <1>7, RunGoes DEF CoordInv, RunEnd

\* A run whose supervisor did not start takes its journal back.
LEMMA DisarmStep == ASSUME IInv, NEW p \in Run, Disarm(p) PROVE IInv' /\ Keeps
<1>1. /\ run[p].pc = "disarm" /\ run'[p].pc = "failed" /\ run'[p].ok = run[p].ok
      /\ \A q \in Run \ {p} : run'[q] = run[q]
      /\ run' \in [Run -> [pc : RunPc, ok : BOOLEAN]]
  BY RunFrame DEF IInv, Disarm, RunPc, RunEnd
<1>2. Arming(p) /\ UNCHANGED <<capsule, builder, cleaner>>
  BY <1>1 DEF Arming, Disarm
<1>3. CoordTyped' /\ (coord'.journal => coord.journal)
  BY DEF IInv, CoordTyped, Disarm
<1>4. \A q \in Run : ~Owns(q)'
  BY <1>1, <1>2, ArmingIsAlone DEF Arming, Owns
<1>5. CoordOwned' /\ Journalled'
  BY <1>2, <1>4, ArmingIsAlone DEF CoordOwned, Journalled, CleanerEnd
<1>6. builder = "built"
  BY <1>1, RunningMeansBuilt
<1> QED
  BY <1>1, <1>2, <1>3, <1>5, <1>6, RunGoes DEF CoordInv, RunEnd

\* The supervisor takes over from its run.
LEMMA StartSupervisorStep == ASSUME IInv, NEW p \in Run, StartSupervisor(p) PROVE IInv' /\ Keeps
<1>1. run[p].pc = "start" /\ builder = "built"
  BY RunningMeansBuilt DEF StartSupervisor, RunMoves
<1>2. CASE RunMoves(p, "start", "disarm") /\ UNCHANGED cleaner
  BY <1>1, <1>2, RunGoesOn DEF StartSupervisor, RunPc, RunEnd
<1>3. CASE /\ Exact /\ coord.journal /\ RunMoves(p, "start", "output")
           /\ cleaner' = [cleaner EXCEPT ![p] = [cleaner[p] EXCEPT !.pc = "waiting"]]
  <2>1. /\ run'[p].pc = "output" /\ run'[p].ok = run[p].ok
        /\ \A q \in Run \ {p} : run'[q] = run[q]
        /\ run' \in [Run -> [pc : RunPc, ok : BOOLEAN]]
    BY <1>3, RunFrame DEF IInv, RunPc
  <2>2. CleanerMoves(p, cleaner[p].pc, "waiting") /\ p \in Cleaner
    BY <1>3, CleanersAreSupervisorsAndRetry DEF CleanerMoves
  <2>3. /\ cleaner'[p].pc = "waiting" /\ \A d \in Cleaner \ {p} : cleaner'[d] = cleaner[d]
        /\ cleaner' \in [Cleaner -> CleanerRecord]
    BY <2>2, CleanerFrame DEF IInv, CleanerPc
  <2>4. Arming(p) /\ UNCHANGED <<capsule, coord, builder>> /\ capsule.root
    BY <1>1, <1>3 DEF Arming, StartSupervisor, Exact
  <2>5. Run \subseteq Cleaner /\ Retry \in Cleaner \ {p}
    BY CleanersAreSupervisorsAndRetry
  <2>6. \A q \in Run : Owns(q)' => q = p
    BY <2>1, <2>3, <2>4, <2>5, ArmingIsAlone DEF Arming, Owns
  <2>7. CoordTyped' /\ CoordOwned'
    <3>1. CoordTyped' /\ coord'.dir
      BY <2>4, ArmingIsAlone DEF IInv, CoordTyped
    <3>2. \A q \in Run : cleaner'[q].pc \notin {"coord_rmdir", "restore"}
      BY <2>3, <2>4, <2>5, ArmingIsAlone DEF CleanerEnd
    <3> QED
      BY <2>6, <3>1, <3>2 DEF CoordOwned
  <2>8. Journalled'
    <3>1. \A q \in Run : ~Arming(q)'
      BY <2>1, <2>6 DEF Arming, Owns
    <3>2. \A q \in Run : cleaner'[q].pc \in {"none", "waiting"}
      BY <2>3, <2>4, <2>5, ArmingIsAlone
    <3> QED
      BY <1>3, <2>4, <3>1, <3>2 DEF Journalled, Leaving
  <2>9. Armed'
    <3>1. Awake => Awake'
      BY <1>1, <2>1, <2>3, <2>5 DEF Awake, RunEnd
    <3> QED
      BY <1>1, <2>1, <2>3, <2>5, <3>1 DEF IInv, Armed, RunEnd
  <2>10. Progress'
    BY <2>3, <2>4 DEF IInv, Progress, Empty
  <2>11. BuilderFirst' /\ ProcessesTyped'
    BY <1>1, <2>1, <2>3, <2>4 DEF BuilderFirst, ProcessesTyped
  <2>12. Gated'
    BY <1>3, <2>4, CapsuleStays DEF Gated, Whole, Exact
  <2> QED
    BY <2>4, <2>7, <2>8, <2>9, <2>10, <2>11, <2>12, CapsuleStays DEF IInv
<1> QED
  BY <1>2, <1>3 DEF StartSupervisor

\* A run ends.
LEMMA FinishStep == ASSUME IInv, NEW p \in Run, Finish(p) PROVE IInv' /\ Keeps
<1>1. run[p].pc = "output" /\ builder = "built"
  BY RunningMeansBuilt DEF Finish, RunMoves
<1> QED
  BY <1>1, RunGoesOn DEF Finish, RunPc, RunEnd

\* Every step of a run.
LEMMA AnyRunStep == ASSUME IInv, NEW p \in Run, RunStep(p) PROVE IInv' /\ Keeps
BY LoadStep, ExecuteStep, MakeCoordStep, WriteJournalStep, StartSupervisorStep, DisarmStep, FinishStep
DEF RunStep
----------------------------------------------------------------------------
(***************************************************************************)
(* The cleaners.                                                           *)
(***************************************************************************)

\* A cleaner that goes on, be it a supervisor whose run has ended, one that
\* is killed, or the retry.
LEMMA CleanerGoes ==
  ASSUME IInv, NEW c \in Cleaner, UNCHANGED <<builder, run>>,
         cleaner' \in [Cleaner -> CleanerRecord], \A d \in Cleaner \ {c} : cleaner'[d] = cleaner[d],
         cleaner[c].pc # "none" \/ Awake, cleaner'[c].pc \notin {"none", "waiting"},
         c \in Run => cleaner[c].pc # "none" /\ (cleaner'[c].pc = "killed" \/ run[c].pc \in RunEnd)
  PROVE  ProcessesTyped' /\ BuilderFirst' /\ Armed' /\ (Awake => Awake') /\ builder = "built"
<1>1. Run \subseteq Cleaner /\ Retry \in Cleaner /\ Retry \notin Run
  BY CleanersAreSupervisorsAndRetry
<1>2. builder = "built"
  BY <1>1 DEF IInv, BuilderFirst, Awake
<1>3. Awake => Awake'
  BY <1>1 DEF Awake
<1>4. Armed'
  BY <1>1, <1>3 DEF IInv, Armed
<1> QED
  BY <1>2, <1>3, <1>4 DEF IInv, ProcessesTyped, BuilderFirst

\* A supervisor on its way to the files, or from them to its end.
LEMMA SupervisorGoes ==
  ASSUME IInv, NEW p \in Run, NEW from, NEW to, CleanerMoves(p, from, to),
         UNCHANGED <<capsule, builder, run>>, CoordInv',
         from \notin CleanerEnd \cup {"none"}, to \in CleanerPc \ {"none", "waiting", "files", "root"},
         from = "waiting" => run[p].pc \in RunEnd
  PROVE  IInv' /\ Keeps
<1>1. p \in Cleaner
  BY CleanersAreSupervisorsAndRetry
<1>2. /\ cleaner[p].pc = from /\ cleaner'[p].pc = to
      /\ \A d \in Cleaner \ {p} : cleaner'[d] = cleaner[d]
      /\ cleaner' \in [Cleaner -> CleanerRecord]
  BY <1>1, CleanerFrame DEF IInv
<1>3. run[p].pc \in RunEnd
  BY <1>2 DEF IInv, Armed, CleanerEnd
<1>4. Progress'
  BY <1>1, <1>2 DEF IInv, Progress, Empty
<1>5. ProcessesTyped' /\ BuilderFirst' /\ Armed' /\ (Awake => Awake')
  BY <1>1, <1>2, <1>3, CleanerGoes
<1> QED
  BY <1>4, <1>5, CapsuleStays DEF IInv, CoordInv, Gated

\* A step that reads the disk and goes on, or gives up.
LEMMA SupervisorGoesOn ==
  ASSUME IInv, NEW p \in Run, NEW from, NEW to, OnlyMoves(p, from, to),
         from \notin CleanerEnd \cup {"none"}, to \in CleanerPc \ {"none", "waiting", "files", "root"},
         from = "waiting" => run[p].pc \in RunEnd,
         to \in {"coord_rmdir", "restore"} => from \in {"coord_rmdir", "restore"},
         to \in Leaving => from \in Leaving \/ ~capsule.root
  PROVE  IInv' /\ Keeps
<1>1. /\ p \in Cleaner /\ Run \subseteq Cleaner
      /\ cleaner[p].pc = from /\ cleaner'[p].pc = to
      /\ \A d \in Cleaner \ {p} : cleaner'[d] = cleaner[d]
  BY CleanersAreSupervisorsAndRetry, CleanerFrame DEF IInv, OnlyMoves
<1>2. UNCHANGED <<capsule, coord, builder, run>>
  BY DEF OnlyMoves
<1>3. \A q \in Run : (Arming(q)' <=> Arming(q)) /\ (Owns(q)' => Owns(q))
  BY <1>1, <1>2 DEF Arming, Owns
<1>4. CoordTyped' /\ CoordOwned'
  BY <1>1, <1>2, <1>3 DEF IInv, CoordTyped, CoordOwned
<1>5. Journalled'
  <2> SUFFICES ASSUME capsule.root PROVE Journalled'
    BY <1>2 DEF Journalled
  <2>1. from # "none" /\ coord.journal /\ (from \notin Leaving) /\ \A q \in Run : ~Arming(q)
    BY <1>1 DEF IInv, Journalled
  <2> QED
    BY <1>1, <1>2, <1>3, <2>1 DEF IInv, Journalled
<1> QED
  BY <1>2, <1>4, <1>5, SupervisorGoes DEF OnlyMoves, CoordInv

\* What a supervisor does before it touches anything.
LEMMA SupervisorReadsStep ==
  ASSUME IInv, NEW p \in Run, Wake(p) \/ LoadJournal(p) \/ Verify(p) \/ Completed(p) \/ CheckCoord(p)
  PROVE  IInv' /\ Keeps
<1>1. CASE Wake(p)
  BY <1>1, SupervisorGoesOn DEF Wake, CleanerPc, CleanerEnd, Leaving
<1>2. CASE LoadJournal(p)
  <2>1. PICK to \in {"failed", "verify", "journal_check"} :
          OnlyMoves(p, "load", to) /\ (to = "journal_check" => ~capsule.root)
    BY <1>2 DEF LoadJournal
  <2> QED
    BY <2>1, SupervisorGoesOn DEF CleanerPc, CleanerEnd, Leaving
<1>3. CASE Verify(p)
  <2>1. PICK to \in {"failed", "verify_again"} : OnlyMoves(p, "verify", to)
    BY <1>3 DEF Verify
  <2> QED
    BY <2>1, SupervisorGoesOn DEF CleanerPc, CleanerEnd, Leaving
<1>4. CASE Completed(p)
  <2>1. PICK to \in {"failed", "journal_check"} :
          OnlyMoves(p, "finish", to) /\ (to = "journal_check" => ~capsule.root)
    BY <1>4 DEF Completed
  <2> QED
    BY <2>1, SupervisorGoesOn DEF CleanerPc, CleanerEnd, Leaving
<1>5. CASE CheckCoord(p)
  <2>1. PICK to \in {"failed", "journal_unlink"} : OnlyMoves(p, "journal_check", to)
    BY <1>5 DEF CheckCoord
  <2> QED
    BY <2>1, SupervisorGoesOn DEF CleanerPc, CleanerEnd, Leaving
<1> QED
  BY <1>1, <1>2, <1>3, <1>4, <1>5

\* A supervisor that has got as far as the journal has no capsule any more,
\* and nobody else is about to arm or to clean up.
LEMMA LeavingIsAlone ==
  ASSUME IInv, NEW p \in Run, cleaner[p].pc \in Leaving \ {"done"}
  PROVE  ~capsule.root /\ coord.dir /\ \A q \in Run : Owns(q) => q = p
BY DEF IInv, Journalled, CoordOwned, Owns, Leaving, CleanerEnd

\* _finish_cleanup_journal: the journal, then the directory; back if it fails.
LEMMA SupervisorLeavesStep ==
  ASSUME IInv, NEW p \in Run, UnlinkJournal(p) \/ RemoveCoord(p) \/ RestoreJournal(p)
  PROVE  IInv' /\ Keeps
<1>1. PICK from \in {"journal_unlink", "coord_rmdir", "restore"}, to \in {"coord_rmdir", "restore", "failed", "done"} :
        /\ CleanerMoves(p, from, to) /\ UNCHANGED <<capsule, builder, run>>
        /\ CoordTyped'
        /\ to # "done" => coord'.dir = coord.dir
        /\ to \in {"coord_rmdir", "restore"} => ~coord'.journal
  <2>1. CASE UnlinkJournal(p)
    <3>1. \/ CleanerMoves(p, "journal_unlink", "coord_rmdir") /\ coord' = [coord EXCEPT !.journal = FALSE]
          \/ CleanerMoves(p, "journal_unlink", "failed") /\ coord' = coord
      BY <2>1 DEF UnlinkJournal
    <3> QED
      BY <2>1, <3>1 DEF UnlinkJournal, IInv, CoordTyped
  <2>2. CASE RemoveCoord(p)
    <3>1. cleaner[p].pc = "coord_rmdir" /\ ~coord.journal
      BY <2>2 DEF IInv, RemoveCoord, CleanerMoves, CoordOwned
    <3>2. \/ CleanerMoves(p, "coord_rmdir", "done") /\ coord' = [coord EXCEPT !.dir = FALSE]
          \/ CleanerMoves(p, "coord_rmdir", "restore") /\ coord' = coord
      BY <2>2 DEF RemoveCoord
    <3> QED
      BY <2>2, <3>1, <3>2 DEF RemoveCoord, IInv, CoordTyped
  <2>3. CASE RestoreJournal(p)
    <3>1. cleaner[p].pc = "restore" /\ coord.dir
      BY <2>3 DEF IInv, RestoreJournal, CleanerMoves, CoordOwned, Owns, CleanerEnd
    <3>2. coord' = [coord EXCEPT !.journal = TRUE] \/ coord' = coord
      BY <2>3 DEF RestoreJournal
    <3> QED
      BY <2>3, <3>1, <3>2 DEF RestoreJournal, IInv, CoordTyped
  <2> QED
    BY <2>1, <2>2, <2>3
<1>2. /\ p \in Cleaner /\ Run \subseteq Cleaner
      /\ cleaner[p].pc = from /\ cleaner'[p].pc = to
      /\ \A d \in Cleaner \ {p} : cleaner'[d] = cleaner[d]
  BY <1>1, CleanersAreSupervisorsAndRetry, CleanerFrame DEF IInv, CleanerPc, CleanerEnd
<1>3. ~capsule.root /\ coord.dir /\ \A q \in Run : Owns(q) => q = p
  BY <1>2, LeavingIsAlone DEF Leaving
<1>4. \A q \in Run : (Arming(q)' <=> Arming(q)) /\ (Owns(q)' => q = p)
  BY <1>1, <1>2, <1>3 DEF Arming, Owns
<1>5. Owns(p)' => to # "done"
  <2>1. ~Arming(p)
    BY <1>2 DEF IInv, Armed, Arming, RunEnd
  <2> QED
    BY <1>2, <1>4, <2>1 DEF Owns, CleanerEnd
<1>6. CoordOwned'
  <2>1. \A q \in Run : cleaner'[q].pc \in {"coord_rmdir", "restore"} => q = p
    BY <1>4 DEF Owns, CleanerEnd
  <2> QED
    BY <1>1, <1>2, <1>3, <1>4, <1>5, <2>1 DEF CoordOwned
<1>7. Journalled'
  BY <1>1, <1>3 DEF Journalled
<1> QED
  BY <1>1, <1>6, <1>7, SupervisorGoes DEF CoordInv, CleanerPc, CleanerEnd
\* A cleaner that takes nothing from the coordination directory.
LEMMA CoordStays ==
  ASSUME IInv, NEW c \in Cleaner, UNCHANGED <<coord, run>>, capsule'.root => capsule.root,
         \A d \in Cleaner \ {c} : cleaner'[d] = cleaner[d],
         c \in Run => /\ cleaner[c].pc \notin CleanerEnd \cup {"none"}
                      /\ cleaner'[c].pc \notin Leaving
  PROVE  CoordInv'
<1>1. Run \subseteq Cleaner
  BY CleanersAreSupervisorsAndRetry
<1>2. \A q \in Run : (Arming(q)' <=> Arming(q)) /\ (Owns(q)' => Owns(q))
  BY <1>1 DEF Arming, Owns
<1>3. CoordTyped' /\ CoordOwned'
  BY <1>1, <1>2 DEF IInv, CoordTyped, CoordOwned, Leaving
<1>4. Journalled'
  BY <1>1, <1>2 DEF IInv, Journalled, CleanerEnd
<1> QED
  BY <1>3, <1>4 DEF CoordInv

\* What only gets less gets no further from being empty.
LEMMA ShrinkingProgress ==
  ASSUME IInv, NEW c \in Cleaner, \A d \in Cleaner \ {c} : cleaner'[d] = cleaner[d],
         capsule'.dirs \subseteq capsule.dirs,
         \A f \in File : capsule.tree[f] = "absent" => capsule'.tree[f] = "absent",
         cleaner'[c].pc = "files" /\ ~cleaner'[c].failed =>
           /\ capsule'.dirs \subseteq cleaner'[c].dirs
           /\ \A f \in File \ cleaner'[c].files : capsule'.tree[f] = "absent",
         cleaner'[c].pc = "root" => Empty'
  PROVE  Progress' /\ (Empty => Empty')
<1>1. Empty => Empty'
  BY DEF Empty
<1>2. ASSUME NEW d \in Cleaner \ {c}
      PROVE  /\ cleaner'[d].pc = "files" /\ ~cleaner'[d].failed =>
                  /\ capsule'.dirs \subseteq cleaner'[d].dirs
                  /\ \A f \in File \ cleaner'[d].files : capsule'.tree[f] = "absent"
             /\ cleaner'[d].pc = "root" => Empty'
  BY <1>1 DEF IInv, Progress
<1> QED
  BY <1>1, <1>2 DEF Progress

\* Whoever deletes does so after an armed run has succeeded and ended.
LEMMA DeletingMeansAwake ==
  ASSUME IInv, NEW c \in Cleaner, cleaner[c].pc \in {"files", "root"}
  PROVE  Awake /\ (c \in Run => run[c].pc \in RunEnd)
<1>1. CASE c = Retry
  BY <1>1, CleanersAreSupervisorsAndRetry DEF IInv, Armed
<1>2. CASE c \in Run
  BY <1>2 DEF IInv, Armed, Awake
<1> QED
  BY <1>1, <1>2, CleanersAreSupervisorsAndRetry

\* A step of _cleanup_capsule keeps what its effect on the tree keeps.
LEMMA CleanupGoes ==
  ASSUME IInv, NEW c \in Cleaner, UNCHANGED <<coord, builder, run>>,
         cleaner[c].pc \in {"files", "root"}, cleaner'[c].pc \in {"files", "root", "finish"},
         cleaner' \in [Cleaner -> CleanerRecord], \A d \in Cleaner \ {c} : cleaner'[d] = cleaner[d],
         CapsuleTyped', Progress', ManifestLast', Keeps, capsule'.root => capsule.root
  PROVE  IInv' /\ Keeps
<1>1. CoordInv'
  BY CoordStays DEF CleanerEnd, Leaving
<1>2. ProcessesTyped' /\ BuilderFirst' /\ Armed' /\ Awake'
  BY CleanerGoes, DeletingMeansAwake
<1> QED
  BY <1>1, <1>2 DEF IInv, CoordInv, Gated

\* The cleanup begins with everything still to visit.
LEMMA BeginStep ==
  ASSUME IInv, NEW c \in Cleaner, NEW missing \in BOOLEAN, UNCHANGED <<capsule, coord, builder, run>>,
         cleaner' = [cleaner EXCEPT ![c] = Begin(c, missing)],
         c \in Run => cleaner[c].pc = "verify_again", c = Retry => Awake
  PROVE  IInv' /\ Keeps
<1>1. /\ cleaner'[c].pc = "files" /\ cleaner'[c].files = File /\ cleaner'[c].dirs = Dir
      /\ cleaner' \in [Cleaner -> CleanerRecord]
      /\ \A d \in Cleaner \ {c} : cleaner'[d] = cleaner[d]
  BY DEF IInv, ProcessesTyped, Begin, CleanerRecord, CleanerPc
<1>2. capsule.dirs \subseteq Dir
  BY DEF IInv, CapsuleTyped
<1>3. Progress'
  BY <1>1, <1>2, ShrinkingProgress
<1>4. CoordInv'
  BY <1>1, CoordStays DEF CleanerEnd, Leaving
<1>5. c \in Run => run[c].pc \in RunEnd
  BY DEF IInv, Armed
<1>6. ProcessesTyped' /\ BuilderFirst' /\ Armed' /\ (Awake => Awake')
  BY <1>1, <1>5, CleanerGoes, CleanersAreSupervisorsAndRetry
<1> QED
  BY <1>3, <1>4, <1>6, CapsuleStays DEF IInv, CoordInv, Gated

\* The supervisor verifies the capsule.
LEMMA VerifyAgainStep == ASSUME IInv, NEW p \in Run, VerifyAgain(p) PROVE IInv' /\ Keeps
<1>1. CASE OnlyMoves(p, "verify_again", "failed")
  BY <1>1, SupervisorGoesOn DEF CleanerPc, CleanerEnd, Leaving
<1>2. CASE Cleaning(p, "verify_again") /\ cleaner' = [cleaner EXCEPT ![p] = Begin(p, FALSE)]
           /\ UNCHANGED <<capsule, coord, builder, run>>
  BY <1>2, BeginStep, CleanersAreSupervisorsAndRetry DEF Cleaning
<1> QED
  BY <1>1, <1>2 DEF VerifyAgain

\* A retry starts after an attempt whose run has ended.
LEMMA StartRetryStep == ASSUME IInv, StartRetry PROVE IInv' /\ Keeps
<1>1. Awake
  BY DEF IInv, StartRetry, Armed, Awake
<1> QED
  BY <1>1, BeginStep, CleanersAreSupervisorsAndRetry DEF StartRetry

\* A cleaner is done with a file, or with all of them.
LEMMA FileFrame ==
  ASSUME IInv, NEW c \in Cleaner, NEW rest \in SUBSET File, cleaner[c].pc = "files",
         Visited(c, rest) \/ Fails(c, rest)
  PROVE  /\ cleaner'[c].pc = "files" /\ cleaner'[c].files = rest /\ cleaner'[c].dirs = cleaner[c].dirs
         /\ cleaner'[c].matched = {}
         /\ cleaner' \in [Cleaner -> CleanerRecord] /\ \A d \in Cleaner \ {c} : cleaner'[d] = cleaner[d]
         /\ ~cleaner'[c].failed => ~cleaner[c].failed /\ Visited(c, rest)
<1>1. ProcessesTyped
  BY DEF IInv
<1>2. CASE Visited(c, rest)
  BY <1>1, <1>2 DEF ProcessesTyped, CleanerRecord, Visited
<1>3. CASE Fails(c, rest)
  <2>1. PICK r \in CleanerRecord :
          /\ r.pc = "files" /\ r.files = rest /\ r.dirs = cleaner[c].dirs /\ r.matched = {}
          /\ r.failed = TRUE /\ cleaner' = [cleaner EXCEPT ![c] = r]
    <3>1. [cleaner[c] EXCEPT !.files = rest, !.matched = {}, !.failed = TRUE] \in CleanerRecord
      BY <1>1 DEF ProcessesTyped, CleanerRecord
    <3> QED
      BY <1>1, <1>3, <3>1 DEF ProcessesTyped, CleanerRecord, Fails
  <2> QED
    BY <1>1, <2>1 DEF ProcessesTyped
<1> QED
  BY <1>2, <1>3

\* Comparing a file: what is skipped without a failure is gone.
LEMMA CompareFileStep ==
  ASSUME IInv, NEW c \in Cleaner, NEW f \in File, CompareFile(c, f), UNCHANGED run PROVE IInv' /\ Keeps
<1>1. /\ cleaner[c].pc = "files" /\ UNCHANGED <<capsule, coord, builder, run>>
      /\ \/ Matches(c, f)
         \/ Visited(c, cleaner[c].files \ {f}) /\ capsule.tree[f] = "absent"
         \/ \E rest \in {cleaner[c].files \ {f}, {}} : Fails(c, rest)
  BY DEF CompareFile, Cleaning, OnCapsule
<1>2. /\ cleaner'[c].pc = "files" /\ cleaner'[c].dirs = cleaner[c].dirs
      /\ cleaner' \in [Cleaner -> CleanerRecord]
      /\ \A d \in Cleaner \ {c} : cleaner'[d] = cleaner[d]
      /\ ~cleaner'[c].failed =>
           /\ ~cleaner[c].failed
           /\ \A g \in cleaner[c].files \ cleaner'[c].files : capsule.tree[g] = "absent"
  <2>1. cleaner[c].files \in SUBSET File
    BY DEF IInv, ProcessesTyped, CleanerRecord
  <2>2. CASE Matches(c, f)
    BY <1>1, <2>2 DEF IInv, ProcessesTyped, CleanerRecord, Matches
  <2>3. CASE Visited(c, cleaner[c].files \ {f}) /\ capsule.tree[f] = "absent"
    BY <1>1, <2>1, <2>3, FileFrame
  <2>4. ASSUME NEW rest \in {cleaner[c].files \ {f}, {}}, Fails(c, rest) PROVE <1>2!:
    <3>1. rest \in SUBSET File
      BY <2>1
    <3>2. cleaner'[c].failed
      BY <2>4 DEF IInv, ProcessesTyped, CleanerRecord, Fails
    <3> QED
      BY <1>1, <2>4, <3>1, <3>2, FileFrame
  <2> QED
    BY <1>1, <2>2, <2>3, <2>4
<1>3. Progress'
  <2>1. cleaner[c].pc = "files" /\ ~cleaner[c].failed =>
          /\ capsule.dirs \subseteq cleaner[c].dirs
          /\ \A g \in File \ cleaner[c].files : capsule.tree[g] = "absent"
    BY DEF IInv, Progress
  <2> QED
    BY <1>1, <1>2, <2>1, ShrinkingProgress
<1> QED
  BY <1>1, <1>2, <1>3, CapsuleStays, CleanupGoes

\* Unlinking a file: one that cannot be unlinked fails.
LEMMA DeleteFileStep ==
  ASSUME IInv, NEW c \in Cleaner, NEW f \in File, DeleteFile(c, f), UNCHANGED run PROVE IInv' /\ Keeps
<1>1. /\ cleaner[c].pc = "files" /\ UNCHANGED <<coord, builder, run>>
      /\ \/ capsule' = [capsule EXCEPT !.tree[f] = "absent"] /\ Visited(c, cleaner[c].files \ {f})
         \/ capsule' = capsule /\ Fails(c, cleaner[c].files \ {f})
      /\ capsule' = capsule \/ capsule' = [capsule EXCEPT !.tree[f] = "absent"]
  BY DEF DeleteFile, Cleaning, OnCapsule
<1>2. /\ cleaner'[c].pc = "files" /\ cleaner'[c].dirs = cleaner[c].dirs
      /\ cleaner'[c].files = cleaner[c].files \ {f}
      /\ cleaner' \in [Cleaner -> CleanerRecord]
      /\ \A d \in Cleaner \ {c} : cleaner'[d] = cleaner[d]
      /\ ~cleaner'[c].failed => ~cleaner[c].failed /\ Visited(c, cleaner[c].files \ {f})
  <2>1. cleaner[c].files \ {f} \in SUBSET File
    BY DEF IInv, ProcessesTyped, CleanerRecord
  <2> QED
    BY <1>1, <2>1, FileFrame
<1>3. ~cleaner'[c].failed => capsule'.tree[f] = "absent"
  <2>1. Fails(c, cleaner[c].files \ {f}) => cleaner'[c].failed
    BY DEF IInv, ProcessesTyped, CleanerRecord, Fails
  <2> QED
    BY <1>1, <2>1 DEF IInv, CapsuleTyped
<1>4. /\ CapsuleTyped' /\ capsule'.dirs = capsule.dirs /\ capsule'.root = capsule.root
      /\ capsule'.manifest = capsule.manifest
      /\ \A g \in File : capsule.tree[g] = "absent" => capsule'.tree[g] = "absent"
      /\ Keeps
  <2>1. CASE capsule' = capsule
    BY <1>1, <2>1, CapsuleStays
  <2>2. CASE capsule' = [capsule EXCEPT !.tree[f] = "absent"]
    <3>1. /\ capsule' \in [root : BOOLEAN, tree : [File -> Content], dirs : SUBSET Dir,
                           manifest : Content, extra : SUBSET (Dir \cup {Root})]
          /\ capsule'.dirs = capsule.dirs /\ capsule'.root = capsule.root
          /\ capsule'.manifest = capsule.manifest /\ capsule'.extra = capsule.extra
          /\ \A g \in File : capsule'.tree[g] = IF g = f THEN "absent" ELSE capsule.tree[g]
      BY <2>2 DEF IInv, CapsuleTyped, Content
    <3>2. Places' = Places
      BY <3>1 DEF Places
    <3>3. CapsuleTyped'
      BY <3>1, <3>2 DEF IInv, CapsuleTyped
    <3>4. capsule.extra # {} => capsule.root
      BY DEF IInv, CapsuleTyped, Places
    <3> QED
      BY <3>1, <3>3, <3>4 DEF Keeps
  <2> QED
    BY <1>1, <2>1, <2>2
<1>5. Progress' /\ (Empty => Empty')
  <2>1. cleaner[c].pc = "files" /\ ~cleaner[c].failed =>
          /\ capsule.dirs \subseteq cleaner[c].dirs
          /\ \A g \in File \ cleaner[c].files : capsule.tree[g] = "absent"
    BY DEF IInv, Progress
  <2> QED
    BY <1>1, <1>2, <1>3, <1>4, <2>1, ShrinkingProgress
<1>6. ManifestLast'
  BY <1>1, <1>4, <1>5 DEF IInv, ManifestLast
<1> QED
  BY <1>1, <1>2, <1>4, <1>5, <1>6, CleanupGoes

\* One directory: only an empty one is removed, and what stays fails.
LEMMA RemoveDirectoryStep ==
  ASSUME IInv, NEW c \in Cleaner, NEW d \in Dir, RemoveDirectory(c, d), UNCHANGED run PROVE IInv' /\ Keeps
<1>1. PICK removed \in BOOLEAN :
        /\ cleaner[c].pc = "files" /\ cleaner[c].files = {} /\ UNCHANGED <<coord, builder, run>>
        /\ removed => d \in capsule.dirs /\ IsEmpty(d)
        /\ capsule' = [capsule EXCEPT !.dirs = IF removed THEN @ \ {d} ELSE @]
        /\ cleaner' = [cleaner EXCEPT ![c] =
             [cleaner[c] EXCEPT !.dirs = @ \ {d}, !.failed = @ \/ (d \in capsule.dirs /\ ~removed)]]
  BY DEF RemoveDirectory, Cleaning, OnCapsule
<1>2. /\ cleaner'[c].pc = "files" /\ cleaner'[c].files = {} /\ cleaner'[c].dirs = cleaner[c].dirs \ {d}
      /\ cleaner' \in [Cleaner -> CleanerRecord]
      /\ \A e \in Cleaner \ {c} : cleaner'[e] = cleaner[e]
      /\ ~cleaner'[c].failed => ~cleaner[c].failed /\ (d \in capsule.dirs => removed)
  BY <1>1 DEF IInv, ProcessesTyped, CleanerRecord
<1>3. /\ capsule' \in [root : BOOLEAN, tree : [File -> Content], dirs : SUBSET Dir,
                       manifest : Content, extra : SUBSET (Dir \cup {Root})]
      /\ capsule'.dirs = (IF removed THEN capsule.dirs \ {d} ELSE capsule.dirs)
      /\ capsule'.root = capsule.root /\ capsule'.manifest = capsule.manifest
      /\ capsule'.tree = capsule.tree /\ capsule'.extra = capsule.extra
  BY <1>1 DEF IInv, CapsuleTyped
<1>4. CapsuleTyped'
  <2>1. d # Root
    BY TreeIsATree
  <2>2. Places' = IF removed THEN Places \ {d} ELSE Places
    BY <1>3, <2>1 DEF Places
  <2> QED
    BY <1>1, <1>3, <2>2 DEF IInv, CapsuleTyped, IsEmpty
<1>5. Progress' /\ (Empty => Empty')
  <2>1. cleaner[c].pc = "files" /\ ~cleaner[c].failed =>
          /\ capsule.dirs \subseteq cleaner[c].dirs
          /\ \A g \in File \ cleaner[c].files : capsule.tree[g] = "absent"
    BY DEF IInv, Progress
  <2> QED
    BY <1>1, <1>2, <1>3, <2>1, ShrinkingProgress
<1>6. ManifestLast' /\ Keeps
  <2>1. capsule.extra # {} => capsule.root
    BY DEF IInv, CapsuleTyped, Places
  <2> QED
    BY <1>1, <1>3, <1>5, <2>1 DEF IInv, ManifestLast, Keeps
<1> QED
  BY <1>1, <1>2, <1>3, <1>4, <1>5, <1>6, CleanupGoes

\* The manifest goes when nothing else is left.
LEMMA RemoveManifestStep ==
  ASSUME IInv, NEW c \in Cleaner, RemoveManifest(c), UNCHANGED run PROVE IInv' /\ Keeps
<1>1. PICK to \in {"finish", "root"} :
        /\ CleanerMoves(c, "files", to) /\ UNCHANGED <<coord, builder, run>>
        /\ cleaner[c].files = {} /\ cleaner[c].dirs = {}
        /\ \/ capsule' = capsule /\ to = "finish"
           \/ ~cleaner[c].failed /\ capsule' = [capsule EXCEPT !.manifest = "absent"]
  BY DEF RemoveManifest, OnCapsule
<1>2. /\ cleaner[c].pc = "files" /\ cleaner'[c].pc = to
      /\ \A d \in Cleaner \ {c} : cleaner'[d] = cleaner[d]
      /\ cleaner' \in [Cleaner -> CleanerRecord]
  BY <1>1, CleanerFrame DEF IInv, CleanerPc
<1>3. capsule' # capsule \/ to = "root" => Empty
  BY <1>1, <1>2 DEF IInv, Progress, Empty
<1>4. /\ capsule'.dirs = capsule.dirs /\ capsule'.root = capsule.root
      /\ capsule'.tree = capsule.tree /\ capsule'.extra = capsule.extra
      /\ capsule'.manifest \in {capsule.manifest, "absent"}
      /\ capsule' \in [root : BOOLEAN, tree : [File -> Content], dirs : SUBSET Dir,
                       manifest : Content, extra : SUBSET (Dir \cup {Root})]
  BY <1>1 DEF IInv, CapsuleTyped, Content
<1>5. CapsuleTyped' /\ (Empty => Empty')
  BY <1>4 DEF IInv, CapsuleTyped, Places, Empty
<1>6. Progress'
  BY <1>2, <1>3, <1>4, <1>5, ShrinkingProgress
<1>7. ManifestLast' /\ Keeps
  <2>1. capsule.extra # {} => capsule.root
    BY DEF IInv, CapsuleTyped, Places
  <2> QED
    BY <1>1, <1>3, <1>4, <1>5, <2>1 DEF IInv, ManifestLast, Keeps
<1> QED
  BY <1>1, <1>2, <1>4, <1>5, <1>6, <1>7, CleanupGoes

\* The root goes when it is empty, and so holds nothing of anybody else.
LEMMA RemoveRootStep ==
  ASSUME IInv, NEW c \in Cleaner, RemoveRoot(c), UNCHANGED run PROVE IInv' /\ Keeps
<1>1. /\ CleanerMoves(c, "root", "finish") /\ UNCHANGED <<coord, builder, run>>
      /\ \/ capsule' = capsule
         \/ capsule.root /\ IsEmpty(Root) /\ capsule' = [capsule EXCEPT !.root = FALSE]
  BY DEF RemoveRoot, OnCapsule
<1>2. /\ cleaner[c].pc = "root" /\ cleaner'[c].pc = "finish"
      /\ \A d \in Cleaner \ {c} : cleaner'[d] = cleaner[d]
      /\ cleaner' \in [Cleaner -> CleanerRecord]
  BY <1>1, CleanerFrame DEF IInv, CleanerPc
<1>3. Empty
  BY <1>2 DEF IInv, Progress
<1>4. capsule' # capsule => capsule.extra = {}
  BY <1>1, <1>3 DEF IInv, CapsuleTyped, Places, IsEmpty, Empty
<1>5. /\ capsule'.dirs = capsule.dirs /\ (capsule'.root => capsule.root)
      /\ capsule'.tree = capsule.tree /\ capsule'.extra = capsule.extra
      /\ capsule'.manifest = capsule.manifest
      /\ capsule' \in [root : BOOLEAN, tree : [File -> Content], dirs : SUBSET Dir,
                       manifest : Content, extra : SUBSET (Dir \cup {Root})]
      /\ capsule'.root = capsule.root \/ capsule.extra = {}
  BY <1>1, <1>4 DEF IInv, CapsuleTyped
<1>6. CapsuleTyped' /\ Empty'
  BY <1>3, <1>5 DEF IInv, CapsuleTyped, Places, Empty
<1>7. Progress'
  BY <1>2, <1>5, <1>6, ShrinkingProgress
<1>8. ManifestLast' /\ Keeps
  <2>1. capsule.extra # {} => capsule.root
    BY DEF IInv, CapsuleTyped, Places
  <2> QED
    BY <1>1, <1>5, <1>6, <2>1 DEF ManifestLast, Keeps
<1> QED
  BY <1>1, <1>2, <1>5, <1>6, <1>7, <1>8, CleanupGoes

\* Every step of a deletion.
LEMMA CleanupStep ==
  ASSUME IInv, NEW c \in Cleaner, Cleanup(c), UNCHANGED run PROVE IInv' /\ Keeps
BY CompareFileStep, DeleteFileStep, RemoveDirectoryStep, RemoveManifestStep, RemoveRootStep DEF Cleanup

\* Every step of a supervisor.
LEMMA AnySupervisorStep == ASSUME IInv, NEW p \in Run, SupervisorStep(p) PROVE IInv' /\ Keeps
<1>1. p \in Cleaner
  BY CleanersAreSupervisorsAndRetry
<1> QED
  BY <1>1, SupervisorReadsStep, VerifyAgainStep, CleanupStep, SupervisorLeavesStep DEF SupervisorStep

\* Every step of a retry.
LEMMA AnyRetryStep == ASSUME IInv, RetryStep PROVE IInv' /\ Keeps
<1>1. Retry \in Cleaner /\ Retry \notin Run
  BY CleanersAreSupervisorsAndRetry
<1>2. ASSUME NEW to \in {"failed", "done"}, OnlyMoves(Retry, "finish", to) PROVE IInv' /\ Keeps
  <2>1. /\ cleaner[Retry].pc = "finish" /\ cleaner'[Retry].pc = to
        /\ \A d \in Cleaner \ {Retry} : cleaner'[d] = cleaner[d]
        /\ cleaner' \in [Cleaner -> CleanerRecord]
    BY <1>1, <1>2, CleanerFrame DEF IInv, OnlyMoves, CleanerPc, CleanerEnd
  <2>2. CoordInv'
    BY <1>1, <1>2, <2>1, CoordStays DEF OnlyMoves
  <2>3. ProcessesTyped' /\ BuilderFirst' /\ Armed' /\ (Awake => Awake')
    BY <1>1, <1>2, <2>1, CleanerGoes DEF OnlyMoves
  <2>4. Progress'
    BY <1>1, <1>2, <2>1, ShrinkingProgress DEF OnlyMoves
  <2> QED
    BY <1>2, <2>2, <2>3, <2>4, CapsuleStays DEF IInv, CoordInv, Gated, OnlyMoves
<1> QED
  BY <1>1, <1>2, StartRetryStep, CleanupStep DEF RetryStep
----------------------------------------------------------------------------
(***************************************************************************)
(* The builder, the users and the machine.                                 *)
(***************************************************************************)

\* Until the capsule is complete nobody else does anything with it.
LEMMA BuilderGoes ==
  ASSUME IInv, UNCHANGED <<coord, cleaner, run>>, builder # "built", CapsuleTyped',
         builder' = "copying" => capsule'.root,
         builder' # "built" => capsule'.manifest # "good" /\ capsule'.extra = {},
         builder' = "built" => Whole'
  PROVE  IInv' /\ Keeps
<1>1. \A p \in Run : run[p].pc \in {"idle", "failed"}
  BY DEF IInv, BuilderFirst
<1>2. \A c \in Cleaner : cleaner[c].pc = "none"
  BY DEF IInv, BuilderFirst
<1>3. BuilderFirst' /\ ProcessesTyped'
  BY <1>1, <1>2 DEF IInv, BuilderFirst, ProcessesTyped
<1>4. CoordInv'
  <2>1. CoordTyped' /\ CoordOwned'
    BY DEF IInv, CoordTyped, CoordOwned, Owns, Arming
  <2>2. Journalled'
    BY <1>2, CleanersAreSupervisorsAndRetry DEF Journalled
  <2> QED
    BY <2>1, <2>2 DEF CoordInv
<1>5. Armed'
  BY <1>2, CleanersAreSupervisorsAndRetry DEF IInv, Armed
<1>6. Progress' /\ ManifestLast' /\ Gated'
  BY <1>2 DEF Progress, ManifestLast, Whole, Gated
<1> QED
  BY <1>3, <1>4, <1>5, <1>6 DEF IInv, CoordInv, Keeps

\* The record fields of the capsule.
CapsuleRecord ==
  [root : BOOLEAN, tree : [File -> Content], dirs : SUBSET Dir,
   manifest : Content, extra : SUBSET (Dir \cup {Root})]

\* Every step of the builder.
LEMMA BuilderStep == ASSUME IInv, Builder, UNCHANGED run PROVE IInv' /\ Keeps
<1>1. UNCHANGED <<coord, cleaner, run>> /\ builder # "built"
  BY DEF Builder, MakeRoot, WriteManifest, RemovePartial, CopyFile, MakeDirectory, Builds, BuildFails, NoCleanup
<1>2. /\ capsule.manifest # "good" /\ capsule.extra = {} /\ capsule \in CapsuleRecord
      /\ builder = "copying" => capsule.root
  BY <1>1 DEF IInv, BuilderFirst, CapsuleTyped, CapsuleRecord
<1>3. CASE MakeRoot
  <2>1. /\ capsule'.tree = capsule.tree /\ capsule'.dirs = capsule.dirs /\ capsule'.manifest = capsule.manifest
        /\ capsule'.extra = capsule.extra /\ (capsule.root => capsule'.root) /\ capsule' \in CapsuleRecord
        /\ builder' = "copying" => capsule'.root
        /\ builder' # "built"
    BY <1>2, <1>3 DEF MakeRoot, Builds, CapsuleRecord
  <2>2. CapsuleTyped'
    BY <2>1 DEF IInv, CapsuleTyped, CapsuleRecord, Places
  <2> QED
    BY <1>1, <1>2, <2>1, <2>2, BuilderGoes
<1>4. CASE WriteManifest
  <2>1. PICK m \in Content :
          /\ capsule' = [capsule EXCEPT !.manifest = m] /\ builder' \in {"built", "removing"}
          /\ builder' = "built" => m = "good"
          /\ builder' # "built" => m # "good"
    BY <1>4 DEF WriteManifest, Builds, BuildFails, Content
  <2>2. /\ capsule'.tree = capsule.tree /\ capsule'.dirs = capsule.dirs /\ capsule'.manifest = m
        /\ capsule'.extra = capsule.extra /\ capsule'.root = capsule.root /\ capsule' \in CapsuleRecord
    BY <1>2, <2>1 DEF CapsuleRecord
  <2>3. CapsuleTyped'
    BY <2>2 DEF IInv, CapsuleTyped, CapsuleRecord, Places
  <2>4. Whole' \/ builder' # "built"
    BY <1>2, <1>4, <2>1, <2>2 DEF WriteManifest, Builds, BuildFails, Whole
  <2> QED
    BY <1>1, <1>2, <2>1, <2>2, <2>3, <2>4, BuilderGoes
<1>5. CASE RemovePartial
  <2>1. PICK stuck \in SUBSET {f \in File : capsule.tree[f] # "absent"}, dirs \in SUBSET capsule.dirs,
             manifest \in {"absent", capsule.manifest}, root \in BOOLEAN :
          /\ {Home[e] : e \in stuck \cup dirs} \subseteq dirs \cup {Root}
          /\ ~root => stuck \cup dirs = {} /\ manifest = "absent"
          /\ capsule' = [capsule EXCEPT !.root = root, !.dirs = dirs, !.manifest = manifest,
                           !.tree = [f \in File |-> IF f \in stuck THEN @[f] ELSE "absent"]]
    BY <1>5 DEF RemovePartial
  <2>2. [f \in File |-> IF f \in stuck THEN capsule.tree[f] ELSE "absent"] \in [File -> Content]
    BY <1>2 DEF CapsuleRecord, Content
  <2>3. manifest \in Content /\ dirs \in SUBSET Dir
    BY <1>2 DEF CapsuleRecord, Content
  <2>4. /\ capsule'.tree = [f \in File |-> IF f \in stuck THEN capsule.tree[f] ELSE "absent"]
        /\ capsule'.dirs = dirs /\ capsule'.manifest = manifest
        /\ capsule'.extra = {} /\ capsule'.root = root /\ capsule' \in CapsuleRecord
    BY <1>2, <2>1, <2>2, <2>3 DEF CapsuleRecord
  <2>5. CapsuleTyped'
    <3>1. \A f \in File : capsule'.tree[f] # "absent" => f \in stuck
      BY <2>4
    <3>2. \A e \in stuck \cup dirs : root /\ Home[e] \in dirs \cup {Root}
      BY <2>1
    <3>3. root => Places' = dirs \cup {Root}
      BY <2>4 DEF Places
    <3> QED
      BY <2>4, <3>1, <3>2, <3>3 DEF CapsuleTyped, CapsuleRecord
  <2>6. builder' = "abandoned"
    BY <1>5 DEF RemovePartial, Builds
  <2> QED
    BY <1>1, <1>2, <2>1, <2>4, <2>5, <2>6, BuilderGoes
<1>6. ASSUME NEW f \in File, CopyFile(f) PROVE IInv' /\ Keeps
  <2>1. PICK left \in Content :
          /\ capsule' = [capsule EXCEPT !.tree[f] = left] /\ Home[f] \in Places
          /\ builder = "copying" /\ builder' \in {"copying", "removing"}
    BY <1>6 DEF CopyFile, Builds, BuildFails, Content
  <2>2. /\ \A g \in File : capsule'.tree[g] = IF g = f THEN left ELSE capsule.tree[g]
        /\ capsule'.dirs = capsule.dirs /\ capsule'.manifest = capsule.manifest
        /\ capsule'.extra = capsule.extra /\ capsule'.root = capsule.root /\ capsule' \in CapsuleRecord
    BY <1>2, <2>1 DEF CapsuleRecord
  <2>3. CapsuleTyped'
    BY <2>1, <2>2 DEF IInv, CapsuleTyped, CapsuleRecord, Places
  <2> QED
    BY <1>1, <1>2, <2>1, <2>2, <2>3, BuilderGoes
<1>7. ASSUME NEW d \in Dir, MakeDirectory(d) PROVE IInv' /\ Keeps
  <2>1. /\ capsule' = [capsule EXCEPT !.dirs = @ \cup {d}] /\ Home[d] \in Places
        /\ builder = "copying" /\ builder' = "copying"
    BY <1>7 DEF MakeDirectory, Builds
  <2>2. /\ capsule'.tree = capsule.tree
        /\ capsule'.dirs = capsule.dirs \cup {d} /\ capsule'.manifest = capsule.manifest
        /\ capsule'.extra = capsule.extra /\ capsule'.root = capsule.root /\ capsule' \in CapsuleRecord
    BY <1>2, <2>1 DEF CapsuleRecord
  <2>3. CapsuleTyped'
    BY <2>1, <2>2 DEF IInv, CapsuleTyped, CapsuleRecord, Places
  <2> QED
    BY <1>1, <1>2, <2>1, <2>2, <2>3, BuilderGoes
<1> QED
  BY <1>3, <1>4, <1>5, <1>6, <1>7 DEF Builder

\* An edit adds or changes, and only once the capsule is complete.
LEMMA EditStep == ASSUME IInv, Edit PROVE IInv' /\ Keeps
<1>1. UNCHANGED <<builder, cleaner, run>> /\ builder = "built"
  BY DEF Edit
<1>2. /\ CapsuleTyped' /\ Keeps /\ capsule'.root = capsule.root /\ capsule'.dirs = capsule.dirs
      /\ \A f \in File : capsule.tree[f] = "absent" <=> capsule'.tree[f] = "absent"
      /\ capsule'.manifest = "absent" <=> capsule.manifest = "absent"
  <2>1. capsule \in CapsuleRecord /\ (capsule.extra # {} => capsule.root)
    BY DEF IInv, CapsuleTyped, CapsuleRecord, Places
  <2>2. CASE capsule' = capsule
    BY <1>1, <2>2, CapsuleStays
  <2>3. ASSUME NEW f \in File, capsule.tree[f] = "good", capsule' = [capsule EXCEPT !.tree[f] = "changed"]
        PROVE  <1>2!:
    <3>1. /\ \A g \in File : capsule'.tree[g] = IF g = f THEN "changed" ELSE capsule.tree[g]
          /\ capsule'.dirs = capsule.dirs /\ capsule'.manifest = capsule.manifest
          /\ capsule'.extra = capsule.extra /\ capsule'.root = capsule.root /\ capsule' \in CapsuleRecord
      BY <2>1, <2>3 DEF CapsuleRecord, Content
    <3> QED
      BY <2>1, <2>3, <3>1 DEF IInv, CapsuleTyped, CapsuleRecord, Places, Keeps
  <2>4. ASSUME NEW d \in Places, capsule' = [capsule EXCEPT !.extra = @ \cup {d}]
        PROVE  <1>2!:
    <3>1. capsule.root /\ d \in Dir \cup {Root}
      BY <2>1, <2>4 DEF Places, CapsuleRecord
    <3>2. /\ capsule'.tree = capsule.tree
          /\ capsule'.dirs = capsule.dirs /\ capsule'.manifest = capsule.manifest
          /\ capsule'.extra = capsule.extra \cup {d} /\ capsule'.root = capsule.root /\ capsule' \in CapsuleRecord
      BY <2>1, <2>4, <3>1 DEF CapsuleRecord
    <3> QED
      BY <2>1, <2>4, <3>1, <3>2 DEF IInv, CapsuleTyped, CapsuleRecord, Places, Keeps
  <2>5. ASSUME capsule.manifest = "good", capsule' = [capsule EXCEPT !.manifest = "changed"]
        PROVE  <1>2!:
    <3>1. /\ capsule'.tree = capsule.tree
          /\ capsule'.dirs = capsule.dirs /\ capsule'.manifest = "changed"
          /\ capsule'.extra = capsule.extra /\ capsule'.root = capsule.root /\ capsule' \in CapsuleRecord
      BY <2>1, <2>5 DEF CapsuleRecord, Content
    <3> QED
      BY <2>1, <2>5, <3>1 DEF IInv, CapsuleTyped, CapsuleRecord, Places, Keeps
  <2> QED
    BY <2>2, <2>3, <2>4, <2>5 DEF Edit
<1>3. /\ CoordTyped' /\ coord'.dir = coord.dir /\ coord'.journal = coord.journal
  BY DEF IInv, CoordTyped, Edit
<1>4. CoordOwned' /\ Journalled'
  BY <1>1, <1>2, <1>3 DEF IInv, CoordOwned, Journalled, Owns, Arming
<1>5. Progress' /\ ManifestLast' /\ (Whole => Whole')
  BY <1>1, <1>2 DEF IInv, Progress, ManifestLast, Empty, Whole
<1>6. ProcessesTyped' /\ BuilderFirst' /\ Armed' /\ (Awake => Awake')
  BY <1>1 DEF IInv, ProcessesTyped, BuilderFirst, Armed, Awake
<1> QED
  BY <1>1, <1>2, <1>3, <1>4, <1>5, <1>6 DEF IInv, Gated

\* Killed are a run, a cleaner, or the builder.
LEMMA KillStep == ASSUME IInv, Kill PROVE IInv' /\ Keeps
<1>1. UNCHANGED <<capsule, coord>>
  BY DEF Kill
<1>2. ASSUME NEW p \in Run, run[p].pc \notin RunEnd \cup {"idle"}, UNCHANGED <<builder, cleaner>>,
             run' = [run EXCEPT ![p] = [run[p] EXCEPT !.pc = "killed"]]
      PROVE  IInv' /\ Keeps
  <2>1. RunMoves(p, run[p].pc, "killed")
    BY <1>2 DEF RunMoves
  <2>2. builder = "built"
    BY <1>2, RunningMeansBuilt DEF RunEnd
  <2> QED
    BY <1>1, <1>2, <2>1, <2>2, RunGoesOn DEF RunPc, RunEnd
<1>3. ASSUME NEW c \in Cleaner, cleaner[c].pc \notin CleanerEnd \cup {"none"}, UNCHANGED <<builder, run>>,
             cleaner' = [cleaner EXCEPT ![c] = [cleaner[c] EXCEPT !.pc = "killed"]]
      PROVE  IInv' /\ Keeps
  <2>1. CleanerMoves(c, cleaner[c].pc, "killed")
    BY <1>3 DEF CleanerMoves
  <2>2. /\ cleaner'[c].pc = "killed"
        /\ \A d \in Cleaner \ {c} : cleaner'[d] = cleaner[d]
        /\ cleaner' \in [Cleaner -> CleanerRecord]
    BY <2>1, CleanerFrame DEF IInv, CleanerPc, CleanerEnd
  <2>3. CoordInv'
    BY <1>1, <1>3, <2>2, CoordStays DEF Leaving
  <2>4. ProcessesTyped' /\ BuilderFirst' /\ Armed' /\ (Awake => Awake')
    BY <1>3, <2>2, CleanerGoes
  <2>5. Progress'
    BY <1>1, <2>2, ShrinkingProgress
  <2> QED
    BY <1>1, <1>3, <2>3, <2>4, <2>5, CapsuleStays DEF IInv, CoordInv, Gated
<1>4. CASE builder \in {"copying", "removing"} /\ builder' = "abandoned" /\ UNCHANGED <<cleaner, run>>
  <2>1. CapsuleTyped' /\ capsule'.manifest # "good" /\ capsule'.extra = {}
    BY <1>1, <1>4 DEF IInv, BuilderFirst, CapsuleTyped, Places
  <2> QED
    BY <1>1, <1>4, <2>1, BuilderGoes
<1> QED
  BY <1>2, <1>3, <1>4 DEF Kill

\* Nothing happens.
LEMMA StutterStep == ASSUME IInv, UNCHANGED lvars PROVE IInv' /\ Keeps
<1>1. UNCHANGED <<capsule, coord, builder, cleaner, run>>
  BY DEF lvars
<1>2. CoordTyped' /\ CoordOwned' /\ Journalled'
  BY <1>1 DEF IInv, CoordTyped, CoordOwned, Journalled, Owns, Arming
<1>3. ProcessesTyped' /\ BuilderFirst' /\ Armed' /\ (Awake => Awake')
  BY <1>1 DEF IInv, ProcessesTyped, BuilderFirst, Armed, Awake
<1> QED
  BY <1>1, <1>2, <1>3, CapsuleStays, CleanersStay DEF IInv, Gated

\* Every step keeps the invariant and what is not ours.
LEMMA AnyStep == ASSUME IInv, [Next]_lvars PROVE IInv' /\ Keeps
BY BuilderStep, AnyRunStep, AnySupervisorStep, AnyRetryStep, EditStep, KillStep, StutterStep DEF Next

\* Before the capsule is built there is nothing.
LEMMA InitIsInvariant == ASSUME Init PROVE IInv
<1>1. CapsuleTyped
  BY DEF Init, CapsuleTyped, Content, Places
<1>2. /\ run \in [Run -> [pc : RunPc, ok : BOOLEAN]] /\ \A p \in Run : run[p].pc = "idle"
  BY DEF Init, RunPc
<1>3. /\ cleaner \in [Cleaner -> CleanerRecord] /\ \A c \in Cleaner : cleaner[c].pc = "none"
  BY DEF Init, CleanerRecord, CleanerPc
<1>4. /\ CoordTyped /\ builder = "mkdir" /\ capsule.manifest = "absent" /\ capsule.extra = {} /\ ~capsule.root
  BY DEF Init, CoordTyped
<1>5. Run \subseteq Cleaner /\ Retry \in Cleaner
  BY CleanersAreSupervisorsAndRetry
<1>6. CoordOwned /\ Journalled
  BY <1>2, <1>3, <1>4, <1>5 DEF CoordOwned, Journalled, Owns, Arming
<1>7. ProcessesTyped /\ BuilderFirst /\ Armed
  BY <1>2, <1>3, <1>4, <1>5 DEF ProcessesTyped, BuilderFirst, Armed
<1>8. Progress /\ ManifestLast /\ Gated
  BY <1>3, <1>4 DEF Progress, ManifestLast, Gated
<1> QED
  BY <1>1, <1>4, <1>6, <1>7, <1>8 DEF IInv

----------------------------------------------------------------------------
(***************************************************************************)
(* What others changed.                                                    *)
(***************************************************************************)

\* c is about to unlink f, or has nothing against unlinking the manifest.
Unlinks(c, f) == cleaner[c].pc = "files" /\ f \in cleaner[c].matched
Proceeds(c) == cleaner[c].pc = "files" /\ ~cleaner[c].failed

\* Nobody sets out to delete what is changed, and nobody else deletes it.
LEMMA CautiousStays ==
  ASSUME \A c \in Cleaner, f \in File : Unlinks(c, f)' => Unlinks(c, f) \/ capsule.tree[f] # "changed",
         \A c \in Cleaner : Proceeds(c)' => Proceeds(c) \/ capsule.manifest # "changed",
         \A f \in File : capsule.tree[f] = "changed" =>
           capsule'.tree[f] = "changed" \/ \E c \in Cleaner : Unlinks(c, f),
         capsule.manifest = "changed" =>
           capsule'.manifest = "changed" \/ \E c \in Cleaner : Proceeds(c)
  PROVE  StaysForeign
<1>1. ASSUME NEW f \in File, Foreign(f) PROVE Foreign(f)'
  <2>1. capsule.tree[f] = "changed" /\ \A c \in Cleaner : ~Unlinks(c, f)
    BY <1>1 DEF Foreign, Cleaning, Unlinks
  <2>2. capsule'.tree[f] = "changed" /\ \A c \in Cleaner : ~Unlinks(c, f)'
    BY <2>1
  <2> QED
    BY <2>2 DEF Foreign, Cleaning, Unlinks
<1>2. ASSUME ForeignManifest PROVE ForeignManifest'
  <2>1. capsule.manifest = "changed" /\ \A c \in Cleaner : ~Proceeds(c)
    BY <1>2 DEF ForeignManifest, Cleaning, Proceeds
  <2>2. capsule'.manifest = "changed" /\ \A c \in Cleaner : ~Proceeds(c)'
    BY <2>1
  <2> QED
    BY <2>2 DEF ForeignManifest, Cleaning, Proceeds
<1> QED
  BY <1>1, <1>2 DEF StaysForeign

\* A step that leaves the capsule alone and begins no deletion.
LEMMA QuietStays ==
  ASSUME capsule' = capsule,
         \A c \in Cleaner : cleaner'[c] = cleaner[c] \/ cleaner'[c].pc # "files"
  PROVE  StaysForeign
<1>1. \A c \in Cleaner, f \in File : Unlinks(c, f)' => Unlinks(c, f)
  BY DEF Unlinks
<1>2. \A c \in Cleaner : Proceeds(c)' => Proceeds(c)
  BY DEF Proceeds
<1> QED
  BY <1>1, <1>2, CautiousStays

\* A move of a cleaner that leaves the capsule alone.
LEMMA MoveIsQuiet ==
  ASSUME IInv, NEW c \in Cleaner, NEW from, NEW to \in CleanerPc \ {"files"}, CleanerMoves(c, from, to),
         capsule' = capsule
  PROVE  StaysForeign
BY CleanerFrame, QuietStays DEF IInv

\* The cleanup begins while nothing is changed.
LEMMA BeginStays ==
  ASSUME IInv, NEW c \in Cleaner, NEW missing \in BOOLEAN, capsule' = capsule, SubsetIsSafe,
         cleaner' = [cleaner EXCEPT ![c] = Begin(c, missing)]
  PROVE  StaysForeign
<1>1. cleaner'[c].matched = {} /\ \A d \in Cleaner \ {c} : cleaner'[d] = cleaner[d]
  BY DEF IInv, ProcessesTyped, Begin
<1>2. \A d \in Cleaner, f \in File : Unlinks(d, f)' => Unlinks(d, f)
  BY <1>1 DEF Unlinks
<1>3. capsule.manifest # "changed"
  BY DEF SubsetIsSafe
<1> QED
  BY <1>2, <1>3, CautiousStays

\* A run deletes nothing.
LEMMA RunStays == ASSUME IInv, NEW p \in Run, RunStep(p) PROVE StaysForeign
<1>1. /\ capsule' = capsule
      /\ \/ cleaner' = cleaner
         \/ cleaner' = [cleaner EXCEPT ![p] = [cleaner[p] EXCEPT !.pc = "waiting"]]
  BY DEF RunStep, Load, Execute, MakeCoord, WriteJournal, StartSupervisor, Disarm, Finish
<1>2. p \in Cleaner
  BY CleanersAreSupervisorsAndRetry
<1>3. \A c \in Cleaner : cleaner'[c] = cleaner[c] \/ cleaner'[c].pc # "files"
  BY <1>1, <1>2 DEF IInv, ProcessesTyped, CleanerRecord
<1> QED
  BY <1>1, <1>3, QuietStays

\* A comparison takes in hand what is as recorded; an unlink, what is in hand.
LEMMA FileStays ==
  ASSUME IInv, NEW c \in Cleaner, NEW f \in File, CompareFile(c, f) \/ DeleteFile(c, f)
  PROVE  StaysForeign
<1>1. cleaner[c].pc = "files" /\ cleaner[c].files \ {f} \in SUBSET File /\ cleaner[c].matched \in SUBSET File
  BY DEF CompareFile, DeleteFile, Cleaning, IInv, ProcessesTyped, CleanerRecord
<1>2. ASSUME NEW rest \in SUBSET File, Visited(c, rest) \/ Fails(c, rest)
      PROVE  /\ \A d \in Cleaner, g \in File : Unlinks(d, g)' => Unlinks(d, g)
             /\ \A d \in Cleaner : Proceeds(d)' => Proceeds(d)
  <2>1. /\ cleaner'[c].matched = {} /\ (cleaner[c].failed => cleaner'[c].failed)
        /\ \A d \in Cleaner \ {c} : cleaner'[d] = cleaner[d]
    BY <1>1, <1>2, FileFrame
  <2> QED
    BY <1>1, <2>1 DEF Unlinks, Proceeds
<1>3. CASE CompareFile(c, f)
  <2>1. CASE capsule.tree[f] = "good" /\ Matches(c, f)
    <3>1. /\ cleaner'[c].matched = {f} /\ cleaner'[c].failed = cleaner[c].failed
          /\ \A d \in Cleaner \ {c} : cleaner'[d] = cleaner[d]
      BY <2>1 DEF IInv, ProcessesTyped, CleanerRecord, Matches
    <3>2. \A d \in Cleaner, g \in File : Unlinks(d, g)' => Unlinks(d, g) \/ capsule.tree[g] # "changed"
      BY <2>1, <3>1 DEF Unlinks
    <3>3. \A d \in Cleaner : Proceeds(d)' => Proceeds(d)
      BY <1>1, <3>1 DEF Proceeds
    <3> QED
      BY <1>3, <3>2, <3>3, CautiousStays DEF CompareFile
  <2>2. ASSUME NEW rest \in {cleaner[c].files \ {f}, {}}, Visited(c, rest) \/ Fails(c, rest)
        PROVE  StaysForeign
    BY <1>1, <1>2, <1>3, <2>2, CautiousStays DEF CompareFile
  <2> QED
    BY <1>3, <2>1, <2>2 DEF CompareFile
<1>4. CASE DeleteFile(c, f)
  <2>1. Unlinks(c, f)
    BY <1>4 DEF DeleteFile, Cleaning, Unlinks
  <2>2. /\ \A d \in Cleaner, g \in File : Unlinks(d, g)' => Unlinks(d, g)
        /\ \A d \in Cleaner : Proceeds(d)' => Proceeds(d)
    BY <1>1, <1>2, <1>4 DEF DeleteFile
  <2>3. /\ capsule'.manifest = capsule.manifest
        /\ \A g \in File \ {f} : capsule'.tree[g] = capsule.tree[g]
    BY <1>4 DEF DeleteFile, IInv, CapsuleTyped
  <2> QED
    BY <2>1, <2>2, <2>3, CautiousStays
<1> QED
  BY <1>3, <1>4

\* The manifest goes with a cleaner that has met no failure.
LEMMA TreeStays ==
  ASSUME IInv, NEW c \in Cleaner,
         RemoveManifest(c) \/ RemoveRoot(c) \/ \E d \in Dir : RemoveDirectory(c, d)
  PROVE  StaysForeign
<1>1. CASE RemoveManifest(c)
  <2>1. CASE capsule' = capsule
    <3>1. PICK to \in {"finish", "root"} : CleanerMoves(c, "files", to)
      BY <1>1 DEF RemoveManifest
    <3> QED
      BY <2>1, <3>1, MoveIsQuiet DEF CleanerPc
  <2>2. CASE ~cleaner[c].failed /\ CleanerMoves(c, "files", "root") /\ capsule'.tree = capsule.tree
    <3>1. /\ cleaner[c].pc = "files" /\ cleaner'[c].pc = "root"
          /\ \A d \in Cleaner \ {c} : cleaner'[d] = cleaner[d]
      BY <2>2, CleanerFrame DEF IInv, CleanerPc
    <3>2. /\ \A d \in Cleaner, f \in File : Unlinks(d, f)' => Unlinks(d, f)
          /\ \A d \in Cleaner : Proceeds(d)' => Proceeds(d)
          /\ Proceeds(c)
      BY <2>2, <3>1 DEF Unlinks, Proceeds
    <3> QED
      BY <2>2, <3>2, CautiousStays
  <2>3. [capsule EXCEPT !.manifest = "absent"].tree = capsule.tree
    BY DEF IInv, CapsuleTyped
  <2> QED
    BY <1>1, <2>1, <2>2, <2>3 DEF RemoveManifest
<1>2. CASE RemoveRoot(c)
  <2>1. capsule'.tree = capsule.tree /\ capsule'.manifest = capsule.manifest
    BY <1>2 DEF RemoveRoot, IInv, CapsuleTyped
  <2>2. cleaner'[c].pc = "finish" /\ \A d \in Cleaner \ {c} : cleaner'[d] = cleaner[d]
    BY <1>2, CleanerFrame DEF RemoveRoot, IInv, CleanerPc
  <2>3. /\ \A d \in Cleaner, f \in File : Unlinks(d, f)' => Unlinks(d, f)
        /\ \A d \in Cleaner : Proceeds(d)' => Proceeds(d)
    BY <2>2 DEF Unlinks, Proceeds
  <2> QED
    BY <2>1, <2>3, CautiousStays
<1>3. ASSUME NEW d \in Dir, RemoveDirectory(c, d) PROVE StaysForeign
  <2>1. /\ capsule'.tree = capsule.tree /\ capsule'.manifest = capsule.manifest
        /\ cleaner[c].pc = "files"
    BY <1>3 DEF RemoveDirectory, Cleaning, IInv, CapsuleTyped
  <2>2. /\ cleaner'[c].matched = cleaner[c].matched /\ (cleaner[c].failed => cleaner'[c].failed)
        /\ \A e \in Cleaner \ {c} : cleaner'[e] = cleaner[e]
    <3>1. PICK removed \in BOOLEAN :
            cleaner' = [cleaner EXCEPT ![c] =
              [cleaner[c] EXCEPT !.dirs = @ \ {d}, !.failed = @ \/ (d \in capsule.dirs /\ ~removed)]]
      BY <1>3 DEF RemoveDirectory
    <3> QED
      BY <3>1 DEF IInv, ProcessesTyped, CleanerRecord
  <2>3. /\ \A e \in Cleaner, f \in File : Unlinks(e, f)' => Unlinks(e, f)
        /\ \A e \in Cleaner : Proceeds(e)' => Proceeds(e)
    BY <2>1, <2>2 DEF Unlinks, Proceeds
  <2> QED
    BY <2>1, <2>3, CautiousStays
<1> QED
  BY <1>1, <1>2, <1>3

\* Every step of a deletion.
LEMMA CleanupStays == ASSUME IInv, NEW c \in Cleaner, Cleanup(c) PROVE StaysForeign
BY FileStays, TreeStays DEF Cleanup

\* Every step of a supervisor.
LEMMA SupervisorStays == ASSUME IInv, NEW p \in Run, SupervisorStep(p) PROVE StaysForeign
<1>1. p \in Cleaner
  BY CleanersAreSupervisorsAndRetry
<1>2. CASE VerifyAgain(p)
  <2>1. CASE Exact /\ capsule' = capsule /\ cleaner' = [cleaner EXCEPT ![p] = Begin(p, FALSE)]
    BY <1>1, <2>1, BeginStays DEF Exact
  <2>2. CASE OnlyMoves(p, "verify_again", "failed")
    BY <1>1, <2>2, MoveIsQuiet DEF OnlyMoves, CleanerPc, CleanerEnd
  <2> QED
    BY <1>2, <2>1, <2>2 DEF VerifyAgain
<1>3. CASE Wake(p) \/ LoadJournal(p) \/ Verify(p) \/ Completed(p) \/ CheckCoord(p)
  <2>1. PICK from \in CleanerPc, to \in CleanerPc \ {"files"} : OnlyMoves(p, from, to)
    BY <1>3 DEF Wake, LoadJournal, Verify, Completed, CheckCoord, CleanerPc, CleanerEnd
  <2> QED
    BY <1>1, <2>1, MoveIsQuiet DEF OnlyMoves
<1>4. CASE UnlinkJournal(p) \/ RemoveCoord(p) \/ RestoreJournal(p)
  <2>1. PICK from \in CleanerPc, to \in CleanerPc \ {"files"} : CleanerMoves(p, from, to)
    BY <1>4 DEF UnlinkJournal, RemoveCoord, RestoreJournal, CleanerPc, CleanerEnd
  <2>2. capsule' = capsule
    BY <1>4 DEF UnlinkJournal, RemoveCoord, RestoreJournal
  <2> QED
    BY <1>1, <2>1, <2>2, MoveIsQuiet
<1> QED
  BY <1>1, <1>2, <1>3, <1>4, CleanupStays DEF SupervisorStep

\* Every step of a retry.
LEMMA RetryStays == ASSUME IInv, RetryStep PROVE StaysForeign
<1>1. Retry \in Cleaner
  BY CleanersAreSupervisorsAndRetry
<1>2. CASE StartRetry
  BY <1>1, <1>2, BeginStays DEF StartRetry
<1>3. ASSUME NEW to \in {"failed", "done"}, OnlyMoves(Retry, "finish", to) PROVE StaysForeign
  BY <1>1, <1>3, MoveIsQuiet DEF OnlyMoves, CleanerPc, CleanerEnd
<1> QED
  BY <1>1, <1>2, <1>3, CleanupStays DEF RetryStep

\* Every step keeps what others changed, unless it is in a window.
LEMMA AnyStepStays == ASSUME IInv, [Next]_lvars PROVE StaysForeign
<1>1. CASE Builder
  BY <1>1 DEF Builder, MakeRoot, WriteManifest, RemovePartial, CopyFile, MakeDirectory, Builds,
     BuildFails, StaysForeign
<1>2. CASE Edit
  <2>1. cleaner' = cleaner
    BY <1>2 DEF Edit
  <2>2. /\ \A f \in File : capsule.tree[f] = "changed" => capsule'.tree[f] = "changed"
        /\ capsule.manifest = "changed" => capsule'.manifest = "changed"
    BY <1>2 DEF Edit, IInv, CapsuleTyped
  <2>3. /\ \A c \in Cleaner, f \in File : Unlinks(c, f)' => Unlinks(c, f)
        /\ \A c \in Cleaner : Proceeds(c)' => Proceeds(c)
    BY <2>1 DEF Unlinks, Proceeds
  <2> QED
    BY <2>2, <2>3, CautiousStays
<1>3. CASE Kill
  <2>1. \A c \in Cleaner : cleaner'[c] = cleaner[c] \/ cleaner'[c].pc # "files"
    BY <1>3 DEF Kill, IInv, ProcessesTyped, CleanerRecord
  <2> QED
    BY <1>3, <2>1, QuietStays DEF Kill
<1>4. CASE UNCHANGED lvars
  BY <1>4, QuietStays DEF lvars
<1> QED
  BY <1>1, <1>2, <1>3, <1>4, RunStays, SupervisorStays, RetryStays DEF Next

----------------------------------------------------------------------------
(***************************************************************************)
(* What follows.                                                           *)
(***************************************************************************)

\* In every state of every behaviour, for any tree, runs and trouble.
THEOREM CapsuleInvariant == Spec => []IInv
BY InitIsInvariant, AnyStep, PTL DEF Spec

\* Whatever exists lies in a directory that exists, and a journal in the
\* coordination directory.
THEOREM CapsuleTypeCorrect == Spec => []TypeOK
<1>1. ASSUME IInv PROVE TypeOK
  <2>1. /\ capsule \in [root : BOOLEAN, tree : [File -> Content], dirs : SUBSET Dir,
                        manifest : Content, extra : SUBSET (Dir \cup {Root})]
        /\ \A f \in File : capsule.tree[f] # "absent" => Home[f] \in Places
        /\ {Home[d] : d \in capsule.dirs} \cup capsule.extra \subseteq Places
    BY <1>1 DEF IInv, CapsuleTyped
  <2>2. /\ coord \in [dir : BOOLEAN, journal : BOOLEAN, extra : BOOLEAN]
        /\ coord.journal => coord.dir
    BY <1>1 DEF IInv, CoordTyped
  <2>3. /\ run \in [Run -> [pc : RunPc, ok : BOOLEAN]]
        /\ \A c \in Cleaner : cleaner[c].pc \in CleanerPc
    BY <1>1 DEF IInv, ProcessesTyped, CleanerRecord
  <2> QED
    BY <2>1, <2>2, <2>3 DEF TypeOK
<1> QED
  BY <1>1, CapsuleInvariant, PTL

\* What others change or add stays, with two exceptions: a file changed between
\* its comparison and its unlink, and a manifest changed after the verification
\* that the deletion began with.  For any tree, any runs and any trouble.
THEOREM ForeignEntriesAreKept == Spec => ForeignKept
<1>1. IInv /\ [Next]_lvars =>
        [builder = "built" =>
           /\ \A f \in File : Foreign(f) => Foreign(f)'
           /\ ForeignManifest => ForeignManifest'
           /\ capsule.extra \subseteq capsule'.extra
           /\ capsule.extra # {} => capsule'.root]_lvars
  BY AnyStep, AnyStepStays DEF Keeps, StaysForeign
<1> QED
  BY <1>1, CapsuleInvariant, PTL DEF Spec, ForeignKept

\* A capsule is complete until an armed run has succeeded and ended.
THEOREM OnlySuccessDeletes == Spec => []SuccessGatesDeletion
<1>1. IInv => SuccessGatesDeletion
  BY DEF IInv, Gated, Awake, Whole, SuccessGatesDeletion
<1> QED
  BY <1>1, CapsuleInvariant, PTL

\* What is left of a capsule has its manifest, and a capsule whose cleanup
\* was ever started has its journal.
THEOREM EvidenceIsKept == Spec => []EvidenceOutlivesCapsule
<1>1. IInv => EvidenceOutlivesCapsule
  BY DEF IInv, ManifestLast, Empty, Journalled, EvidenceOutlivesCapsule
<1> QED
  BY <1>1, CapsuleInvariant, PTL
===============================================================================

---------------------------- MODULE CapsulePackage ----------------------------
(***************************************************************************)
(* The disposable capsule on disk (capsule_package.py): a directory with   *)
(* files, their directories and a manifest that enumerates both.  It is    *)
(* built file by file with the manifest last, verified against the         *)
(* manifest, and deleted item by item with the manifest last again.        *)
(*                                                                         *)
(* A file is as the manifest records it ("good"), has other content        *)
(* ("changed"), or is absent.  Whatever else lies in the tree, a .git or a *)
(* link included, is an extra entry of the directory it lies in.  Several  *)
(* processes may delete; each keeps what it has yet to visit.              *)
(***************************************************************************)
EXTENDS Naturals, FiniteSets

CONSTANTS File,       \* the files the manifest lists, the entry included
          Dir,        \* and their directories
          Root,
          Home,       \* the directory in which a file or a directory lies
          Cleaner,    \* processes that may delete the capsule
          MaxFaults, MaxEdits, MaxKills  \* bounds on what goes wrong

ASSUME TreeIsATree ==
  /\ Root \notin Dir /\ File \cap (Dir \cup {Root}) = {}
  /\ Home \in [File \cup Dir -> Dir \cup {Root}]
  /\ \A d \in Dir : Home[d] # d

VARIABLES capsule,  \* the capsule's tree
          coord,    \* the directory next to it with the cleanup journal
          builder,  \* build_capsule_package
          cleaner,  \* the processes that clean up
          budget    \* faults, edits and kills left

Content == {"absent", "good", "changed"}

\* The directories that exist.
Places == IF capsule.root THEN capsule.dirs \cup {Root} ELSE {}
IsEmpty(d) ==
  /\ \A f \in File : Home[f] = d => capsule.tree[f] = "absent"
  /\ \A e \in capsule.dirs : Home[e] # d
  /\ d \notin capsule.extra
  /\ d = Root => capsule.manifest = "absent"

Fault == budget.faults > 0 /\ budget' = [budget EXCEPT !.faults = @ - 1]
Smooth == UNCHANGED budget

\* _owned_capsule_subset_is_safe and _require_exact_capsule_tree
SubsetIsSafe ==
  /\ capsule.manifest # "changed" /\ capsule.extra = {}
  /\ \A f \in File : capsule.tree[f] # "changed"

Exact ==
  /\ capsule.root /\ SubsetIsSafe
  /\ capsule.manifest = "good" /\ capsule.dirs = Dir
  /\ \A f \in File : capsule.tree[f] = "good"

----------------------------------------------------------------------------
(***************************************************************************)
(* build_capsule_package.  What fails or is killed before the manifest is  *)
(* written is no capsule.                                                  *)
(***************************************************************************)

Builds(from, to) == builder = from /\ builder' = to
BuildFails == Builds("copying", "removing") /\ Fault
NoCleanup == UNCHANGED <<coord, cleaner>>

\* The destination must not exist yet.
MakeRoot ==
  /\ NoCleanup
  /\ \/ Builds("mkdir", "copying") /\ Smooth /\ capsule' = [capsule EXCEPT !.root = TRUE]
     \/ Builds("mkdir", "abandoned") /\ Fault /\ UNCHANGED capsule

CopyFile(f) ==
  /\ capsule.tree[f] = "absent" /\ Home[f] \in Places /\ NoCleanup
  /\ \/ /\ Builds("copying", "copying") /\ Smooth
        /\ capsule' = [capsule EXCEPT !.tree[f] = "good"]
     \/ BuildFails /\ \E left \in {"absent", "changed"} :
                        capsule' = [capsule EXCEPT !.tree[f] = left]

\* _create_directories
MakeDirectory(d) ==
  /\ d \notin capsule.dirs /\ Home[d] \in Places
  /\ Builds("copying", "copying") /\ Smooth
  /\ capsule' = [capsule EXCEPT !.dirs = @ \cup {d}]
  /\ NoCleanup

WriteManifest ==
  /\ \A f \in File : capsule.tree[f] = "good"
  /\ capsule.dirs = Dir /\ NoCleanup
  /\ \/ /\ Builds("copying", "built") /\ Smooth
        /\ capsule' = [capsule EXCEPT !.manifest = "good"]
     \/ BuildFails /\ \E left \in {"absent", "changed"} :
                        capsule' = [capsule EXCEPT !.manifest = left]

\* _remove_partial_capsule: what cannot be removed stays, with all it lies in.
RemovePartial ==
  /\ Builds("removing", "abandoned") /\ NoCleanup /\ Smooth
  /\ \E stuck \in SUBSET {f \in File : capsule.tree[f] # "absent"}, dirs \in SUBSET capsule.dirs,
        manifest \in {"absent", capsule.manifest}, root \in BOOLEAN :
       /\ {Home[e] : e \in stuck \cup dirs} \subseteq dirs \cup {Root}
       /\ ~root => stuck \cup dirs = {} /\ manifest = "absent"
       /\ capsule' = [capsule EXCEPT !.root = root, !.dirs = dirs, !.manifest = manifest,
                        !.tree = [f \in File |-> IF f \in stuck THEN @[f] ELSE "absent"]]

Builder ==
  \/ MakeRoot \/ WriteManifest \/ RemovePartial
  \/ \E f \in File : CopyFile(f)
  \/ \E d \in Dir : MakeDirectory(d)

----------------------------------------------------------------------------
(***************************************************************************)
(* _cleanup_capsule.  A file is compared, and unlinked by name in a step   *)
(* of its own; "matched" holds the one that was found as recorded.         *)
(***************************************************************************)

Cleaning(c, label) == cleaner[c].pc = label
CleanerMoves(c, from, to) ==
  /\ cleaner[c].pc = from
  /\ cleaner' = [cleaner EXCEPT ![c] = [cleaner[c] EXCEPT !.pc = to]]
Visited(c, rest) ==
  cleaner' = [cleaner EXCEPT ![c] = [cleaner[c] EXCEPT !.files = rest, !.matched = {}]]
Fails(c, rest) ==
  cleaner' = [cleaner EXCEPT ![c] =
    [cleaner[c] EXCEPT !.files = rest, !.matched = {}, !.failed = TRUE]]
Matches(c, f) == cleaner' = [cleaner EXCEPT ![c] = [cleaner[c] EXCEPT !.matched = {f}]]
OnCapsule == UNCHANGED <<coord, builder>>

Begin(c, missing) ==
  [pc |-> "files", files |-> File, matched |-> {}, dirs |-> Dir,
   missing |-> missing, failed |-> FALSE]

\* A mutant of CompareFile: what exists is taken for what was verified.
CompareFileUnread(c, f) ==
  /\ Cleaning(c, "files") /\ cleaner[c].matched = {} /\ f \in cleaner[c].files
  /\ OnCapsule /\ UNCHANGED capsule /\ Smooth
  /\ IF capsule.tree[f] = "absent" THEN Visited(c, cleaner[c].files \ {f}) ELSE Matches(c, f)

\* A changed file ends the loop; one that is missing or cannot be read does not.
CompareFile(c, f) ==
  /\ Cleaning(c, "files") /\ cleaner[c].matched = {} /\ f \in cleaner[c].files
  /\ OnCapsule /\ UNCHANGED capsule
  /\ LET rest == cleaner[c].files \ {f} IN
     \/ capsule.tree[f] = "good" /\ Smooth /\ Matches(c, f)
     \/ capsule.tree[f] = "changed" /\ Smooth /\ Fails(c, {})
     \/ capsule.tree[f] # "absent" /\ Fault /\ Fails(c, rest)
     \/ /\ capsule.tree[f] = "absent" /\ Smooth
        /\ IF cleaner[c].missing THEN Visited(c, rest) ELSE Fails(c, rest)

\* delete_file: whatever has that name by now.
DeleteFile(c, f) ==
  /\ Cleaning(c, "files") /\ f \in cleaner[c].matched
  /\ OnCapsule
  /\ LET rest == cleaner[c].files \ {f} IN
     \/ /\ capsule.tree[f] # "absent" /\ Smooth
        /\ capsule' = [capsule EXCEPT !.tree[f] = "absent"] /\ Visited(c, rest)
     \/ /\ IF capsule.tree[f] = "absent" THEN Smooth ELSE Fault
        /\ UNCHANGED capsule /\ Fails(c, rest)

\* A mutant of Deepest: parents first.
Topmost(c) == {d \in cleaner[c].dirs : Home[d] \notin cleaner[c].dirs}

Deepest(c) == {d \in cleaner[c].dirs : \A e \in cleaner[c].dirs : Home[e] # d}

\* A mutant of RemoveDirectory: with whatever others put into it.
RemoveDirectoryTree(c, d) ==
  /\ Cleaning(c, "files") /\ cleaner[c].files = {} /\ d \in Deepest(c)
  /\ OnCapsule /\ Smooth
  /\ cleaner' = [cleaner EXCEPT ![c] = [cleaner[c] EXCEPT !.dirs = @ \ {d}]]
  /\ capsule' = [capsule EXCEPT !.dirs = @ \ {d}]

\* rmdir succeeds on an empty directory only.
RemoveDirectory(c, d) ==
  /\ Cleaning(c, "files") /\ cleaner[c].files = {} /\ d \in Deepest(c)
  /\ OnCapsule
  /\ \E removed \in BOOLEAN :
       /\ removed => d \in capsule.dirs /\ IsEmpty(d)
       /\ IF removed \/ d \notin capsule.dirs \/ ~IsEmpty(d) THEN Smooth ELSE Fault
       /\ capsule' = [capsule EXCEPT !.dirs = IF removed THEN @ \ {d} ELSE @]
       /\ cleaner' = [cleaner EXCEPT ![c] =
            [cleaner[c] EXCEPT !.dirs = @ \ {d}, !.failed = @ \/ (d \in capsule.dirs /\ ~removed)]]

\* The manifest is not compared again.
RemoveManifest(c) ==
  /\ Cleaning(c, "files") /\ cleaner[c].files = {} /\ cleaner[c].dirs = {}
  /\ OnCapsule
  /\ \/ /\ cleaner[c].failed /\ Smooth /\ UNCHANGED capsule
        /\ CleanerMoves(c, "files", "finish")
     \/ /\ ~cleaner[c].failed /\ Smooth /\ CleanerMoves(c, "files", "root")
        /\ capsule' = [capsule EXCEPT !.manifest = "absent"]
     \/ /\ ~cleaner[c].failed /\ capsule.manifest # "absent" /\ Fault /\ UNCHANGED capsule
        /\ CleanerMoves(c, "files", "finish")

RemoveRoot(c) ==
  /\ CleanerMoves(c, "root", "finish")
  /\ OnCapsule
  /\ \/ /\ capsule.root /\ IsEmpty(Root) /\ Smooth
        /\ capsule' = [capsule EXCEPT !.root = FALSE]
     \/ UNCHANGED capsule /\ IF capsule.root /\ IsEmpty(Root) THEN Fault ELSE Smooth

Cleanup(c) ==
  \/ \E f \in File : CompareFile(c, f) \/ DeleteFile(c, f)
  \/ \E d \in Dir : RemoveDirectory(c, d)
  \/ RemoveManifest(c) \/ RemoveRoot(c)
=============================================================================

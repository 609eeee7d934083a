# A TLA+ model of scaffold-compiler

scaffold-compiler turns a user's answers into a project directory. It builds a
candidate tree, validates it, seals a snapshot, moves the snapshot to the
target with a rename that never replaces, and cleans up. What makes it hard is
not the text it produces but that the whole journey must survive killed
processes, failing file-system calls, people who edit files meanwhile, and
recovery commands started at any moment, without ever losing or destroying a
project. This directory models that journey, checks it with TLC and proves
parts of it with TLAPS.

All paths below are relative to the repository; modules of the program are in
`src/scaffold_compiler/`.

## The system

| part | state it keeps | operations | hard behaviour |
|---|---|---|---|
| session state machine (`session_state_store.py`) | `session.json`: state, failure stage, revision, four digests | 24 events, save, load | long event sequences; retry and reconfigure from any point |
| generation workflow (`generation_workflow.py`) | the run's place between its saves | one transaction of about 30 effects | every effect may fail, the process may die between any two |
| finalization (`finalization.py`, `finalize_transaction.py`) | `.commit-<run>` snapshot, target directory | seal, publish, verify, classify, delete the candidate | races with other creators of the target, changed bytes |
| recovery commands (`cleanup_recovery.py`, `failed_workspace_recovery.py`) | none of their own | cleanup, discard, inspect | started while a run is alive; interrupted and repeated |
| target lock (`target_lock.py`) | `.<target>.scaffold.lock` | acquire, release, recover_stale | time between compare and unlink; dead owners |
| validation workspace (`validation_workspace.py`) | `validation-env` and its marker | prepare, preflight, delete | partial deletion |
| evidence stores (`candidate_ownership_store.py`, `validation_report_store.py`) | two JSON files | save, load | strictness of what is accepted again |
| candidate assembler (`candidate_project_assembler.py`) | `candidate/` | assemble, digest, remove | partial trees |
| controlled process (`validation.py`) | one child process, its pipes | run, drain, kill the tree | timeout against exit against output limit |
| docker lifecycle (`docker_validation_*.py`) | labelled containers, networks, volumes | create, poll, restart, clean | partial creation, failing removal |
| validation executors and adapters | none | sequence the checks of one stack | cut-offs after a failed check |
| blueprint catalog, plan compiler | the loaded catalog | closure, conflicts, order | pure algorithm |
| recipes and their registrations (`trusted_recipe_registration.py`, the registries, the bundled declarations) | six registries, compiled once | compile, look up | five registries checked one after the other; tables maintained apart that have to fit |
| project configuration (`recipe_project_configuration.py`, `project_configuration.py`) | none | parse both schemas, normalize, migrate | what was accepted once is read again later, from elsewhere |
| interactive dialog (`interactive_configuration.py`) | the answers, a temporary file, the configuration file | ask, parse, publish without replacing | two dialogs for one file, failing calls, kills |
| capsule package, release entry (`capsule_package.py`, `release_entry.py`) | the capsule, its manifest, a cleanup journal next to it | build, verify, arm, supervise, delete, retry | self deletion, several runs of one capsule, a kill half-way |
| command line, application services (`project_command_application.py`) | none | init, preview, run; inspect, discard, cleanup | every command reads file, catalog and disk anew; recovery commands take no lock |

The parts interact through the disk alone: a run and a recovery command share
no memory and no lock. `session.json` is the journal; the candidate ownership
record and the validation report are the evidence that a later command demands
before it deletes anything; the lock file separates generation processes from
each other, and only from each other.

What makes each part correct:

- the record: each state has the inputs it needs, no verification survives a
  change of what it verified, and the sequence of states implements the
  abstract commit protocol (verify, freeze, commit once, never reopen);
- the transaction: `COMMITTED` on disk means the target holds the project; a
  failed or cancelled run has published nothing; the project's bytes always
  exist somewhere; nothing of others is replaced or deleted;
- the commands: they accept only what they can finish, they leave an ambiguous
  run alone, and what they interrupt can be taken up again (this one is not
  true of the code, see the findings);
- the lock: one holder per target; nobody unlinks a live owner's lock;
- the way to a run: registrations compile exactly when every recipe would find
  its own components; a dialog replaces nothing, and says what it did; what it
  publishes is read again as what it validated; what the parser accepts has a
  plan whose gates somebody can report;
- the capsule: it goes only after a success has ended, takes nothing of others
  along that was there when it looked, leaves the evidence for the rest when it cannot go on, and does go.

## The modules

| module | models | state and actions |
|---|---|---|
| `SessionMachine` | the pure part of `session_state_store.py` | no variables: tables of transitions, the record each event returns |
| `CommitProtocol` | the abstract specification of a generation's lifecycle | `phase`, `verified`, `frozen`; verify, invalidate, confirm, roll back, observe, finish, abandon, lose track |
| `SessionLifecycle` | one record under every legal event | `session` is the record; one action per branch of `_apply_transition`; `attested` observes what the last verification was issued for |
| `SessionLifecycleProofs` | proofs about it | |
| `GenerationDisk` | what a run leaves on disk, and the steps the run and the commands share | `disk`: workspace, record, candidate, evidence, environment, snapshot, target, lock; `proc`: program counter and memory of both processes; `faults`: budgets |
| `GenerationRun` | `execute_generation_transaction` and what it calls | one action per effect; a label of `pc` is the effect that comes next |
| `RecoveryCommands` | cleanup, discard, finalize recovery | preflight predicates (`CleanupAccepts`, `DiscardAccepts`, `PublishFacts`), one action per effect |
| `ScaffoldSystem` | the composition, with an environment | kills, edits by others, a foreign target |
| `ScaffoldSystemProofs` | proofs about the composition | |
| `TargetLock` | `target_lock.py` between processes | the lock file, each run, each recoverer; one action per file-system call |
| `TargetLockProofs` | proofs about it | |
| `ControlledProcess` | `run_controlled_process` and its helpers in `validation.py` | `call`: the caller's place; `reader`: the two threads; `os`, `written`: the command's processes, pipes and output; one action per blocking call, and the ways a command behaves |
| `ControlledProcessProofs` | proofs about it | |
| `DockerValidation` | `docker_validation_lifecycle.py` | `val`: the lifecycle's place and the checks so far; `daemon`: what exists under the run's names; one action per docker command, with its failure, its timeout and an exception |
| `ValidationExecution` | `execute_v1_validation` around `DockerValidation`, `execute_go_validation`, `execute_cmake_validation`, `execute_project_validation` | scan, install, gates one by one, delivery; or a chain of commands; acceptance of the report. Extends `DockerValidation` and adds no variable |
| `ValidationExecutionProofs` | proofs about both | |
| `ValidationExecutionMC` | the gates the bundled blueprints require | |
| `PlanCompiler` | `blueprint_plan_compiler.py` | one action per pass; the closure advances by a capability, the order by a blueprint. What a plan is, is said again without an algorithm |
| `PlanCompilerProofs` | proofs about it | |
| `RecipeRegistration` | `trusted_recipe_registration.py`, the recipe registry and the adapter registries | no variables: the checks of the compilation, the lookups, and apart from them what the compiled registries are for |
| `ProjectConfiguration` | `recipe_project_configuration.py`, `project_configuration.py` | no variables: from a raw content to the set of its normalized configurations, empty or with one element; the canonical content |
| `InteractiveConfiguration` | `interactive_configuration.py` | `dialogs`: place and memory of each process; `file`, `world`: the output path and the rest of the disk; `left`: budgets; one action per question and per file-system call |
| `BundledRecipes` | the bundled declarations, questionnaires, adapters' gates and the catalog under `blueprints/` | no variables: tables |
| `ProjectCommands` | `project_command_application.py` | the composition of the five above: `app`: whether the registrations compiled; `command`: the preview or run under way; an environment that edits the file, makes and removes directories, changes the working directory |
| `ProjectCommandsProofs` | proofs about the composition: registrations, dialogs, plans, published files | |
| `ProjectCommandsMC` | catalogs of three blueprints, names, paths and texts, contents written by hand, pairs of registrations with crossed components | |
| `CapsulePackage` | the capsule on disk: building it, `_cleanup_capsule` | `capsule`: files, directories, manifest, extra entries; `cleaner`: what each deleting process has yet to visit, and the file it has compared and not yet unlinked; one action per comparison, unlink and rmdir |
| `CapsuleLifecycle` | `release_entry.main`, arming, the supervisor, the retry, other users, kills | `run`: the place of each run of the capsule; `coord`: the directory with the journal; one action per call |
| `CapsuleLifecycleProofs` | proofs about it | |
| `CapsuleMC` | a capsule with nested directories | |

`ControlledProcess` is what every command of `ValidationExecution` runs in; a
command of the latter ends well, fails, is cut short or raises, which are the
four ways the former ends. `ValidationExecution` in turn is the step
`Validate` of `GenerationRun`, with a report that passed, one that did not, or
an exception. `PlanCompiler` is its step `CompilePlan`. `ProjectCommands` stands
in front of `GenerationRun`: what a run does with its plan is its step
`Generate`, which publishes or does not. `CapsuleLifecycle` is
around all of it: its step `Execute` is one whole command, of which it looks at
the exit code alone.

Conventions. A digest is an opaque value, equal exactly when the digested
content is. A tree is a function from paths to `absent`, `good`, `bad` or
`edited`; a digest comparison is an equality with `GoodTree`. Every file-system
effect is an action of its own, because a kill or the other process may come
between any two. A store's write, fsync and replace count as one effect; its
temporary file matters only when a kill leaves it behind (`stray`), since it
blocks recovery. The preflight of a command only reads and is one step.
Mutated definitions, marked "A mutant of", stand before the definition they
could replace; no specification uses them.

Assumptions worth knowing. The target lock is an atomic step of `GenerationRun`
because `TargetLock` models it in detail. Nobody edits a candidate while its
files are being unlinked: between the comparison of all bytes and the last
unlink the code has no protection. `recover_finalize_transaction` is called
only after the run is over: no command calls it yet, and its caller must own
the run. Five seconds are enough for a reader thread whose pipe is closed
(`Join`); without that a join may give up on it and the stream is closed under
the reader. A `compose` command that is cut short stops at any of its stages;
others in the same daemon take names that are free and touch nothing of ours.
Gates are atomic in `ValidationExecution`, because `ControlledProcess` has
their insides. In `PlanCompiler` the reason of a refusal is left out. In
`ProjectCommands` nobody else steps while questions are asked or a plan is
compiled, since the process reads nothing of the disk then; a path stays
resolved (nobody makes a link at a path that a configuration names:
`TextsAreNormal`); texts are opaque, and which of them a pattern accepts, or
what is derived from a project name, is a constant; a JSON string "true" is not
told from the boolean; Ctrl-C is a kill, since no clause of the dialog catches
it. In `CapsulePackage` others change and add entries
but remove none; a link or a `.git` is an extra entry. `retry_capsule_cleanup`
is called by no program: the model calls it after an attempt whose run has
ended, with the `VerifiedCapsule` of that attempt.

## The runs

| run | question | size |
|---|---|---|
| `session_lifecycle` | is the record sound under every event sequence; does it implement `CommitProtocol` | 2 digests, 14 events: each event twice in one behaviour, and a failure, a retry and a reconfiguration in front of a full run; 5 438 states |
| `scaffold_system` | do run, commands and environment together keep the record honest and the data safe | 2 files (so that a tree can be partial), 2 errors, 2 kills, 2 edits; 640 558 states |
| `scaffold_liveness` | does an accepted cleanup or discard finish | 1 error, 1 kill; 33 075 states |
| `target_lock` | exclusion with a recoverer | 3 runs (one dead, one acquiring, one late), 1 recoverer; 3 632 states |
| `cleanup_retry` | can an interrupted cleanup be retried | violated: finding |
| `lock_two_recoverers` | exclusion with two recoverers | violated: finding |
| `controlled_process` | is the output accounted for, does a timeout kill the group, does the call end | 1 descendant (to stay in the group or leave it), 4 bytes per stream against a limit of 1, a margin of 2 and chunks of 2, so that the first chunk straddles the limit and the second the limit with the margin; 969 428 states |
| `controlled_return` | does every call end | violated: finding |
| `validation_execution` | is every report complete, in order and honest about residue | 7 gate selections (5 Python, Go, CMake), any set of tools installed, 2 failing commands, 1 rival, 2 polls; 199 052 states |
| `docker_residue` | does a validation that passed leave nothing behind | violated: finding |
| `project_commands` | is the plan the least closed selection in canonical order, and refused only if impossible; do registrations compile exactly when they can be served; is a published configuration whole, reported truly and accepted again; can every accepted one be carried out | see below; 395 632 states
| `capsule_lifecycle` | does a capsule go when, and only when, it should, and alone | 2 runs with their supervisors, a retry, 2 files, 2 nested directories, 1 error, 1 edit, 1 kill; 86 527 states |

Two errors, kills and edits are enough for the interesting cases: a failure,
a second failure while its consequences are handled, a command after both. The
budgets are the bounds of `ScaffoldSystem`; `MaxRevision` bounds
`SessionLifecycle`; `MaxOutput` bounds what a command writes,
`MaxFaults` and `MaxRivals` what goes wrong around docker, `PollAttempts`
replaces 60 by 2, the first and the last attempt. `project_commands` has five
kinds of initial states (`ProjectCommandsMC`). Direct calls of the plan compiler:
1 753 catalogs of 3 blueprints, 38 calls. `Compiled`: pairs of registrations,
one of them with any of its keys, ids and gates exchanged for the other's, or
malformed in one of 10 ways. `Asked`: the bundled recipes, one dialog with
every answer from 3 names, 4 places and 2 texts per key, from 2 working
directories, then an edit or a command. `Raced`: two dialogs for one path that
is free or taken, 1 fault, 1 kill, 1 edit, 1 command. `Handwritten`: 7 contents
of both schemas, complete, incomplete and wrong, with the shipped catalog, one
that grew and one that lost a blueprint, 2 edits, 2 commands. A dialog that
needs more than one fault to go wrong has an unlink that failed, which
`OutcomeIsTrue` excepts. Three blueprints are enough
for a cycle that needs an intermediate, for a diamond's worth of shared
requirements, and for an order that `after` changes. Two runs of one capsule
are enough for a race to arm; a directory within a directory for the order of
removal. `CHECK_DEADLOCK FALSE` appears everywhere because every
behaviour may end: a finished run with nobody starting a command.

Fairness. `FairSpec` asks weak fairness of the run and of a started command:
a process that is not killed goes on, since neither waits for anything. Nothing
is asked of the user or of the environment. `AcceptedRecoveryFinishes` says
"unless something more goes wrong" by comparing what is left of the budgets.
In `ControlledProcess` the caller and the readers go on when they can, and a
process that got SIGKILL dies; the command and its descendants owe nothing.
`ReturnsOncePipesClose` is therefore conditional: on POSIX the call ends if from
some time on no descendant has a pipe open. In `CapsuleLifecycle` a started run and
an armed supervisor go on; nobody has to start a run or to retry, and
`ArmedCleanupFinishes` speaks of a cleanup with which nothing goes wrong from
the moment it is armed.

## What is proved

`ScaffoldSystemProofs`, for any set of files and any budgets of errors, kills
and edits: type correctness, `CommittedIsPublished`, `NoLastCopyLost`,
`FailedMeansNotPublished`, and of every step `OthersDataKept`,
`AmbiguousIsPreserved` and `RecordFollowsStateMachine`. None of these is
inductive: the run and the commands share no lock, each acts on a record it
loaded earlier, and the properties say nothing of what is in memory. The
invariant `IInv` adds what keeps the two apart. While the run builds, verifies
or publishes, the record on disk is the one it has in memory, in a state that
its place determines and no command accepts (`RunIsAlone`); from
CLEANUP_PENDING on, both may write, but no record goes back before it. What
a command has loaded still holds of the disk (`CommandHolds`): a cancelled or
failed record is still there or gone with its workspace, an AMBIGUOUS one is
the disk's own. The state of any record, on disk or in somebody's memory, says
where the bytes are (`RecordTells`): published from COMMITTED on, whole in the
candidate from MATERIALIZED to AMBIGUOUS, in no target once the run is
recorded as failed. And files are unlinked one by one only where nobody has
edited them (`DeletesOwn`). Every step keeps `IInv` and is a `StepOK`, a
statement of what a step may do to the record, the candidate, the snapshot and
the target, from which the action properties follow.

`CapsuleLifecycleProofs`, for any tree of files and directories, any set of
runs and any trouble: type correctness, `SuccessGatesDeletion`,
`EvidenceOutlivesCapsule` and `ForeignKept`. The strengthening says that the
coordination directory has one owner at a time, from the mkdir of a run to the
end of its supervisor (`CoordOwned`), so that nobody takes the journal away
while there is a capsule (`Journalled`); that a cleaner which has not failed
has everything that still exists yet to visit (`Progress`), although several
of them delete at once, so that the manifest and the root go last; and that
whoever deletes belongs to an armed run that succeeded and ended, or retries
after one (`Armed`). `ForeignKept` has two exceptions, as the code has: a file
changed between its comparison and its unlink, and a manifest changed after the
verification that the deletion began with, are lost. Everything else that is
changed stays for good (`StaysForeign`): a comparison takes in hand what is as
recorded, an unlink hits what is in hand, a deletion begins with a manifest
that is as it was, and only a cleaner that met no failure unlinks it.

`SessionLifecycleProofs`, for every set of digests and every bound on events:
type correctness, `InputsRecorded`, `VerificationIsCurrent`, and the refinement
of `CommitProtocol`. The inductive invariant is the conjunction of the three
invariants; the refinement needs all of it, since Confirm must know that a
record about to commit carries a verification (`InputsRecorded`) for the inputs
it freezes (`VerificationIsCurrent`).

`TargetLockProofs`, for any number of runs: mutual exclusion, that unlinking
hits only an own or a dead owner's lock, and that a holder's lock stays, all
under `AtMostOneRecoverer`; type correctness without it. The strengthening
says that a process past its exclusive create has its own file in place, and
that what a recoverer established cannot become false: a dead process stays
dead, and its lock cannot be replaced without being unlinked first. The
hypothesis is needed: `lock_two_recoverers`.

`ControlledProcessProofs`, for any number of descendants, any limits, margin
and chunk size: type correctness with the bound on the buffers, `OutputAccounted`,
`ResultMeansExited` and `TimeoutKillsTheGroup`. The strengthening says how a
reader's counters hang together (what is stored is what was taken before the
chunk in hand, cut at the capture limit), that a reader that is done has taken
all there will ever be, since no writer is left, and which places of the caller
imply that the child has ended or that its group was killed.

`PlanCompilerProofs`, for any catalogs and calls: type correctness,
`PlanIsNecessaryAndSufficient`, `PlanIsCanonical` and `RefusedIffImpossible`. A plan is sufficient since what is
requested, or required by what is selected, is either pending or provided
(`Provided`), and necessary since every closed set of blueprints contains what
is selected and a provider of what is pending (`Least`). The latter is inductive
only because the providers are unique by the time the closure begins; otherwise
the compiler could pick another provider than the closed set has. A plan is
canonical since each blueprint in it is the least of those whose needs were
placed before it (`Sorted`): at the first place at which another order differs,
that order has a greater blueprint, which is the argument that a greedy choice
is the least of all orders. `TopologicalOrders` builds its orders one blueprint
at a time; `OrdersAreOrders` says which sequences come out, by the least length
at which that could fail. And what is refused is impossible: a capability that
nobody provides is in no closed set, the least closed set conflicts only if all
do, and when no blueprint is ready, the first open one of any order would be.

`ProjectCommandsProofs`, for any catalogs, calls, registrations, contents and
dialogs, in six parts. `CompiledIffServiceable`: the checks of the compilation
accept a sequence of registrations exactly when every recipe finds its own six
components and every gate has one provider. The code compares sets of keys and
the sizes of lists; the proof shows that a lookup among accepted registrations
has one result, which is the recipe's own. `OutcomeIsTrue` and `ExistingIsKept`,
for any number of dialogs and any budgets of faults, kills and edits: the
strengthening (`Sound`) says, for each place of a dialog, what it has on the
disk: nothing before mkstemp, a whole temporary file at the link, and a
published file from the link on. A step of one dialog is then summed up by
what it may do to the file (`Advances`), and a step of anybody else either
leaves the file alone or costs an edit. And the three properties of plans once
more, for plans that commands ask for: no step of the composition touches the
compiler's variables except as one of the compiler's. `PublishedIsAccepted`: a
configuration that was parsed is a fixed point (`Lasts`), since normalizing
complete answers changes none of them (`NormalizedIsFixed`), a joined name is
joined already and a resolved path resolves to itself from anywhere; a dialog
keeps it in memory from the parse on, and what it links is its canonical form
(`PublishedInv`). Type correctness: whatever content it was read from, of
either form, a configuration in somebody's hands has a registered recipe and
normalized answers (`Accepted`), so that what is compiled for it is a call of the
compiler. Last, `ConfigurationIsServed`, for every catalog that has the bundled
blueprints: a recipe that lists each blueprint after those it needs, none of
which has anything in common with another, makes a `Feasible` request whatever
the answers are, and a feasible request is refused by no pass
(`FeasibleIsUnhindered`): its place in the list is a rank, and of the blueprints
yet to be placed one with the least rank is ready. That the three bundled recipes
are such (`Fits`) is read off the tables; that a finished plan can be assembled
and validated (`PlansCanBeUsed`) holds for any registrations that compile.

`ValidationExecutionProofs`, for any selections of gates, any number of failing
commands, rivals and polls: type correctness, `ReportIsAccepted`,
`PrerequisitesPassed`, `CleanupReportTellsResidue` and, of every step,
`OthersKept`. The invariant has a part about the report and one about the
daemon. `Upto(label)` is the set of names a report may have when the validation
stands at a label; `Named` says that it has no others, those of them that are
required, and none twice, unless an exception is on its way. That is
`ReportIsAccepted` at the label where the report is handed over; on the way it
is what makes each stage add only what was not there (`MoveAdvances`), the skips
of a stage that was cut short included, and lets the deferred health gate be
inserted at the place of `docker-cleanup`. `Passed` says which entries can be
other than passed when nothing blocks the gates to come: with the order of the
turns (`QualityFirst`) it gives `PrerequisitesPassed`. Of the daemon,
`OwnersKnown` says that what others had before is still theirs and that the
lifecycles run only where the preflight found their names free, and
`ResidueTold` that nothing is ours before the command that creates it and that
what is left afterwards is in the report or came late. Every docker command is
summed up by the kinds of resources it may touch (`Touches`), and
`CommandKeeps` says for which places that is harmless.

TLC checked these invariants on the instances of the runs before they were
proved; that of `ValidationExecution` also on a second set of selections, with
gates that no bundled blueprint combines.

The assumptions are those on the constants, and TLC evaluates them on the
instances: absent values are not members of the sets they stand for
(`NoneIsNoValue`, `NoneIsNoDirectory`, `NoLockIsNoRecord`, `NothingIsNoConfiguration` and the like) and
there is a digest (`ThereIsADigest`); budgets, bounds and limits are numbers
(`BudgetsAreNat`, `BoundsAreNat`, `LimitsArePositive`, `LeftIsABudget`); there
are finitely many blueprints and catalogs, direct calls and loaded catalogs
have the fields the loader gives them (`BlueprintsAreIds`, `CatalogsAreCatalogs`,
`CallsAreCalls`, `CatalogsAreLoaded`); registrations are sequences
(`RegistrationsAreSequences`) of well-typed declarations (`DeclarationsAreTyped`)
with one of the three normalizers there are (`NormalizersAreBuiltIn`); joining
and resolving are idempotent and every legal text stands for a path from every
directory (`TextsAreNormal`, `DirectoriesResolve`); a dialog writes the second
schema version (`ScriptsAreVersion2`); the required gates are those of one adapter
(`RequestsAreGates`); a capsule's files and directories are a tree
(`TreeIsATree`) that the supervisors and the retry clean
(`CleanersAreSupervisorsAndRetry`); no dialog has published anything before the
first step (`NothingIsPublished`).

Model-checked only are the liveness properties (`AcceptedRecoveryFinishes`,
`ReturnsOncePipesClose`, `ArmedCleanupFinishes`), which are out of the prover's
reach: every invariant and every action property that a passing run checks is
stated by a theorem.

## Findings

Four documented statements do not hold; `PROJECT.json` quotes them. In short:
a cleanup that fails at the wrong call cannot be repeated (nor can a discard);
two recoverers of one stale lock can remove a live one; a
command that exits while its descendant has a pipe open holds the caller
without limit; a `compose down` that fails half-way leaves a volume behind a
validation that passed.

## Not modelled, and the plan

Text production (`central_project_file_assembly.py`, `v1_project_compiler.py`,
the renderer), patterns of names, path spelling (`path_safety.py`,
`generation_workspace_identity.py`) and JSON syntax have no state that the
properties speak of. `v1_command_application.py` is the older form of
`project_command_application.py`, for the legacy schema alone. The release
archive (`release_capsule_archive.py`, `release_capsule_command.py`) is the part
that a next module would take up.

Behaviours of the code that were met and are shown by no run of their own: a cleanup command
started while the run is still in its own cleanup makes DONE go back to
CLEANUP_PENDING, with nothing lost (`RecordFollowsStateMachine` excepts steps
out of DONE for it); a command that exits between its timeout and the poll
before the kill (`validation.py:466`) leaves its group running in a call that
reports a timeout (`TimeoutKillsTheGroup` speaks of children that were killed);
a docker command may have its effect after the cleanup looked
(`CleanupReportTellsResidue` excepts what came late), and an exception may skip
a cleanup; and a supervisor deletes the capsule under another run of
it that is still executing. In the dialog, when the temporary file cannot be
unlinked after the link (`interactive_configuration.py:347`), the user is told
"Configuration was not created." of a file that exists (`OutcomeIsTrue` excepts
failed unlinks); and only the typed target is checked for control characters
while its resolved form is published, so that from a working directory whose
name has one `init` makes a file that `preview` refuses (`PublishedIsAccepted`
asks for a resolved path without them; so does a target that is the output path
itself, which exists once it is published). All are among the hazards in
`PROJECT.json`. A Go binary name may end with a hyphen, which makes the module
path suggested for it invalid: the dialog then ends without a file.

-------------------------- MODULE SessionMachine ---------------------------
(***************************************************************************)
(* The pure state machine of one generation run: the record that           *)
(* session_state_store.py persists as session.json, which events it        *)
(* accepts in which state, and the record each accepted event returns.     *)
(* No variable lives here: SessionLifecycle drives these operators with    *)
(* every legal event, GenerationRun and RecoveryCommands with the events   *)
(* the program really emits.                                               *)
(*                                                                         *)
(* A SHA-256 digest is an opaque value: two digests are equal exactly when *)
(* what they were computed from is equal.                                  *)
(***************************************************************************)
EXTENDS Naturals

CONSTANTS Digest,  \* SHA-256 digests of configurations, plans and trees
          None     \* the absent digest, the absent failure stage

State == {"NEW", "PLANNED", "MATERIALIZING", "MATERIALIZED", "VERIFYING",
          "VERIFIED", "AWAITING_CONFIRMATION", "COMMITTING", "COMMITTED",
          "CLEANUP_PENDING", "DONE", "FAILED_RETRYABLE", "AMBIGUOUS",
          "CANCELLED"}

FailureStage == {"PLAN", "MATERIALIZE", "VERIFY", "FINALIZE_PRECHECK"}

ASSUME NoneIsNoValue == None \notin Digest \cup FailureStage

\* The target name and the run id never change; they are left out.
GenerationSession ==
  [state : State, failed : FailureStage \cup {None}, revision : Nat,
   configuration : Digest, plan : Digest \cup {None},
   candidate : Digest \cup {None}, verification : Digest \cup {None}]

\* GenerationSession.__post_init__: a failure stage exists exactly on a
\* failed retryable record; any other record raises ValueError.
Constructible(s) == (s.state = "FAILED_RETRYABLE") <=> (s.failed # None)

NewSession(configuration, revision) ==
  [state |-> "NEW", failed |-> None, revision |-> revision,
   configuration |-> configuration, plan |-> None, candidate |-> None,
   verification |-> None]

----------------------------------------------------------------------------
(***************************************************************************)
(* The transition tables: <<from, event, to>> triples.                     *)
(***************************************************************************)

SimpleTransitions ==
  {<<"PLANNED", "MATERIALIZE_REQUESTED", "MATERIALIZING">>,
   <<"MATERIALIZED", "VERIFY_REQUESTED", "VERIFYING">>,
   <<"VERIFIED", "FINALIZE_REQUESTED", "AWAITING_CONFIRMATION">>,
   <<"AWAITING_CONFIRMATION", "FINALIZE_CONFIRMED", "COMMITTING">>,
   <<"COMMITTING", "PUBLISH_OBSERVED", "COMMITTED">>,
   <<"COMMITTING", "RECOVER_BEFORE_PUBLISH", "AWAITING_CONFIRMATION">>,
   <<"COMMITTING", "RECOVER_PUBLISHED", "COMMITTED">>,
   <<"COMMITTING", "RECOVER_AMBIGUOUS", "AMBIGUOUS">>,
   <<"COMMITTED", "CLEANUP_STARTED", "CLEANUP_PENDING">>,
   <<"CLEANUP_PENDING", "CLEANUP_SUCCEEDED", "DONE">>,
   <<"CLEANUP_PENDING", "CLEANUP_FAILED", "CLEANUP_PENDING">>}

\* <<from, event, failure stage>>
FailureTransitions ==
  {<<"NEW", "PLAN_FAILED", "PLAN">>,
   <<"MATERIALIZING", "MATERIALIZE_FAILED", "MATERIALIZE">>,
   <<"VERIFYING", "VERIFY_FAILED", "VERIFY">>,
   <<"AWAITING_CONFIRMATION", "FINALIZE_PRECHECK_FAILED",
     "FINALIZE_PRECHECK">>}

RetryStates ==
  [PLAN |-> "NEW", MATERIALIZE |-> "PLANNED", VERIFY |-> "MATERIALIZED",
   FINALIZE_PRECHECK |-> "VERIFIED"]

ReconfigurableStates ==
  {"NEW", "PLANNED", "MATERIALIZED", "VERIFIED", "FAILED_RETRYABLE"}

CancellableStates ==
  {"NEW", "PLANNED", "MATERIALIZING", "MATERIALIZED", "VERIFYING",
   "VERIFIED", "AWAITING_CONFIRMATION", "FAILED_RETRYABLE"}

LockRecoveryStates == State \ {"AMBIGUOUS", "DONE", "CANCELLED"}

----------------------------------------------------------------------------
(***************************************************************************)
(* The record each event returns.  Every accepted event counts one         *)
(* revision.                                                               *)
(***************************************************************************)

Moved(s, state) ==
  [s EXCEPT !.state = state, !.failed = None, !.revision = @ + 1]

\* A mutant of Updated: the bug of leaving an old verification in place.
UpdatedKeepingVerification(s, state) == Moved(s, state)

\* _updated_session replaces verification_digest by its argument, which is
\* absent in every call but VERIFY_SUCCEEDED's.
Updated(s, state) == [Moved(s, state) EXCEPT !.verification = None]

PlanSucceeded(s, digest) ==
  [Updated(s, "PLANNED") EXCEPT !.plan = digest]

\* MATERIALIZE_SUCCEEDED and CANDIDATE_CHANGED return the same record.
CandidateRecorded(s, digest) ==
  [Updated(s, "MATERIALIZED") EXCEPT !.candidate = digest]

VerifySucceeded(s, digest) ==
  [Updated(s, "VERIFIED") EXCEPT !.verification = digest]

\* A mutant of Failed: the bug of forgetting where the run failed.
FailedAnywhere(s, stage) == Moved(s, "FAILED_RETRYABLE")

Failed(s, stage) ==
  [s EXCEPT !.state = "FAILED_RETRYABLE", !.failed = stage,
            !.revision = @ + 1]

\* A mutant of Retried: the bug of resuming a failed verification as verified.
RetriedOneStateLate(s) ==
  Moved(s, [RetryStates EXCEPT !.VERIFY = "VERIFIED"][s.failed])

Retried(s) == Moved(s, RetryStates[s.failed])

\* STALE_LOCK_RECOVERED: only the revision moves.
LockRecovered(s) == [s EXCEPT !.revision = @ + 1]

Reconfigured(s, digest) == NewSession(digest, s.revision + 1)
============================================================================

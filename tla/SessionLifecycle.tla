------------------------- MODULE SessionLifecycle --------------------------
(***************************************************************************)
(* One session record under every event transition_session accepts, with   *)
(* every digest argument an event takes.  The commands of the program emit *)
(* only some of these sequences; the record must be sound under all of     *)
(* them, because the recovery functions are called on whatever record a    *)
(* crash left behind.                                                      *)
(***************************************************************************)
EXTENDS SessionMachine

CONSTANT MaxRevision  \* bound on the events of one behaviour

ASSUME MaxRevisionIsNat == MaxRevision \in Nat

VARIABLES
  session,   \* the persisted record
  attested   \* observer: the inputs the last VERIFY_SUCCEEDED was issued for

svars == <<session, attested>>

Inputs == Digest \X Digest \X Digest

ASSUME NoneIsNoInput == None \notin Inputs

\* What the record says a commit would publish: configuration, plan, tree.
InputsOf(s) == <<s.configuration, s.plan, s.candidate>>

Init ==
  /\ \E c \in Digest : session = NewSession(c, 0)
  /\ attested = None

Becomes(s) == session' = s /\ session.revision < MaxRevision

Plan(digest) ==
  /\ session.state = "NEW"
  /\ Becomes(PlanSucceeded(session, digest))
  /\ UNCHANGED attested

MaterializeSucceeded(digest) ==
  /\ session.state = "MATERIALIZING"
  /\ Becomes(CandidateRecorded(session, digest))
  /\ UNCHANGED attested

Verify(digest) ==
  /\ session.state = "VERIFYING"
  /\ Becomes(VerifySucceeded(session, digest))
  /\ attested' = InputsOf(session)

Fail ==
  /\ \E t \in FailureTransitions :
       session.state = t[1] /\ Becomes(Failed(session, t[3]))
  /\ UNCHANGED attested

Retry ==
  /\ session.state = "FAILED_RETRYABLE"
  /\ Becomes(Retried(session))
  /\ UNCHANGED attested

CandidateChanged(digest) ==
  /\ session.state \in {"MATERIALIZED", "VERIFIED", "AWAITING_CONFIRMATION"}
  /\ Becomes(CandidateRecorded(session, digest))
  /\ UNCHANGED attested

Reconfigure(digest) ==
  /\ session.state \in ReconfigurableStates
  /\ Becomes(Reconfigured(session, digest))
  /\ UNCHANGED attested

Cancel ==
  /\ session.state \in CancellableStates
  /\ Becomes(Moved(session, "CANCELLED"))
  /\ UNCHANGED attested

StaleLockRecovered ==
  /\ session.state \in LockRecoveryStates
  /\ Becomes(LockRecovered(session))
  /\ UNCHANGED attested

StaleLockAmbiguous ==
  /\ session.state \in LockRecoveryStates
  /\ Becomes(Moved(session, "AMBIGUOUS"))
  /\ UNCHANGED attested

\* A mutant of Simple: a recovered commit reopens without its guard.
SimpleFromAnyCommit ==
  /\ \E t \in SimpleTransitions :
       /\ session.state = t[1] \/ (session.state = "CLEANUP_PENDING"
                                     /\ t[2] = "RECOVER_BEFORE_PUBLISH")
       /\ Becomes(Moved(session, t[3]))
  /\ UNCHANGED attested

Simple ==
  /\ \E t \in SimpleTransitions :
       session.state = t[1] /\ Becomes(Moved(session, t[3]))
  /\ UNCHANGED attested

Next ==
  \/ \E d \in Digest :
       \/ Plan(d) \/ MaterializeSucceeded(d) \/ Verify(d)
       \/ CandidateChanged(d) \/ Reconfigure(d)
  \/ Fail \/ Retry \/ Cancel \/ StaleLockRecovered \/ StaleLockAmbiguous
  \/ Simple

Spec == Init /\ [][Next]_svars

----------------------------------------------------------------------------
(***************************************************************************)
(* Correctness.                                                            *)
(***************************************************************************)

\* Every event returns a record its own constructor accepts: no accepted
\* event can raise ValueError out of GenerationSession.__post_init__.
TypeOK ==
  /\ session \in GenerationSession
  /\ Constructible(session)
  /\ attested \in Inputs \cup {None}

Committed == {"COMMITTED", "CLEANUP_PENDING", "DONE"}
Verified == {"VERIFIED", "AWAITING_CONFIRMATION", "COMMITTING"} \cup Committed

\* The state a failed run resumes in, or the state itself.
At == IF session.state = "FAILED_RETRYABLE"
      THEN RetryStates[session.failed] ELSE session.state

\* The inputs a state needs are recorded by the time it is reached, and a
\* failed run holds what the state it would be retried in needs, however often
\* the run failed, was retried, reopened or reconfigured before.
InputsRecorded ==
  At \notin {"AMBIGUOUS", "CANCELLED"} =>
    /\ (At = "NEW") <=> (session.plan = None)
    /\ (At \in Verified) <=> (session.verification # None)
    /\ At \in {"MATERIALIZED", "VERIFYING"} \cup Verified
         => session.candidate # None

\* A recorded verification was issued for exactly the configuration, plan and
\* candidate the record still names: no retry, reopened commit or candidate
\* change carries a verification over to inputs it never saw.
VerificationIsCurrent ==
  session.verification # None => attested = InputsOf(session)

\* The commit protocol: see CommitProtocol.
Phase ==
  CASE session.state = "COMMITTING" -> "committing"
    [] session.state \in {"COMMITTED", "CLEANUP_PENDING"} -> "published"
    [] session.state = "DONE" -> "finished"
    [] session.state = "AMBIGUOUS" -> "unknown"
    [] session.state = "CANCELLED" -> "abandoned"
    [] OTHER -> "open"

Commit ==
  INSTANCE CommitProtocol WITH
    Content <- Inputs, Nothing <- None, phase <- Phase,
    verified <- IF session.verification = None THEN None ELSE attested,
    frozen <- IF session.state \in {"COMMITTING"} \cup Committed
              THEN InputsOf(session) ELSE None

\* Only verified content is ever committed, an observed commit is never
\* reopened or retried, and DONE, CANCELLED and AMBIGUOUS are final.
ImplementsCommitProtocol == Commit!Spec
============================================================================

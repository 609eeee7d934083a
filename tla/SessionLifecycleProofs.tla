---------------------- MODULE SessionLifecycleProofs -----------------------
(***************************************************************************)
(* What SessionLifecycle satisfies for every set of digests and every      *)
(* length of behaviour.  The inductive invariant is the conjunction of     *)
(* the three invariants the run checks.  The refinement needs all of it:   *)
(* VerificationIsCurrent for Confirm, InputsRecorded to know that a record *)
(* about to commit carries a verification at all.                          *)
(***************************************************************************)
EXTENDS SessionLifecycle, TLAPS

IInv == TypeOK /\ InputsRecorded /\ VerificationIsCurrent

----------------------------------------------------------------------------
(***************************************************************************)
(* The record each helper of the state machine returns, field by field.    *)
(***************************************************************************)

\* Moved changes the state, clears the failure and counts a revision.
LEMMA MovedRecord ==
  ASSUME NEW s \in GenerationSession, NEW state \in State
  PROVE  /\ Moved(s, state) \in GenerationSession
         /\ Moved(s, state).state = state
         /\ Moved(s, state).failed = None
         /\ Moved(s, state).configuration = s.configuration
         /\ Moved(s, state).plan = s.plan
         /\ Moved(s, state).candidate = s.candidate
         /\ Moved(s, state).verification = s.verification
<1>1. PICK n \in Nat : n = s.revision + 1
  BY DEF GenerationSession
<1>2. Moved(s, state)
        = [s EXCEPT !.state = state, !.failed = None, !.revision = n]
  BY <1>1 DEF Moved
<1>3. Moved(s, state) \in GenerationSession
  BY <1>2 DEF GenerationSession
<1> QED
  BY <1>2, <1>3 DEF GenerationSession

\* Failed keeps every digest and records the failure stage.
LEMMA FailedRecord ==
  ASSUME NEW s \in GenerationSession, NEW stage \in FailureStage
  PROVE  /\ Failed(s, stage) \in GenerationSession
         /\ Failed(s, stage).state = "FAILED_RETRYABLE"
         /\ Failed(s, stage).failed = stage
         /\ Failed(s, stage).configuration = s.configuration
         /\ Failed(s, stage).plan = s.plan
         /\ Failed(s, stage).candidate = s.candidate
         /\ Failed(s, stage).verification = s.verification
<1>1. PICK n \in Nat : n = s.revision + 1
  BY DEF GenerationSession
<1>2. Failed(s, stage) = [s EXCEPT !.state = "FAILED_RETRYABLE",
                                   !.failed = stage, !.revision = n]
  BY <1>1 DEF Failed
<1>3. Failed(s, stage) \in GenerationSession
  BY <1>2 DEF GenerationSession, State
<1> QED
  BY <1>2, <1>3 DEF GenerationSession

\* LockRecovered changes the revision and nothing else.
LEMMA LockRecoveredRecord ==
  ASSUME NEW s \in GenerationSession
  PROVE  /\ LockRecovered(s) \in GenerationSession
         /\ LockRecovered(s).state = s.state
         /\ LockRecovered(s).failed = s.failed
         /\ LockRecovered(s).configuration = s.configuration
         /\ LockRecovered(s).plan = s.plan
         /\ LockRecovered(s).candidate = s.candidate
         /\ LockRecovered(s).verification = s.verification
<1>1. PICK n \in Nat : n = s.revision + 1
  BY DEF GenerationSession
<1>2. LockRecovered(s) = [s EXCEPT !.revision = n]
  BY <1>1 DEF LockRecovered
<1> QED
  BY <1>2 DEF GenerationSession

\* Updated is Moved without the verification.
LEMMA UpdatedRecord ==
  ASSUME NEW s \in GenerationSession, NEW state \in State
  PROVE  /\ Updated(s, state) \in GenerationSession
         /\ Updated(s, state).state = state
         /\ Updated(s, state).failed = None
         /\ Updated(s, state).configuration = s.configuration
         /\ Updated(s, state).plan = s.plan
         /\ Updated(s, state).candidate = s.candidate
         /\ Updated(s, state).verification = None
  BY MovedRecord DEF Updated, GenerationSession

\* PLAN_SUCCEEDED records the plan and drops any verification.
LEMMA PlanSucceededRecord ==
  ASSUME NEW s \in GenerationSession, NEW d \in Digest
  PROVE  /\ PlanSucceeded(s, d) \in GenerationSession
         /\ PlanSucceeded(s, d).state = "PLANNED"
         /\ PlanSucceeded(s, d).failed = None
         /\ PlanSucceeded(s, d).configuration = s.configuration
         /\ PlanSucceeded(s, d).plan = d
         /\ PlanSucceeded(s, d).candidate = s.candidate
         /\ PlanSucceeded(s, d).verification = None
  BY UpdatedRecord DEF PlanSucceeded, GenerationSession, State

\* A new or changed candidate is recorded and drops any verification.
LEMMA CandidateRecordedRecord ==
  ASSUME NEW s \in GenerationSession, NEW d \in Digest
  PROVE  /\ CandidateRecorded(s, d) \in GenerationSession
         /\ CandidateRecorded(s, d).state = "MATERIALIZED"
         /\ CandidateRecorded(s, d).failed = None
         /\ CandidateRecorded(s, d).configuration = s.configuration
         /\ CandidateRecorded(s, d).plan = s.plan
         /\ CandidateRecorded(s, d).candidate = d
         /\ CandidateRecorded(s, d).verification = None
  BY UpdatedRecord DEF CandidateRecorded, GenerationSession, State

\* VERIFY_SUCCEEDED records the verification and keeps the rest.
LEMMA VerifySucceededRecord ==
  ASSUME NEW s \in GenerationSession, NEW d \in Digest
  PROVE  /\ VerifySucceeded(s, d) \in GenerationSession
         /\ VerifySucceeded(s, d).state = "VERIFIED"
         /\ VerifySucceeded(s, d).failed = None
         /\ VerifySucceeded(s, d).configuration = s.configuration
         /\ VerifySucceeded(s, d).plan = s.plan
         /\ VerifySucceeded(s, d).candidate = s.candidate
         /\ VerifySucceeded(s, d).verification = d
  BY UpdatedRecord DEF VerifySucceeded, GenerationSession, State

----------------------------------------------------------------------------

\* A new record satisfies the invariant.
LEMMA InitIInv == Init => IInv
<1> SUFFICES ASSUME Init PROVE IInv
  OBVIOUS
<1>1. PICK c \in Digest : session = NewSession(c, 0)
  BY DEF Init
<1>2. session \in GenerationSession
  BY <1>1 DEF NewSession, GenerationSession, State
<1>3. /\ session.state = "NEW"
      /\ session.failed = None
      /\ session.plan = None
      /\ session.verification = None
  BY <1>1 DEF NewSession
<1>4. At = "NEW" /\ attested = None
  BY <1>3 DEF Init, At
<1>5. TypeOK
  BY <1>2, <1>3, <1>4 DEF TypeOK, Constructible
<1>6. InputsRecorded
  BY <1>3, <1>4 DEF InputsRecorded, Verified, Committed
<1> QED
  BY <1>3, <1>5, <1>6 DEF IInv, VerificationIsCurrent

\* Each step, action by action, preserves the inductive invariant.
LEMMA NextIInv == IInv /\ [Next]_svars => IInv'
<1> SUFFICES ASSUME IInv, [Next]_svars PROVE IInv'
  OBVIOUS
<1> USE NoneIsNoValue
    DEF IInv, TypeOK, InputsRecorded, VerificationIsCurrent, At, Becomes,
        Constructible, Verified, Committed, Inputs, InputsOf
<1>0. /\ session \in GenerationSession
      /\ session.state \in State
      /\ session.failed \in FailureStage \cup {None}
      /\ session.configuration \in Digest
  BY DEF GenerationSession
<1>1. ASSUME NEW d \in Digest, Plan(d) PROVE IInv'
  BY <1>0, <1>1, PlanSucceededRecord DEF Plan
<1>2. ASSUME NEW d \in Digest, MaterializeSucceeded(d) PROVE IInv'
  BY <1>0, <1>2, CandidateRecordedRecord DEF MaterializeSucceeded
<1>3. ASSUME NEW d \in Digest, Verify(d) PROVE IInv'
  BY <1>0, <1>3, VerifySucceededRecord DEF Verify, GenerationSession
<1>4. ASSUME NEW d \in Digest, CandidateChanged(d) PROVE IInv'
  <2>1. At = session.state /\ session.plan # None
    BY <1>4 DEF CandidateChanged
  <2>2. session' = CandidateRecorded(session, d) /\ attested' = attested
    BY <1>4 DEF CandidateChanged
  <2>3. At' = "MATERIALIZED"
    BY <1>0, <2>2, CandidateRecordedRecord
  <2> QED
    BY <1>0, <2>1, <2>2, <2>3, CandidateRecordedRecord
<1>5. ASSUME NEW d \in Digest, Reconfigure(d) PROVE IInv'
  <2>1. /\ session'.state = "NEW"
        /\ session'.failed = None
        /\ session'.plan = None
        /\ session'.verification = None
    BY <1>5 DEF Reconfigure, Reconfigured, NewSession
  <2>2. session' \in GenerationSession
    BY <1>5 DEF Reconfigure, Reconfigured, NewSession, GenerationSession, State
  <2> QED
    BY <2>1, <2>2, <1>5 DEF Reconfigure
<1>6. CASE Fail
  <2>1. PICK t \in FailureTransitions :
          session.state = t[1] /\ session' = Failed(session, t[3])
    BY <1>6 DEF Fail
  <2>2. /\ t[3] \in FailureStage
        /\ RetryStates[t[3]] \in State
        /\ t[1] \in {"NEW", "MATERIALIZING", "VERIFYING",
                      "AWAITING_CONFIRMATION"}
    BY DEF FailureTransitions, FailureStage, RetryStates, State
  <2>3. attested' = attested
    BY <1>6 DEF Fail
  <2> QED
    BY <1>0, <2>1, <2>2, <2>3, FailedRecord
       DEF FailureTransitions, RetryStates
<1>7. CASE Retry
  <2>1. session.failed \in FailureStage
    BY <1>0, <1>7 DEF Retry
  <2>2. RetryStates[session.failed]
          \in {"NEW", "PLANNED", "MATERIALIZED", "VERIFIED"}
    BY <2>1 DEF RetryStates, FailureStage
  <2>3. RetryStates[session.failed] \in State
    BY <2>2 DEF State
  <2> QED
    BY <1>0, <1>7, <2>2, <2>3, MovedRecord DEF Retry, Retried
<1>8. CASE Cancel
  <2>1. "CANCELLED" \in State
    BY DEF State
  <2> QED
    BY <1>0, <1>8, <2>1, MovedRecord DEF Cancel
<1>9. CASE StaleLockRecovered
  BY <1>0, <1>9, LockRecoveredRecord DEF StaleLockRecovered
<1>10. CASE StaleLockAmbiguous
  <2>1. "AMBIGUOUS" \in State
    BY DEF State
  <2> QED
    BY <1>0, <1>10, <2>1, MovedRecord DEF StaleLockAmbiguous
<1>11. CASE Simple
  <2>1. PICK t \in SimpleTransitions :
          session.state = t[1] /\ session' = Moved(session, t[3])
    BY <1>11 DEF Simple
  <2>2. t[3] \in State /\ t[3] # "FAILED_RETRYABLE"
    BY DEF SimpleTransitions, State
  <2>3. attested' = attested
    BY <1>11 DEF Simple
  <2> QED
    BY <1>0, <2>1, <2>2, <2>3, MovedRecord DEF SimpleTransitions
<1>12. CASE UNCHANGED svars
  BY <1>12 DEF svars
<1> QED
  BY <1>1, <1>2, <1>3, <1>4, <1>5, <1>6, <1>7, <1>8, <1>9, <1>10, <1>11,
     <1>12 DEF Next

\* The inductive invariant holds throughout.
LEMMA SpecIInv == Spec => []IInv
  BY InitIInv, NextIInv, PTL DEF Spec

\* Every accepted event returns a record of the persisted type which the
\* record's own constructor accepts.
THEOREM TypeCorrect == Spec => []TypeOK
  BY SpecIInv, PTL DEF IInv

\* Every state, and every state a failed run resumes in, has its inputs.
THEOREM InputsAreRecorded == Spec => []InputsRecorded
  BY SpecIInv, PTL DEF IInv

\* No verification outlives a change of what it verified.
THEOREM VerificationStaysCurrent == Spec => []VerificationIsCurrent
  BY SpecIInv, PTL DEF IInv

----------------------------------------------------------------------------
(***************************************************************************)
(* SessionLifecycle implements CommitProtocol.                             *)
(***************************************************************************)

\* A new run is open, with nothing verified and nothing frozen.
LEMMA InitRefines == Init => Commit!Init
<1> SUFFICES ASSUME Init PROVE Commit!Init
  OBVIOUS
<1>1. session.state = "NEW" /\ session.verification = None
  BY DEF Init, NewSession
<1> QED
  BY <1>1 DEF Commit!Init, Phase, Committed

\* Every step of the lifecycle is a step of the commit protocol or changes
\* nothing the protocol speaks of.
LEMMA StepRefines == IInv /\ [Next]_svars => [Commit!Next]_(Commit!cvars)
<1> SUFFICES ASSUME IInv, [Next]_svars PROVE [Commit!Next]_(Commit!cvars)
  OBVIOUS
<1> USE NoneIsNoValue
    DEF IInv, TypeOK, InputsRecorded, VerificationIsCurrent, At, Becomes,
        Verified, Committed, Inputs, InputsOf, Phase, Commit!cvars
<1>0. /\ session \in GenerationSession
      /\ session.state \in State
      /\ session.failed \in FailureStage \cup {None}
  BY DEF GenerationSession
<1>1. ASSUME NEW d \in Digest, Plan(d)
      PROVE Commit!Invalidate
  BY <1>0, <1>1, PlanSucceededRecord DEF Plan, Commit!Invalidate
<1>2. ASSUME NEW d \in Digest, MaterializeSucceeded(d)
      PROVE Commit!Invalidate
  BY <1>0, <1>2, CandidateRecordedRecord
     DEF MaterializeSucceeded, Commit!Invalidate
<1>3. ASSUME NEW d \in Digest, Verify(d)
      PROVE \E c \in Inputs : Commit!Verify(c)
  BY <1>0, <1>3, VerifySucceededRecord
     DEF Verify, Commit!Verify, GenerationSession
<1>4. ASSUME NEW d \in Digest, CandidateChanged(d)
      PROVE Commit!Invalidate
  BY <1>0, <1>4, CandidateRecordedRecord
     DEF CandidateChanged, Commit!Invalidate
<1>5. ASSUME NEW d \in Digest, Reconfigure(d)
      PROVE Commit!Invalidate
  <2>1. session'.state = "NEW" /\ session'.verification = None
    BY <1>5 DEF Reconfigure, Reconfigured, NewSession
  <2> QED
    BY <1>5, <2>1 DEF Reconfigure, ReconfigurableStates, Commit!Invalidate
<1>6. CASE Fail
  <2>1. PICK t \in FailureTransitions :
          session.state = t[1] /\ session' = Failed(session, t[3])
    BY <1>6 DEF Fail
  <2>2. /\ t[3] \in FailureStage
        /\ t[1] \in {"NEW", "MATERIALIZING", "VERIFYING",
                      "AWAITING_CONFIRMATION"}
    BY DEF FailureTransitions, FailureStage
  <2>3. attested' = attested
    BY <1>6 DEF Fail
  <2>4. /\ session'.state = "FAILED_RETRYABLE"
        /\ InputsOf(session') = InputsOf(session)
        /\ session'.verification = session.verification
    BY <1>0, <2>1, <2>2, FailedRecord
  <2>5. Phase = "open" /\ Phase' = "open"
    BY <2>1, <2>2, <2>4
  <2>6. UNCHANGED Commit!cvars
    BY <2>1, <2>2, <2>3, <2>4, <2>5
  <2> QED
    BY <2>6
<1>7. CASE Retry
  <2>0. session.failed \in FailureStage /\ attested' = attested
    BY <1>0, <1>7 DEF Retry, Constructible
  <2>1. RetryStates[session.failed]
          \in {"NEW", "PLANNED", "MATERIALIZED", "VERIFIED"}
    BY <2>0 DEF RetryStates, FailureStage
  <2>2. RetryStates[session.failed] \in State
    BY <2>1 DEF State
  <2>3. /\ session.state = "FAILED_RETRYABLE"
        /\ session'.state = RetryStates[session.failed]
        /\ InputsOf(session') = InputsOf(session)
        /\ session'.verification = session.verification
    BY <1>0, <1>7, <2>2, MovedRecord DEF Retry, Retried
  <2>4. UNCHANGED Commit!cvars
    BY <2>0, <2>1, <2>3
  <2> QED
    BY <2>4
<1>8. CASE Cancel
  <2>1. "CANCELLED" \in State
    BY DEF State
  <2>2. Commit!Abandon
    BY <1>0, <1>8, <2>1, MovedRecord
       DEF Cancel, CancellableStates, Commit!Abandon
  <2> QED
    BY <2>2 DEF Commit!Next
<1>9. CASE StaleLockRecovered
  <2>1. UNCHANGED Commit!cvars
    BY <1>0, <1>9, LockRecoveredRecord DEF StaleLockRecovered
  <2> QED
    BY <2>1
<1>10. CASE StaleLockAmbiguous
  <2>1. "AMBIGUOUS" \in State
    BY DEF State
  <2>2. Commit!LoseTrack
    BY <1>0, <1>10, <2>1, MovedRecord
       DEF StaleLockAmbiguous, LockRecoveryStates, State, Commit!LoseTrack
  <2> QED
    BY <2>2 DEF Commit!Next
<1>11. CASE Simple
  <2>1. PICK t \in SimpleTransitions :
          session.state = t[1] /\ session' = Moved(session, t[3])
    BY <1>11 DEF Simple
  <2>2. t[3] \in State
    BY DEF SimpleTransitions, State
  <2>3. attested' = attested
    BY <1>11 DEF Simple
  <2>4. /\ session'.state = t[3]
        /\ InputsOf(session') = InputsOf(session)
        /\ session'.verification = session.verification
    BY <1>0, <2>1, <2>2, MovedRecord
  <2>5. CASE \/ /\ t[1] \in {"PLANNED", "MATERIALIZED", "VERIFIED",
                             "CLEANUP_PENDING"}
                /\ t[3] # "DONE"
             \/ t[1] = "COMMITTED"
    <3>1. UNCHANGED Commit!cvars
      BY <2>1, <2>3, <2>4, <2>5 DEF SimpleTransitions
    <3> QED
      BY <3>1
  <2>6. CASE t[1] = "AWAITING_CONFIRMATION"
    <3>1. Commit!Confirm
      <4>1. /\ session.state = "AWAITING_CONFIRMATION"
            /\ session'.state = "COMMITTING"
        BY <2>1, <2>4, <2>6 DEF SimpleTransitions
      <4>2. At = "AWAITING_CONFIRMATION"
        BY <4>1
      <4>3. session.verification # None /\ attested = InputsOf(session)
        BY <4>2
      <4>4. Phase = "open" /\ Phase' = "committing"
        BY <4>1
      <4>5. attested # None
        <5>1. /\ session.candidate \in Digest
              /\ session.plan \in Digest
              /\ session.configuration \in Digest
          BY <1>0, <4>2 DEF GenerationSession
        <5> QED
          BY <5>1, <4>3, NoneIsNoInput
      <4> QED
        BY <2>3, <2>4, <4>1, <4>3, <4>4, <4>5 DEF Commit!Confirm
    <3> QED
      BY <3>1 DEF Commit!Next
  <2>7. CASE t[1] = "COMMITTING"
    <3>1. t[3] \in {"COMMITTED", "AWAITING_CONFIRMATION", "AMBIGUOUS"}
      BY <2>7 DEF SimpleTransitions
    <3>2. Commit!Observe \/ Commit!RollBack \/ Commit!LoseTrack
      BY <2>1, <2>3, <2>4, <2>7, <3>1
         DEF Commit!Observe, Commit!RollBack, Commit!LoseTrack
    <3> QED
      BY <3>2 DEF Commit!Next
  <2>8. CASE t[1] = "CLEANUP_PENDING" /\ t[3] = "DONE"
    <3>1. Commit!Finish
      BY <2>1, <2>3, <2>4, <2>8 DEF Commit!Finish
    <3> QED
      BY <3>1 DEF Commit!Next
  <2> QED
    BY <2>5, <2>6, <2>7, <2>8 DEF SimpleTransitions
<1>12. CASE UNCHANGED svars
  <2>1. UNCHANGED Commit!cvars
    BY <1>12 DEF svars
  <2> QED
    BY <2>1
<1> QED
  BY <1>1, <1>2, <1>3, <1>4, <1>5, <1>6, <1>7, <1>8, <1>9, <1>10, <1>11,
     <1>12 DEF Next, Commit!Next

\* Only verified content is committed, an observed commit is never undone,
\* and the final states are final: the lifecycle is a commit protocol.
THEOREM LifecycleImplementsCommitProtocol == Spec => ImplementsCommitProtocol
  BY InitRefines, StepRefines, SpecIInv, PTL
     DEF Spec, Commit!Spec, ImplementsCommitProtocol
============================================================================

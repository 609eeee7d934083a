-------------------------- MODULE CommitProtocol ---------------------------
(***************************************************************************)
(* What the lifecycle of a generation run promises, without its fourteen   *)
(* states: content is verified, exactly the verified content is frozen     *)
(* when the commit is confirmed, a commit that is known to have happened   *)
(* is never undone, and a run whose outcome is unknown never moves again.  *)
(* SessionLifecycle is shown to implement this specification.              *)
(***************************************************************************)
CONSTANTS Content,   \* what a run can publish
          Nothing

VARIABLES
  phase,      \* where the run stands relative to its commit
  verified,   \* the content last verified and not changed since
  frozen      \* the content a commit in progress, or done, is bound to

cvars == <<phase, verified, frozen>>

Init == phase = "open" /\ verified = Nothing /\ frozen = Nothing

Verify(c) ==
  /\ phase = "open"
  /\ verified' = c
  /\ UNCHANGED <<phase, frozen>>

\* Replanning, reconfiguring or any change of the candidate.
Invalidate ==
  /\ phase = "open"
  /\ verified' = Nothing
  /\ UNCHANGED <<phase, frozen>>

Confirm ==
  /\ phase = "open"
  /\ verified # Nothing
  /\ phase' = "committing"
  /\ frozen' = verified
  /\ UNCHANGED verified

RollBack ==
  /\ phase = "committing"
  /\ phase' = "open"
  /\ frozen' = Nothing
  /\ UNCHANGED verified

Observe ==
  /\ phase = "committing"
  /\ phase' = "published"
  /\ UNCHANGED <<verified, frozen>>

Finish ==
  /\ phase = "published"
  /\ phase' = "finished"
  /\ UNCHANGED <<verified, frozen>>

Abandon ==
  /\ phase = "open"
  /\ phase' = "abandoned"
  /\ UNCHANGED <<verified, frozen>>

\* The outcome cannot be told; nothing is claimed about it any more.
LoseTrack ==
  /\ phase \in {"open", "committing", "published"}
  /\ phase' = "unknown"
  /\ frozen' = Nothing
  /\ UNCHANGED verified

Next ==
  \/ \E c \in Content : Verify(c)
  \/ Invalidate
  \/ Confirm \/ RollBack \/ Observe \/ Finish
  \/ Abandon \/ LoseTrack

Spec == Init /\ [][Next]_cvars
============================================================================

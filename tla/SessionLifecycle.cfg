SPECIFICATION Spec
CONSTANTS
  Digest = {d1, d2}
  None = None
  MaxRevision = 14
INVARIANTS
  TypeOK
  InputsRecorded
  VerificationIsCurrent
PROPERTY
  ImplementsCommitProtocol
CHECK_DEADLOCK FALSE

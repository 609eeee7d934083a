SPECIFICATION Spec
CONSTANTS
  Digest = {d}
  None = None
  File = {f1, f2}
  NoDir = NoDir
  Foreign = Foreign
  Errors = 1
  Crashes = 0
  Edits = 0
INVARIANTS CleanupIsRetryable
CHECK_DEADLOCK FALSE

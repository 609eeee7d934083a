SPECIFICATION FairSpec
CONSTANTS
  Digest = {d}
  None = None
  File = {f1, f2}
  NoDir = NoDir
  Foreign = Foreign
  Errors = 1
  Crashes = 1
  Edits = 0
PROPERTIES AcceptedRecoveryFinishes
CHECK_DEADLOCK FALSE

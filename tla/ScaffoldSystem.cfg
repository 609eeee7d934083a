SPECIFICATION Spec
CONSTANTS
  Digest = {d}
  None = None
  File = {f1, f2}
  NoDir = NoDir
  Foreign = Foreign
  Errors = 2
  Crashes = 2
  Edits = 2
INVARIANTS TypeOK CommittedIsPublished NoLastCopyLost FailedMeansNotPublished
PROPERTIES OthersDataKept AmbiguousIsPreserved RecordFollowsStateMachine
CHECK_DEADLOCK FALSE

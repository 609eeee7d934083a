SPECIFICATION Spec
CONSTANTS
  Run = {r1, r2, r3}
  Recoverer = {c1}
  NoLock = NoLock
  NoRun = NoRun
INVARIANTS TypeOK MutualExclusion UnlinksOnlyItsLock
PROPERTIES HolderKeepsLock
CHECK_DEADLOCK FALSE

SPECIFICATION Spec
CONSTANTS
  Run = {r1, r2, r3}
  Recoverer = {c1, c2}
  NoLock = NoLock
  NoRun = NoRun
INVARIANTS MutualExclusion
CHECK_DEADLOCK FALSE

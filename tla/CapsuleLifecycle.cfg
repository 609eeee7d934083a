SPECIFICATION FairSpec
CONSTANTS
  File = {"entry", "blueprint"}
  Dir = {"blueprints", "static"}
  Root = "root"
  Home <- MCHome
  Run = {"r1", "r2"}
  Retry = "retry"
  Cleaner = {"r1", "r2", "retry"}
  MaxFaults = 1
  MaxEdits = 1
  MaxKills = 1
INVARIANTS TypeOK SuccessGatesDeletion EvidenceOutlivesCapsule
PROPERTIES ForeignKept ArmedCleanupFinishes
CHECK_DEADLOCK FALSE

SPECIFICATION FairSpec
CONSTANTS
  Child = child
  Descendant = {d1}
  VisibleLimit = 1
  Margin = 2
  ChunkSize = 2
  MaxOutput = 4
INVARIANTS TypeOK OutputAccounted ResultMeansExited TimeoutKillsTheGroup
PROPERTY ReturnsOncePipesClose
CHECK_DEADLOCK FALSE

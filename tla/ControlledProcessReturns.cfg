SPECIFICATION FairSpec
CONSTANTS
  Child = child
  Descendant = {d1}
  VisibleLimit = 1
  Margin = 1
  ChunkSize = 2
  MaxOutput = 1
PROPERTY CallReturns
CHECK_DEADLOCK FALSE

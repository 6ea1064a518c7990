CONSTANTS
  NumBlocks = 4
  Graphs = {}
  Uncleaned <- MCUncleaned
SPECIFICATION CleanupSpec
INVARIANT CleanedTreeExact
CHECK_DEADLOCK FALSE

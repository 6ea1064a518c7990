CONSTANTS
  NumBlocks = 4
  Graphs <- MCGraphs
  Uncleaned <- MCUncleaned
SPECIFICATION CleanupSpec
INVARIANTS
  CleanupTypeOK
  SurvivorsLeastClosed
  GreatestSolution
  TreeExact
  LoopsAreNatural
  PreheaderGuardsLoop
PROPERTIES
  AllReturn
CHECK_DEADLOCK FALSE

CONSTANTS
  NumBlocks = 4
  NumVars = 2
  Programs <- CopiesFromEarlier
SPECIFICATION Spec
INVARIANTS
  NoUseOfRemovedLoad
CHECK_DEADLOCK FALSE

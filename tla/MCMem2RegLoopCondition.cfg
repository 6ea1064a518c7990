CONSTANTS
  NumBlocks = 4
  NumVars = 1
  Programs <- AssignmentInCondition
SPECIFICATION Spec
INVARIANTS
  MeaningPreserved
CHECK_DEADLOCK FALSE

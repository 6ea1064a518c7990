CONSTANTS
  NumBlocks = 4
  NumVars = 2
  Programs <- MCPrograms
SPECIFICATION Spec
INVARIANTS
  TypeOK
  PhisComplete
  RenamingPreservesMeaning
  NoUseOfRemovedLoad
CHECK_DEADLOCK FALSE

CONSTANTS
  NumBlocks = 5
  Instr <- MCInstr
  Graphs <- MCGraphs
  Programs <- MCPrograms
SPECIFICATION Spec
INVARIANTS
  MovedUpOnly
  OperandsDefinedFirstIfOutside
CHECK_DEADLOCK FALSE

CONSTANTS
  NumBlocks = 5
  Instr <- MCInstr
  Graphs <- WhileGraphs
  Programs <- CountingLoop
SPECIFICATION Spec
INVARIANTS
  OperandsDefinedFirst
CHECK_DEADLOCK FALSE

CONSTANTS
  Values = {1, 2, 3, 4}
  MaxLen = 5
  MaxBlocks = 8
  Value <- MCValue
  Reg = {1, 5, 7}
  Programs <- MCPrograms
  Functions <- MCFunctions
  Answers <- MCAnswers
SPECIFICATION BackendSpec
INVARIANTS
  LoopsFaithful
CHECK_DEADLOCK FALSE

CONSTANTS
  Values = {1, 2, 3, 4}
  MaxLen = 5
  MaxBlocks = 8
  Value <- MCValue
  Reg = {1, 5, 7}
  Programs <- MCPrograms
  Functions <- MCFunctions
  Answers <- MCAnswers
SPECIFICATION BackendSpec
INVARIANTS
  TypeOK
  PlacesUnshared
  RegistersConserved
  SpillsMinimal
  NoClobber
  PassesKeepMeaning
  FaithfulCode
PROPERTIES
  KeepsPromise
CHECK_DEADLOCK FALSE

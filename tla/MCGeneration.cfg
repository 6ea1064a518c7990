CONSTANTS
  Sources <- MCSources
  Prototypes <- MCPrototypes
  Answers = {0, 1, 2}
  MaxCalls = 4
SPECIFICATION Spec
INVARIANTS
  TypeOK
  RefusedIfIllegal
  FaithfulExecution
  NeverStuck
  PlainFunctionsExact
  NoRootlessCycle
CHECK_DEADLOCK FALSE

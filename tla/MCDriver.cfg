CONSTANTS
  NumFunctions = 2
  MaxLevel = 3
  Pipelines <- MCPipelines
  Options <- MCOptions
SPECIFICATION DriverSpec
INVARIANTS
  DriverTypeOK
  HeldAnalysesFresh
  PassesSeeVerifiedIR
  EditsReported
  FailuresStopOutput
  VerifiedOutput
  ClaimedOutputsKept
PROPERTIES
  RejectedUntouched
CHECK_DEADLOCK FALSE

CONSTANTS
  mail = mail
  ref = ref
  r1 = r1
  r2 = r2
  NoRun = NoRun
  Effects <- MCPair
  Runs <- MCRuns
  DependsOn <- MCPairDependsOn
  MaxAttempts = 2
  Limit = 1
  MaxFaults = 2
SPECIFICATION FairSpec
INVARIANTS
  DependencyOrder
  DoneMeansApplied
  FailedMeansExhausted
  SoleRunUntilLapse
  RepeatedOnlyAfterLapseOrRetry
PROPERTIES
  TerminalIsFinal
  ImplementsLifecycle
  SettledUnlessDependencyFailed

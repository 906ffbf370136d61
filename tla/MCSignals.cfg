CONSTANTS
  p1 = p1
  p2 = p2
  Processes <- MCProcesses
  MaxMessages = 2
  WantAttention <- MCAllWant
  MaxFaults = 1
SPECIFICATION FairSpec
INVARIANTS
  SignalsTellTheTruth
  RepeatedOnlyForCause
PROPERTIES
  MailIsSignalled

CONSTANTS
  p1 = p1
  p2 = p2
  m1 = m1
  None = None
  Processes <- MCProcesses
  Messages <- MCMessages
  Notes <- MCNotes
  Legacy <- MCLegacy
  Operations <- MCOperations
  MaxOps = 3
  MaxFaults = 1
SYMMETRY Symmetry
SPECIFICATION Spec
INVARIANTS
  HistoryIsIndexed
  QuarantinedForCause
PROPERTIES
  ForgottenOnlyByStaleCopies
CHECK_DEADLOCK FALSE

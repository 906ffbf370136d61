CONSTANTS
  p1 = p1
  p2 = p2
  p3 = p3
  m1 = m1
  m2 = m2
  Nobody = Nobody
  Processes <- MCTwo
  Messages <- MCTwoMsgs
  Fields <- MCRead
  MaxCrashes = 1
  MaxFaults = 1
SPECIFICATION FairSpec
INVARIANTS
  SoleHolderUntilOld
  AckedIsKept
PROPERTIES
  ImplementsMailbox
  CallsEnd

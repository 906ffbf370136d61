CONSTANTS
  m1 = m1
  m2 = m2
  s1 = s1
  s2 = s2
  Messages <- MCMessages
  Senders <- MCSenders
  MaxRequests = 3
  MaxIncarnations = 1
  MaxFaults = 0
  MaxTurns = 1
  RequestsExpire = TRUE
SPECIFICATION Spec
INVARIANTS
  SubmittedWasPrompted
  PendingRequestsJoin
PROPERTIES
  PromptIsWelcome
SYMMETRY MCSymmetry

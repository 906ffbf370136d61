CONSTANTS
  m1 = m1
  m2 = m2
  s1 = s1
  s2 = s2
  Messages <- MCOneMessage
  Senders <- MCSender
  MaxRequests = 2
  MaxIncarnations = 2
  MaxFaults = 1
  MaxTurns = 0
  RequestsExpire = TRUE
SPECIFICATION FairSpec
INVARIANTS
  NoResendWithoutCause
PROPERTIES
  MovesAsAllowed
  MissedOnlyForKnownCause

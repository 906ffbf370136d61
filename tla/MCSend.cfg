CONSTANTS
  lead = lead
  w1 = w1
  w2 = w2
  stranger = stranger
  t1 = t1
  c1 = c1
  r1 = r1
  Nobody = Nobody
  NoTask = NoTask
  Everyone = Everyone
  NoRun = NoRun
  Members <- MCMembers
  Leader = lead
  Tasks <- MCTasks
  Owner <- MCOwner
  Gated = {}
  Sends <- MCSends
  Callers <- MCCaller
  Maintainers <- MCMaintainers
  MaxAttempts = 1
  Limit = 1
  MaxFaults = 1
SPECIFICATION FairSpec
INVARIANTS
  SentMeansAskedFor
  WakeFollowsMail
PROPERTIES
  UsesOutbox
  SentIsSettled

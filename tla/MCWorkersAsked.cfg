\* A worker is removed and another spawned.
CONSTANTS
  c1 = c1
  c2 = c2
  Calls = {c1, c2}
  MaxFaults = 0
  MaxPanel = 1
  MaxSends = 0
  MaxEvents = 1
  Maintainer = maintainer
  None = None
SPECIFICATION Spec
PROPERTIES InitialTaskIsAsked
\* The calls end, the panel is used up, the sessions idle.
CHECK_DEADLOCK FALSE

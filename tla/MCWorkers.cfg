\* Two calls of one name; one failure, one use of the panel, one message, and two of
\* these together.
CONSTANTS
  c1 = c1
  c2 = c2
  Calls = {c1, c2}
  MaxFaults = 1
  MaxPanel = 1
  MaxSends = 1
  MaxEvents = 2
  Maintainer = maintainer
  None = None
SYMMETRY CallSymmetry
SPECIFICATION Spec
INVARIANTS OrphanHasCause GivenTwiceForCause
PROPERTIES SpawnedIsNamed
\* The calls end, the panel is used up, the sessions idle.
CHECK_DEADLOCK FALSE

CONSTANTS
  t1 = t1
  t2 = t2
  m1 = m1
  m2 = m2
  None = None
  Teams <- MCTeams
  Members <- MCMembers
  MaxRows = 1
  Window = 1
  MaxElse = 3
  MaxOpens = 3
SYMMETRY MCSymmetry
SPECIFICATION PanelSpec
INVARIANTS
  SelectionOnScreen
PROPERTIES
  RemovedAsShown
  OpensOnItsOwnTeam
CHECK_DEADLOCK FALSE

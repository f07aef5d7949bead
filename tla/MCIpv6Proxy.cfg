CONSTANTS
  p1 = p1
  p2 = p2
  mgmt = mgmt
  Ports = {p1, p2}
  Management = mgmt
  Admin = {p1}
  Rows <- RowKinds
  Procs = {q1, q2}
  None = none
  MaxRules = 2
  MaxRows = 2
  MaxFail = 1
  MaxCrash = 1
SPECIFICATION Spec
INVARIANTS TypeOK FirewallAccounted ChildrenAccounted AllOrNothing OrphansDie
PROPERTY CallsReturn

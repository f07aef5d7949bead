CONSTANTS
  ril0 = ril0
  ril1 = ril1
  Slots = {ril0, ril1}
  Default = ril0
  None = none
  MaxMoves = 2
  MaxRequests = 2
  MaxFail = 1
SPECIFICATION Spec
INVARIANTS TypeOK RestoreTimer FollowsCard
PROPERTIES OffSticks Recovers
CHECK_DEADLOCK FALSE

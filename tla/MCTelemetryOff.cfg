CONSTANTS
  MaxRec = 3
  FragLines = 2
  MaxCrash = 1
SPECIFICATION Spec
CHECK_DEADLOCK FALSE
INVARIANT OffStopsFragments

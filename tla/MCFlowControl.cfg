CONSTANTS
  Thread = {t1, t2}
  Limits = {1}
  MaxTotal = 1
  MaxFail = 1
  MaxCrash = 1
SPECIFICATION FairSpec
INVARIANTS TypeOK OneController CutsAccounted
PROPERTIES OffRestores ControllerCuts

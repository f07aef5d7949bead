CONSTANTS
  Thread = {t1, t2}
  Limits = {1, 2}
  MaxTotal = 2
  MaxFail = 0
  MaxCrash = 0
SPECIFICATION FairSpec
PROPERTY LimitEnforced

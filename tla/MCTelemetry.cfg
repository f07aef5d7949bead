CONSTANTS
  MaxRec = 3
  FragLines = 2
  MaxCrash = 1
SPECIFICATION FairSpec
CHECK_DEADLOCK FALSE
INVARIANTS TypeOK ExactlyOnce WorkerOrderly SequenceExplained
PROPERTIES DeinitReturns PendingLeaves

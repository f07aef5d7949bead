CONSTANTS
  Conn = {c1, c2}
  Addr = {a1, a2}
  NoAddr = NoAddr
  MaxReq = 3
  MaxLost = 1
  PipeMayFail = TRUE
SPECIFICATION FairSpec
INVARIANTS TypeOK HeapSafe AnswersAreOwed NoSilentDrop
PROPERTIES IsService EveryRequestSettled ShutdownEnds

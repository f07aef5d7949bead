CONSTANTS
  sms = sms
  login = login
  exact = exact
  cut = cut
  Types <- MCTypes
  Cooldowns <- MCCooldowns
  Thresholds <- MCThresholds
  Rounded <- MCRounded
  Settings <- MCSettings
  Legacy <- MCLegacy
  QueueSize = 2
  LogSize = 2
  MaxId = 2
  MaxJob = 3
  MaxTime = 2
  MaxFail = 1
  MaxStart = 2
SPECIFICATION FairSpec
CHECK_DEADLOCK FALSE
INVARIANTS TypeOK MemoryIsStored NoMissedWakeup
PROPERTIES IsOutbox CooldownRespected JobSettled DeinitReturns

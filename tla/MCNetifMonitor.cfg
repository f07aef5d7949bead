\* Three interfaces, two callers, two slots, two processes, three descriptors.
CONSTANTS
  Interfaces = {lan, wan, wlan}
  NoIf = none
  Main = main
  Threads = {main, telemetry}
  Slots = 2
  MaxProc = 2
  MaxFd = 2
  MaxFail = 1
SPECIFICATION Spec
SYMMETRY Symmetry
INVARIANTS TypeOK PidsAreOurs OneMonitor WaitsForOwnChild

\* Two interfaces, two callers, two slots, two processes, three descriptors.
CONSTANTS
  Interfaces = {lan, wan}
  NoIf = none
  Main = main
  Threads = {main, telemetry}
  Slots = 2
  MaxProc = 2
  MaxFd = 2
  MaxFail = 1
SPECIFICATION Spec
PROPERTY StopClosesPipe

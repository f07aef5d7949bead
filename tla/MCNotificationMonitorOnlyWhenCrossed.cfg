CONSTANTS
  mac = mac
  ip = ip
  lte = lte
  Macs = {mac}
  Addrs = {ip}
  Types = {lte}
  Top = 4
  NoRule = norule
  NoReading = noreading
  Lossy = {}
SPECIFICATION Spec
INVARIANT OnlyWhenCrossed
CHECK_DEADLOCK FALSE

SPECIFICATION Spec
CONSTANTS
  None = none
  Con = {1, 2}
  Vsps = {2}
  Client = {1, 2}
  MaxFd = 5
  BufCap = 2
  SockCap = 1
  NetCap = 1
  MaxOff = 1
INVARIANTS
  Served
  NoLeak
  PttReleased

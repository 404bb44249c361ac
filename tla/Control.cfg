SPECIFICATION FairSpec
CONSTANTS
  a = a
  b = b
  Client = {a, b}
  ClientOp <- ExtraAndSpeed
  NumChan = 3
  Configured = {1, 2}
  BadChannel = {2}
  HasKcfg = TRUE
  HasDisplay = FALSE
  Unsupported = {"EXTRA"}
  QMax = 2
  BeatCap = 1
  LineCap = 3
  MaxFaults = 1
  MaxOut = 1
  IdleCap = 0
INVARIANTS
  SingleChain
  CompletedOnce
  
PROPERTIES
  GetsOnline
  CommandsComplete

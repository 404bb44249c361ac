SPECIFICATION FairSpec
CONSTANTS
  Cap = 2
  MaxRx = 2
  MaxTx = 3
  Vmins = {0, 2}
  Lines = {"rts"}
  PttLines = {"rts"}
  DataIsPtt = TRUE
  OnBytes = {1}
  OffBytes = {3}
INVARIANTS
  NobodyForgotten
  NoLostPoll
  PttReleased
PROPERTIES
  BlockedWriteAnswered
  Implements

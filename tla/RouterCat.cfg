SPECIFICATION Spec
CONSTANTS
  p1 = p1
  p2 = p2
  Producer = {p1, p2}
  NoProducer = none
  ChanOf <- CatChanOf
  Limited = {"R1"}
  CatChannel = {"R1"}
  Foci = {1}
  HasFlags = TRUE
  LbBytes = 2
  LbCarry = 0
  SockCap = 2
  BufCap = 2
  OutCap = 2
  WireCap = 1
  CmdCap = 1
INVARIANT TypeOK
INVARIANT NoLostWakeup
SYMMETRY Symmetry

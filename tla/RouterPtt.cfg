SPECIFICATION Spec
CONSTANTS
  p1 = p1
  p2 = p2
  Producer = {p1, p2}
  NoProducer = none
  ChanOf <- FocusChanOf
  Limited = {}
  CatChannel = {}
  Foci = {1, 2}
  HasFlags = TRUE
  LbBytes = 1
  LbCarry = 1
  SockCap = 1
  BufCap = 1
  OutCap = 1
  WireCap = 1
  CmdCap = 1
INVARIANT HeldTogether
INVARIANT PttSync
INVARIANT KeyedByHolder

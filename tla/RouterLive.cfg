SPECIFICATION FairSpec
CONSTANTS
  p1 = p1
  p2 = p2
  Producer = {p1}
  NoProducer = none
  ChanOf <- OnePtt
  Limited = {"PTT1"}
  CatChannel = {}
  Foci = {1}
  HasFlags = TRUE
  LbBytes = 1
  LbCarry = 0
  SockCap = 1
  BufCap = 2
  OutCap = 1
  WireCap = 1
  CmdCap = 1
PROPERTY PttReachesKeyer
PROPERTY StoppedResumes

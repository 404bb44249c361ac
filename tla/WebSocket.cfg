SPECIFICATION Spec
CONSTANTS
  Con = {1}
  HardLimit = 3
  NetCap = 1
  SockCap = 2
  Split = {"text", "cont", "ping"}
  PageCap = 1
INVARIANTS
  WholeFrames
PROPERTIES
  LegalIsServed
  GivenUp

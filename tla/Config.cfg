SPECIFICATION Spec
CONSTANTS
  d1 = d1
  d2 = d2
  x = x
  c1 = c1
  c2 = c2
  Dev = {d1, d2}
  SmDev = {d1}
  UsbDev = {d2}
  Name = {x}
  NoName = NoName
  Setting <- Settings
  Update <- Updates
  Client = {c1, c2}
  NoClient = NoClient
  InitFile <- OneKeyer
  EarlyRequests = FALSE
  MaxId = 3
  MaxFail = 1
  MaxStop = 1
INVARIANTS
  Held
  RunsAsRegistered
  NamesUnique
  Durable
SYMMETRY Symmetry

SPECIFICATION FairSpec
CONSTANTS
  a = a
  b = b
  App = {a, b}
  Fd = {1, 2}
  JoinBusy = FALSE
  Kind = {"set"}
  Set = {"set"}
  OwnKind = "freq"
  OwnQueries = TRUE
  NoUnsol = {}
  Echo = TRUE
  MaxClients = 2
  PendMax = 3
  RouteMax = 3
  MaxPipe = 1
  LineCap = 2
  MaxLost = 1
  MaxLate = 0
  MaxTrx = 0
  MaxOff = 0
PROPERTIES
  WaitingIsRead

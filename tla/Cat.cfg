SPECIFICATION Spec
CONSTANTS
  a = a
  b = b
  App = {a, b}
  Fd = {1, 2}
  JoinBusy = FALSE
  Kind = {"freq"}
  Set = {}
  OwnKind = "freq"
  OwnQueries = TRUE
  NoUnsol = {b}
  Echo = FALSE
  MaxClients = 2
  PendMax = 4
  RouteMax = 3
  MaxPipe = 1
  LineCap = 2
  MaxLost = 1
  MaxLate = 1
  MaxTrx = 1
  MaxOff = 1
INVARIANTS
  OwnAlone
  TurnsExclusive
  OwnHidden
  AnswerToAsker
  AnswerReaches

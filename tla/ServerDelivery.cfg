SPECIFICATION Spec
CONSTANTS
  Conns = {c1, c2}
  Master = Master
  nick = nick
  NickOf <- MCNickOf
  MaxConnections = 1
  HandCap = 1
  RunCap = 1
  ReqCap = 1
  RingCap = 2
  Typed = {}
  Sizes = {TRUE, FALSE}
  MaxLog = 3
  MaxAsk = 0
SYMMETRY Symmetry
INVARIANTS TypeOK GapFree
PROPERTY RoomSpec
CHECK_DEADLOCK FALSE

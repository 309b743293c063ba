SPECIFICATION FairSpec
CONSTANTS
  Conns = {c1, c2}
  Master = Master
  nick = nick
  NickOf <- MCNickOf
  MaxConnections = 1
  HandCap = 1
  RunCap = 2
  ReqCap = 1
  RingCap = 1
  Typed = {"KICK"}
  Sizes = {TRUE}
  MaxLog = 0
  MaxAsk = 1
PROPERTIES ShutdownCompletes DeadServerIsNoticed ConnectionResolved
CHECK_DEADLOCK FALSE

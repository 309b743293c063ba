SPECIFICATION Spec
CONSTANTS
  Conns = {c1}
  Master = Master
  nick = nick
  NickOf <- MCNickOf
  MaxConnections = 1
  HandCap = 1
  RunCap = 1
  ReqCap = 1
  RingCap = 1
  Typed = {"KICK", "TEXT"}
  Sizes = {TRUE}
  MaxLog = 3
  MaxAsk = 1
INVARIANT NoCircularWait
CHECK_DEADLOCK FALSE

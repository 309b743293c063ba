SPECIFICATION FairSpec
CONSTANTS
  Conns = {c1}
  Master = Master
  nick = nick
  NickOf <- MCNickOf
  MaxConnections = 1
  HandCap = 1
  RunCap = 1
  ReqCap = 1
  RingCap = 1
  Typed = {}
  Sizes = {TRUE}
  MaxLog = 0
  MaxAsk = 0
PROPERTY ServedUntilItLeaves
CHECK_DEADLOCK FALSE

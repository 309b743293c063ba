SPECIFICATION Spec
CONSTANTS
  Conns = {c1}
  Master = Master
  nick = nick
  NickOf <- MCNickOf
  MaxConnections = 1
  HandCap = 2
  RunCap = 1
  ReqCap = 1
  RingCap = 1
  Typed = {"KICK", "LIST", "ZERO", "LONG"}
  Sizes = {TRUE}
  MaxLog = 1
  MaxAsk = 2
PROPERTY RoomSpec
INVARIANTS PromptAccounting NoIndexPanic NoOrphanedWait ReportedHandlersAreGone
CHECK_DEADLOCK FALSE

SPECIFICATION FairSpec
CONSTANTS
  InputCap = 1
  OutputCap = 1
  Typed = {"text", "huge", "comm", "bad"}
  MaxTyped = 3
  MaxPosts = 2
INVARIANTS TypeOK NickPromptAccounting WireIsWhole
PROPERTIES LinesInOrder ShownInOrder ClientShutdownCompletes NickWaitEnds ServerGoneEndsClient
CHECK_DEADLOCK FALSE

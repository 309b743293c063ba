SPECIFICATION Spec
CONSTANTS
  InputCap = 1
  OutputCap = 1
  Typed = {"text"}
  MaxTyped = 1
  MaxPosts = 0
INVARIANT NickIsAnAnswer
CHECK_DEADLOCK FALSE

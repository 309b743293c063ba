SPECIFICATION Spec
CONSTANTS
  Conns = {c1, c2}
  Master = Master
  MaxTyped = 3
  MaxLog = 3
SYMMETRY Symmetry
INVARIANTS TypeOK EndToEnd
CHECK_DEADLOCK FALSE

SPECIFICATION Spec
CONSTANTS
  SeqModulus = 16
  FullWidth = 10
  SeqNumbers = {9, 15}
  Nicks = {"fine"}
  MaxTexts = 1
INVARIANT SameSecretSuffices
CHECK_DEADLOCK FALSE

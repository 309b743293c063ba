SPECIFICATION FairSpec
CONSTANTS
  SeqModulus = 16
  FullWidth = 10
  SeqNumbers = {9, 10, 15}
  Nicks = {"fine", "short", "long", "huge"}
  MaxTexts = 2
INVARIANTS TypeOK SequencesAgree TurnsAreKept Agreement EndsAreExplained
PROPERTIES HandshakesEnd NoHalfOpenConnection RefusalIsTold
CHECK_DEADLOCK FALSE

SPECIFICATION FairSpec
CONSTANTS
  PlainSize = 3
  CipherSize = 5
  SeqModulus = 8
  FirstSeq = 6
  MaxPackets = 6
INVARIANTS TypeOK ClientKeepsItsPlace NothingThrownAway
PROPERTIES QueueSpec EveryPacketArrives
CHECK_DEADLOCK FALSE

SPECIFICATION Spec
CONSTANTS
  PlainSize = 3
  CipherSize = 5
  SeqModulus = 8
  FirstSeq = 6
  MaxPackets = 4
INVARIANTS HmacAlwaysVerifies
CHECK_DEADLOCK FALSE

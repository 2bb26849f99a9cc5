SPECIFICATION FairSpec
CONSTANTS
  Modulus = 16
  Window = 3
  Patience = 2
  FirstNo = 13
  LastNo = 20
  MaxLate = 3
  MaxJump = 4
  RING = 10
  FRAME = 2
  Silence = 0
  SamplesOf <- MCSamplesOf
  Requests = {2, 4}
INVARIANTS
  NoneStale
  AlwaysASlot
  JudgedRight
  StereoAligned
PROPERTIES
  InOrder
  NoneThrownAway
  WaitingIsDecoded

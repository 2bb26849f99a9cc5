SPECIFICATION Spec
CONSTANTS
  a = a
  b = b
  c = c
  d = d
  Blank = Blank
  Users <- MCUsers4
  MAX_MEMBERS = 4
  MAX_UNMERGED = 1
  MaxEpoch = 4
  MaxBatch = 2
SYMMETRY Symmetry4
INVARIANTS
  NobodyRefuses
  SameTree
  HeldKeysAreCurrent
  HoldsOrIsUnmerged
CONSTRAINT StillFollowed
CHECK_DEADLOCK FALSE

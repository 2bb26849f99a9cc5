SPECIFICATION Spec
CONSTANTS
  Channels <- MCChannels
  MaxOps = 2
  MaxMoves = 1
  MaxUpsets = 1
  MaxResumes = 1
  MaxRejoins = 1
  MaxLate = 1
INVARIANTS
  OneSocket
  IgnoredJoinIsUp
CONSTRAINT
  StillJudged
CHECK_DEADLOCK FALSE

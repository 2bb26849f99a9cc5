SPECIFICATION FairSpec
CONSTANTS
  Channels <- MCChannels
  MaxOps = 2
  MaxMoves = 0
  MaxUpsets = 1
  MaxResumes = 2
  MaxRejoins = 2
  MaxLate = 1
PROPERTIES
  CallsReturn
  EndsQuiet
CHECK_DEADLOCK FALSE

SPECIFICATION FairSpec
CONSTANTS
  A = A
  B = B
  Accounts <- MCAccounts
  First = A
  NoOne = NoOne
  MaxOps = 3
  MaxUpsets = 1
  MaxRejoins = 1
  Hasty = FALSE
INVARIANTS
  HeldIsTheCalls
  StopsAlone
PROPERTIES
  SwitchSparesCall
  LiveCallIsKept
  WaitsEnd
CHECK_DEADLOCK FALSE

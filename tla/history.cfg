SPECIFICATION Spec
CONSTANTS
  SpanCap = 20
  MaxId = 3
  Page = 1
  HardCap = 2
  Budgets <- MCBudgets
  NoteCap = 2
  Checks = 1
  MaxWire = 2
  MaxUpsets = 2
INVARIANTS
  NoHiddenHole
  RunsAreKept
  MergeIsRight
PROPERTIES
  FilledIsRecorded
CHECK_DEADLOCK FALSE

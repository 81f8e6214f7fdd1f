CONSTANTS
  Columns <- MCColumns
  Roles <- MCAttester
  BlockDue = 2
  AggDue = 3
  PTCDue = 3
  SlotDur = 4
  Prep = 0
  MaxTime = 5
  MaxWarmup = 3
SPECIFICATION Spec
CHECK_DEADLOCK FALSE
INVARIANTS PriorVoteJustified

CONSTANTS
  Columns <- MCColumns
  Roles <- MCRoles
  BlockDue = 2
  AggDue = 3
  PTCDue = 3
  SlotDur = 4
  Prep = 1
  MaxTime = 5
  MaxWarmup = 3
SPECIFICATION Spec
CHECK_DEADLOCK FALSE
INVARIANTS OneVotePerSlot BlockVoteJustified DataAvailable PriorVoteJustified
  VotedByDeadline PTCTruthful EndSlotCutsNothing
PROPERTIES EveryVoteCast

CONSTANTS
  N = 3
  V = 4
  NumSlots = 3
  K = 2
  S = 2
  Sc = 2
  NumColumns = 2
  Modes = {"committees", "base", "segregated"}
  CountDraws <- MCCounts
  MembershipDraws <- MCMemberships
  TargetAggregators = 1
  SlotDraws <- MCSlotDraws
  GraphN = 5
  Degree = 3
  GroupDegree = 2
  Groups <- MCGroups
  FinalityGroups <- MCFinalityGroups
  Shapes = {"discv5", "subnet", "peerGraph", "random", "ring"}
SPECIFICATION MCSpec
CHECK_DEADLOCK FALSE
INVARIANTS PositionsAgree DutiesSharedOut GraphSound

CONSTANTS
  Chains <- MCChains
  K = 2
  NumRounds = 3
  Partial = TRUE
  Peers = {"p", "q"}
  Topics = {"t"}
SPECIFICATION Spec
CHECK_DEADLOCK FALSE
INVARIANT PrejoinLeavesWarm

CONSTANTS
  NumSlots = 3
  Peers = {"p", "q"}
  Dials <- MCDials
SPECIFICATION Spec
CHECK_DEADLOCK FALSE
INVARIANTS NoLeakWhenPrompt FanoutLandsApart
PROPERTIES EverySlotVotes

CONSTANTS
  Items <- MCItems
  Atts <- MCAtts
  MaxBatchItems = 2
  BatchWindow = 2
  NumCalls = 6
  Parallelisms <- MCWidths
  ServiceTime = 2
  LastArrival = 5
SPECIFICATION MCSpec
CHECK_DEADLOCK FALSE
INVARIANTS NoLostWakeup LatencyBound NoFasterThanWidth
PROPERTIES BatchesMaximal WindowSpacing ImplementsService

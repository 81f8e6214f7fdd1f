CONSTANTS
  N = 3
  Backends = {"shadow", "simnet"}
  Startup = 7
  DialJitter = 2
  MeshJoinStagger = 4
  Settle = 2
  MaxDial = 1
  SlotDur = 2
  NumSlots = 2
  DrainWindow = 3
  StopMargin = 3
  Minute = 4
  StopMinutes = 1
  MaxFail = 1
  Configs <- MCConfigs
  SlotMs = 12000
  K = 2
  Hosts = {1, 2}
  StaggerMs = 30000
  Fleet <- MCFleet
  Programs <- MCPrograms
  Proposer = 1
  Custody <- MCCustody
  Aggregators = {1, 3}
  Due = 1
  MaxTime = 2
  MaxCopies <- MCCopies
SPECIFICATION MCSpec
CHECK_DEADLOCK FALSE
INVARIANTS RunsAsConfigured RunFramed RateMatchesGate FiguresTruthful
PROPERTY EveryRunEnds

SPECIFICATION FairSpec
CONSTANTS
  PROCESS_MAX_PROCS = 3
  MAX_SEMS = 1
  MAX_LOCKS = 0
  MAX_CONDS = 1
  InitialCounts <- MCCounts
  SemCountBound = 1
PROPERTIES
  SignalsServeSleepers

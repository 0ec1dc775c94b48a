SPECIFICATION Spec
CONSTANTS
  PROCESS_MAX_PROCS = 3
  MAX_SEMS = 0
  MAX_LOCKS = 0
  MAX_CONDS = 0
  InitialCounts <- MCCounts
  SemCountBound = 1
PROPERTY RotatesTheRunning

SPECIFICATION Spec
CONSTANTS
  PROCESS_MAX_PROCS = 2
  MAX_SEMS = 0
  MAX_LOCKS = 1
  MAX_CONDS = 0
  InitialCounts <- MCCounts
  SemCountBound = 1
INVARIANT OwnerExists

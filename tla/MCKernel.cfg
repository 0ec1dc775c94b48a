SPECIFICATION Spec
CONSTANTS
  PROCESS_MAX_PROCS = 3
  MAX_SEMS = 1
  MAX_LOCKS = 1
  MAX_CONDS = 1
  InitialCounts <- MCCounts
  SemCountBound = 1
INVARIANTS
  TypeOK
  QueueInv
  SleepersInv
  NoSleeperWithUnits
  LockInv
  WokenOwnsLock
PROPERTIES
  FirstComeFirstServed
  GrantsAreBacked
  OnlyOwnerGivesUp
  ImplementsServices

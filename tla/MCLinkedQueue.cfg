SPECIFICATION Spec
CONSTANTS
  p1 = p1
  p2 = p2
  p3 = p3
  runQueue = runQueue
  waiting = waiting
  QUEUE_MAX_LINKS = 6
  SchedQueue = {runQueue, zombieQueue}
  WaitingQueue = {waiting}
  FreeQueue = runQueue
  zombieQueue = zombieQueue
  freeLinks = freeLinks
  Object = {p1, p2, p3}
  InitialOrder <- MCOrder
INVARIANTS
  ListsWellFormed
  PCBLinksValid
  NeverFails
PROPERTY ImplementsSequences
SYMMETRY Symmetry
VIEW View

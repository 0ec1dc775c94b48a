SPECIFICATION Spec
CONSTANTS
  WORD_BITS = 3
  pagestart = 1
  maxpage = 7
  Process = {p1, p2, p3}
  PROCESS_MAX_PAGES = 2
  MEMORY_MAX_SHARED_PAGES = 2
  PAGE_SIZE = 2
  MAPS_FIRST = TRUE
INVARIANTS
  TypeOK
  MemoryAgrees
  PrivatePagesAreOwned
  HeldPagesAreNotFree
  NoPageLost
  CopyIsComplete
SYMMETRY Symmetry
VIEW MCView

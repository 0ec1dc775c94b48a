SPECIFICATION Spec
CONSTANTS
  WORD_BITS = 3
  pagestart = 1
  maxpage = 8
  Process = {p1, p2, p3}
  PROCESS_MAX_PAGES = 3
  MEMORY_MAX_SHARED_PAGES = 3
  PAGE_SIZE = 2
  MAPS_FIRST = FALSE
INVARIANTS
  HeldPagesAreNotFree
SYMMETRY Symmetry

SPECIFICATION FairSpec
CONSTANTS
  NoOwner = NoOwner
  makeprocs = "makeprocs"
  Producer = {"p1", "p2"}
  Consumer = {"c1", "c2"}
  ITEMS = 2
  BUFFER_SIZE = 3
  MAX_N3 = 2
  MAX_H2O = 4
  Apps = {"q2", "q3", "q4", "q5"}
INVARIANTS
  ReturnsLast
  MutualExclusion
  TestStillHolds
  HeadIsExpected
  AtomsConserved
PROPERTIES
  ImplementsBoundedBuffer
  MakeprocsReturns

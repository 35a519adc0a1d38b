SPECIFICATION FairSpec
CONSTANTS
  MaxElements = 4
  InitialCapacity = 1
INVARIANTS
  Inv
  SetsCounted
PROPERTIES
  FindReturnsRep
  QuickUnionUnites
  FindEnds

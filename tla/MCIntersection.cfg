SPECIFICATION IntersectionSpec
CONSTANTS
  Leaves <- WithSpare
  Inner = {1, 2, 3, 4, 5, 6, 7, 8}
  Nil = Nil
  InitTrees <- SomeTrees
  Requests = {}
  NewRoots = {}
  Others <- OtherTrees
  LeafOrder <- SixLeaves
INVARIANTS
  IntersectionExact
  RestoredWhole
PROPERTIES
  IntersectReturns

SPECIFICATION Spec
CONSTANTS
  Leaves <- SevenLeaves
  Inner = {1, 2, 3, 4, 5, 6, 7, 8}
  Nil = Nil
  InitTrees <- Shapes
  Requests <- OnePerSubset
  NewRoots <- NoRoots
CONSTRAINT OneCall
VIEW WithoutLeftovers
INVARIANTS
  TerminalPathExact
  LengthCounted
  MergePointsExact
  NoOrderLostOrAdded
PROPERTIES
  AnswerExact
  OffPathKept

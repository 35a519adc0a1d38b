SPECIFICATION Spec
CONSTANTS
  l1 = l1
  l2 = l2
  l3 = l3
  l4 = l4
  l5 = l5
  Leaves <- FiveLeaves
  Inner = {1, 2, 3, 4, 5, 6}
  Nil = Nil
  InitTrees <- Stars
  Requests <- AllRequests
  NewRoots <- Inner
VIEW WithoutLeftovers
SYMMETRY LeavesAlike
INVARIANTS
  ValidTree
  LabelsExact
PROPERTIES
  PromiseKept

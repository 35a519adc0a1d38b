SPECIFICATION Spec
CONSTANTS
  n1 = n1
  n2 = n2
  n3 = n3
  n4 = n4
  n5 = n5
  Leaves <- NoLeaves
  Inner <- FiveNodes
  Nil = Nil
  MinDegree = 3
SYMMETRY Alike
INVARIANTS
  AssertionsHold
  WellLinked
  IterationExact
PROPERTIES
  EditsTheList

SPECIFICATION Spec
CONSTANTS
  n1 = n1
  n2 = n2
  n3 = n3
  n4 = n4
  Node <- FourNodes
  MaxIds = 3
  Nil = Nil
SYMMETRY NodesAlike
INVARIANTS
  ParentExact
  TableExact
  OutReserved
  PoolLinked
  CountsExact

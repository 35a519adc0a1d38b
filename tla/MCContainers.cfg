SPECIFICATION SpecAll
CONSTANTS
  Registries = {r1, r2}
  Arrays = {a1, a2}
  Entries = {e1, e2}
  Values = {v1, v2}
  Nil = Nil
  Null = Null
  TableSize <- TightTable
  MaxIds = 2
  Node = {x1, x2, x3, x4}
  List = {l1, l2}
VIEW WithoutLeftovers
SYMMETRY Alike
INVARIANTS
  RegistrationsExact
  KeysCovered
  PromisesKept
  ListsLinked

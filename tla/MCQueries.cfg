SPECIFICATION SpecAll
CONSTANTS
  Leaves <- SevenLeaves
  Inner = {1, 2, 3, 4}
  Nil = Nil
  Trees <- SomeTrees
CHECK_DEADLOCK FALSE
INVARIANTS
  AssertionsHold
  ExportExact
  CountExact
PROPERTIES
  Enumerates
  QueriesEnd

SPECIFICATION RandomSpec
CONSTANTS
  Leaves <- SixLeaves
  Inner = {1, 2, 3}
  Nil = Nil
  Trees <- WithCNodes
  Index <- SameIds
CHECK_DEADLOCK FALSE
INVARIANTS
  RandomAdmissible

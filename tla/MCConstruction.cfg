SPECIFICATION Spec
CONSTANTS
  Leaves = {11, 12, 13, 14, 15, 16, 17, 18, 19, 20}
  Inner = {1, 2, 3}
  Nil = Nil
  Trees = {"main", "other"}
  Starts <- Forests
  MaxCalls = 2
  MaxLeaves = 3
  MaxOrders = 6
INVARIANTS
  NothingLost
PROPERTIES
  ValidityKept
  OrdersKept
CONSTRAINT FewCalls

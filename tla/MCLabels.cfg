SPECIFICATION Spec
CONSTANTS
  x1 = x1
  x2 = x2
  d1 = d1
  Node <- TwoNodes
  Data <- OneDatum
  Cleared = Cleared
  Junk = Junk
  MaxTimestamp = 2
SYMMETRY NodesAlike
INVARIANTS
  StampsBehind
PROPERTIES
  ClearsEagerly

SPECIFICATION Spec
CONSTANTS
  Session = {s1, s2}
  Node = {n1, n2}
  MaxFaults = 1
  MaxLosses = 1
INVARIANTS SavesDurable
PROPERTIES LoadsLatest

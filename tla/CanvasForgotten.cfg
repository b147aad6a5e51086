SPECIFICATION Spec
CONSTANTS
  Session = {s1}
  Node = {n1, n2}
  MaxFaults = 1
  MaxLosses = 0
INVARIANT LossVisible

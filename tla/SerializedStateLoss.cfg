\* The overlap of two dispatches, without any crash.
SPECIFICATION Spec
CONSTANTS
  Proc = {p1, p2}
  Event = {e1, e2}
  MaxAttempts = 1
  MaxFaults = 0
INVARIANTS
  DispatchesDurable
CHECK_DEADLOCK FALSE

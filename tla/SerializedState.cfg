SPECIFICATION FairSpec
CONSTANTS
  Proc = {p1, p2}
  Event = {e1, e2}
  MaxAttempts = 2
  MaxFaults = 2
INVARIANTS
  TypeOK
  LockOwnership
  SoloUpdatesDurable
PROPERTIES
  SoloUpdatesAtomic
  DispatchReturns
CHECK_DEADLOCK FALSE

SPECIFICATION FairSpec
CONSTANTS
  Call = {a, p}
  Parallel = {p}
  Unread = {a}
  MaxItems = 2
  MaxChildren = 2
INVARIANTS
  TypeOK
  CapacityKept
  LiveChildReported
  CancelHolds
PROPERTIES
  CallsEnd
  PoolImplemented
CHECK_DEADLOCK FALSE

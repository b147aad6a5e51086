SPECIFICATION FairSpec
CONSTANTS
  Side = {s1, s2}
  Batch = {b}
  ToolCall = {c1}
  Project = {A, B}
  Worked = {A}
  Dispatching = {s1}
  Repeats = FALSE
INVARIANTS TypeOK DispatchOwned QueueRestorable PrimaryHeld LeftSettled
PROPERTIES NeverRunAgain SuspendedReturns
CHECK_DEADLOCK FALSE

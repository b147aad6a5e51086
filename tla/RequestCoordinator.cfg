SPECIFICATION Spec
CONSTANTS
  Session = {s1, s2}
  Request = {r1, r2}
  Key = {k1}
  Sidecar = {q1}
  MaxRequests = 2
  MaxDisruptions = 3
INVARIANTS
  TypeOK
  ReceiptsMatchOutbox
  AwaitedContinuation
PROPERTIES
  SettledNotRepeated
  CompletionIsQuiet
SYMMETRY Symmetry
CHECK_DEADLOCK FALSE

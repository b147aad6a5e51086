SPECIFICATION ReadySpec
CONSTANTS
  Session = {s1, s2}
  Candidate = {c1, c2}
  MaxRevision = 9
  MaxFaults = 1
PROPERTIES
  ClaimedAndDispatched
SYMMETRY Symmetry
VIEW UpToStaleness
CHECK_DEADLOCK FALSE

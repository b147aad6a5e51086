SPECIFICATION ReadySpec
CONSTANTS
  Session = {s1, s2}
  Candidate = {c1, c2}
  MaxRevision = 8
  MaxFaults = 1
INVARIANTS
  TypeOK
  ClaimMatchesCandidate
PROPERTIES
  ClaimNotStolen
  ClaimOnInspected
SYMMETRY Symmetry
VIEW UpToStaleness
CHECK_DEADLOCK FALSE

SPECIFICATION Spec
CONSTANTS
  MaxInputs = 2
  MaxBatches = 2
  MaxRequests = 1
  MaxFaults = 1
INVARIANTS
  TypeOK
  OneExecutionInFlight
  AdmittedIsOwed
  ActiveHoldsClaims
PROPERTIES
  ExecutionsAdvance
  DecisionsComplete

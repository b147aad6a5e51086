SPECIFICATION Spec
CONSTANTS
  MaxInputs = 2
  MaxBatches = 2
  MaxRequests = 1
  MaxFaults = 0
INVARIANT
  AcceptedSettled

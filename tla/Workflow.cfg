SPECIFICATION FairSpec
CONSTANTS
  c1 = c1  c2 = c2  a = a  b = b  d = d
  Call = {c1, c2}
  Step = {a, b, d}
  Plans <- MCPlans
  Limit = 2
INVARIANTS TypeOK OrderKept SlotsShared StepsAccounted
PROPERTIES WorkflowsEnd
CHECK_DEADLOCK FALSE

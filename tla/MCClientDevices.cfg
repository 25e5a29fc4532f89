CONSTANTS
  d1 = d1
  d2 = d2
  d3 = d3
  e1 = e1
  e2 = e2
  Devices = {d1, d2, d3}
  EndpointOf <- MCEndpointOf
  MaxLoads = 2
  SendCap = 1
  Budgets <- MCBudgets
SPECIFICATION FairSpec
INVARIANT BoxesTruthful
PROPERTY CardsCatchUp
CHECK_DEADLOCK FALSE

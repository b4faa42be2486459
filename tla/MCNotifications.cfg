SPECIFICATION Spec
CONSTANTS
  c1 = c1
  c2 = c2
  Items = {i1, i2}
  Customers = {c1, c2}
  Owner = c1
  Wants <- MCWants
  Reachable <- MCReachable
  Loaded <- MCLoaded
  Documents = {d}
  Disruptions = {x}
  ManualStatuses = {"CUSTOMS_CLEARED"}
  Workers = {k1, k2}
  Hooks = {h}
  None = None
  MaxRequests = 2
  MaxFailures = 1
CHECK_DEADLOCK FALSE
INVARIANTS
  RecordsAreTrue
  NoSecondFinalEmail
PROPERTIES
  ReadIsKept
  EveryoneTold

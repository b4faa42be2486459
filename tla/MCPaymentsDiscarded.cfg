SPECIFICATION Spec
CONSTANTS
  Sessions = {p1, p2, p3}
  Workers = {k1}
  Total = 3
  Amounts = {1, 2}
  MaxFailures = 0
INVARIANT
  ChargeNeverDiscarded
\* The invoice is paid and every event acknowledged: nothing is left to do.
CHECK_DEADLOCK FALSE

SPECIFICATION ApartSpec
CONSTANTS
  Sessions = {p1, p2, p3}
  Workers = {k1, k2}
  Total = 3
  Amounts = {1, 2}
  MaxFailures = 1
INVARIANTS
  AmountIsRight
  PendingCoversBalance
  OnePendingRow
PROPERTIES
  ChargeSettled
\* The invoice is paid and every event acknowledged: nothing is left to do.
CHECK_DEADLOCK FALSE

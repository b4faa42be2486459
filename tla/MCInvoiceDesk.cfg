SPECIFICATION DeskSpec
CONSTANTS
  Sessions = {p1, p2}
  Workers = {k1}
  Total = 3
  Amounts = {1}
  MaxFailures = 1
  c1 = c1
  c2 = c2
  s1 = s1
  s2 = s2
  Customers = {c1, c2}
  Shipments = {s1, s2}
  OwnerOf <- MCOwnerOf
  Tabs = {t}
  Attempts = 2
  None = None
  MaxVisits = 1
INVARIANTS
  DeskIsRight
PROPERTIES
  PagesAnswer
\* The invoice is paid and the pages are still: nothing is left to do.
CHECK_DEADLOCK FALSE

SPECIFICATION ViewsSpec
CONSTANTS
  c1 = c1
  c2 = c2
  s1 = s1
  s2 = s2
  n1 = n1
  n2 = n2
  r1 = r1
  Customers = {c1, c2}
  Shipments = {s1, s2}
  Invoices = {n1, n2}
  Exceptions = {e}
  OwnerOf <- MCOwnerOf
  ModeOf <- MCModeOf
  DestinationOf <- MCDestinationOf
  RouteOf <- MCRouteOf
  BillOf <- MCBillOf
  CurrencyOf <- MCCurrencyOf
  Total = 2
  AgeLimits <- MCAgeLimits
  StaleDays = 1
  TopRows = 1
  ReceiptCap = 1
  DueDays <- MCDueDays
  None = None
  LastDay = 1
  Filters = {f, g}
  MaxSteps = 3
INVARIANTS
  PageHangsTogether
  FiguresAgree
PROPERTIES
  PageSettles
CHECK_DEADLOCK FALSE

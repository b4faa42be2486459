SPECIFICATION Spec
CONSTANTS
  Prospects = {p, q}
  Workers = {1, 2}
  None = None
  Slow = {p}
  Offers = {"promo", "trial"}
  PromoMax = 1
  MaxCheckouts = 1
  MaxPrices = 1
  MaxFailures = 1
INVARIANTS
  ProvisionedOnce
  NothingSaidInVain
CHECK_DEADLOCK FALSE

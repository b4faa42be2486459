SPECIFICATION ManifestDeskSpec
CONSTANTS
  i1 = i1
  i2 = i2
  s1 = s1
  w1 = w1
  c1 = c1
  air = air
  ocean = ocean
  None = None
  Shipments = {s1}
  Items = {i1, i2}
  Warehouses = {w1}
  Containers = {c1}
  Manifests = {air, ocean}
  ShipmentOf <- MCShipmentOf
  ContainerWarehouse <- MCContainerWarehouse
  ModeOf <- MCModeOf
  ManifestOrigin <- MCManifestOrigin
  ManualEvents = {}
  Pages <- BothPages
  Filters <- MCFilters
  MaxSteps = 3
SYMMETRY Sym
CHECK_DEADLOCK FALSE
INVARIANTS
  PageIsTrue
  CreatedCanFinalize

SPECIFICATION WorkspaceSpec
CONSTANTS
  i1 = i1
  i2 = i2
  s1 = s1
  w1 = w1
  c1 = c1
  ocean = ocean
  None = None
  Shipments = {s1}
  Items = {i1, i2}
  Warehouses = {w1}
  Containers = {c1}
  Manifests = {ocean}
  Here = w1
  Modes <- AllModes
  MaxSteps = 3
  ShipmentOf <- MCShipmentOf
  ContainerWarehouse <- MCContainerWarehouse
  ModeOf <- MCModeOf
  ManifestOrigin <- MCManifestOrigin
  ManualEvents = {}
SYMMETRY Sym
CHECK_DEADLOCK FALSE
INVARIANTS
  FormIsForItsItem
  FlagsAreRight
  AlreadyReceived

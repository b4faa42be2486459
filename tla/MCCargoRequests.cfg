SPECIFICATION RequestsSpec
CONSTANTS
  i1 = i1
  i2 = i2
  s1 = s1
  w1 = w1
  c1 = c1
  ocean = ocean
  air = air
  k1 = k1
  None = None
  Shipments = {s1}
  Items = {i1, i2}
  Warehouses = {w1}
  Containers = {c1}
  Manifests = {ocean, air}
  Workers = {k1}
  MaxFailures = 1
  ShipmentOf <- MCShipmentOf
  ContainerWarehouse <- MCContainerWarehouse
  ModeOf <- MCModeOf
  ManifestOrigin <- MCManifestOrigin
  ManualEvents <- OnlyCancelShipment
INVARIANTS
  SafeBetweenWrites
PROPERTIES
  ImplementsCargo
\* Every item handed over and every transport closed: nothing is left to do.
CHECK_DEADLOCK FALSE

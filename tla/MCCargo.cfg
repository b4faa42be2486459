SPECIFICATION Spec
CONSTANTS
  i1 = i1
  i2 = i2
  s1 = s1
  w1 = w1
  w2 = w2
  c1 = c1
  c2 = c2
  ocean = ocean
  ocean2 = ocean2
  air = air
  None = None
  Shipments = {s1}
  Items = {i1, i2}
  Warehouses = {w1, w2}
  Containers = {c1, c2}
  Manifests = {ocean, ocean2, air}
  ShipmentOf <- MCShipmentOf
  ContainerWarehouse <- MCContainerWarehouse
  ModeOf <- MCModeOf
  ManifestOrigin <- MCManifestOrigin
  ManualEvents <- OnlyCancelShipment
INVARIANTS
  TypeOK
  BookedIffEmpty
  ContainersFollowManifest
  SnapshotIsCargo
  OneOpenTransport
  StatusMatchesTransport
  InventoryKeptUp
  HandedOverOnce
  CompletedWithItsItems
  OfferedAsAccepted
PROPERTY
  ShipmentOnlyForward
\* Every item handed over and every transport closed: nothing is left to do.
CHECK_DEADLOCK FALSE

-------------------------------- MODULE Cargo --------------------------------
(***************************************************************************)
(* The physical life of cargo: shipments and their items, warehouse        *)
(* receiving and processing, loading into containers, direct assignment    *)
(* to air manifests, departure, arrival, destination receiving and         *)
(* hand-over, with the rollups that carry item progress to the shipment.   *)
(*                                                                         *)
(* One action is one request, run alone from its first read to its last    *)
(* write: ShipmentsService, WarehouseService, ContainersService and        *)
(* ManifestsService as staff calling them one at a time see them. What     *)
(* overlapping and interrupted requests do is module CargoRequests.        *)
(*                                                                         *)
(* Left out: the tenant (every query is scoped to one), routes and their   *)
(* destination checks, measurements, condition, transport details, the     *)
(* append-only TrackingEvent and ItemInspection rows, notifications, and   *)
(* the DISPATCH records, which no guard reads.                             *)
(***************************************************************************)
EXTENDS CargoStatus, Naturals

CONSTANTS
  Shipments, Items, Warehouses, Containers, Manifests,
  None,               \* null
  ShipmentOf,         \* item -> the shipment it belongs to
  ContainerWarehouse, \* container -> where it loads, or None; set at creation
  ModeOf,             \* manifest -> "AIR" or "OCEAN" (any container mode)
  ManifestOrigin,     \* manifest -> its origin warehouse, or None
  ManualEvents        \* what staff write through POST tracking-events

ManualEventType ==
  [status: ShipmentStatuses \cup {None}, itemStatus: ItemStatuses \cup {None},
   receiving: BOOLEAN, warehouse: Warehouses \cup {None}]

ASSUME NoneAssumption ==
  None \notin Warehouses \cup Manifests \cup Items \cup ShipmentStatuses \cup ItemStatuses
ASSUME ShipmentOfAssumption == ShipmentOf \in [Items -> Shipments]
ASSUME PlaceAssumption ==
  /\ ContainerWarehouse \in [Containers -> Warehouses \cup {None}]
  /\ ManifestOrigin \in [Manifests -> Warehouses \cup {None}]
ASSUME TransportAssumption == Containers \cap Manifests = {}
ASSUME ModeAssumption == ModeOf \in [Manifests -> {"AIR", "OCEAN"}]
ASSUME ManualAssumption == ManualEvents \subseteq ManualEventType

VARIABLES
  shipmentStatus,   \* Shipment.status
  itemStatus,       \* ShipmentItem.status
  currentWarehouse, \* ShipmentItem.currentWarehouseId
  received,         \* ShipmentItem.receivedAt is set
  handoffs,         \* number of PICKUP and DELIVERY PickupDeliveryRecord rows
  containerStatus,  \* Container.status
  manifestId,       \* Container.manifestId
  containerItems,   \* number of ContainerItem rows with removedAt null
  manifestStatus,   \* Manifest.status
  manifestItems,    \* number of ManifestItem rows with removedAt null
  snapshot          \* the items listed in Manifest.snapshotJson

shipmentVars == <<shipmentStatus>>
itemVars == <<itemStatus, currentWarehouse, received, handoffs>>
containerVars == <<containerStatus, manifestId, containerItems>>
manifestVars == <<manifestStatus, manifestItems, snapshot>>
vars == <<shipmentVars, itemVars, containerVars, manifestVars>>

-----------------------------------------------------------------------------
ItemsOf(s) == {i \in Items : ShipmentOf[i] = s}

\* The statuses of the items of s, under the item table f.
StatusesIn(f, s) == {f[i] : i \in ItemsOf(s)} \ {NotCreated}

Created(i) == itemStatus[i] # NotCreated
Aboard(c) == {i \in Items : containerItems[c][i] > 0}
Listed(m) == {i \in Items : manifestItems[m][i] > 0}
ContainersOn(m) == {c \in Containers : manifestId[c] = m}

\* The items a manifest moves: its own for air, its containers' otherwise.
CargoOf(m) ==
  IF ModeOf[m] = "AIR" THEN Listed(m) ELSE UNION {Aboard(c) : c \in ContainersOn(m)}

-----------------------------------------------------------------------------
Init ==
  /\ shipmentStatus = [s \in Shipments |-> NotCreated]
  /\ itemStatus = [i \in Items |-> NotCreated]
  /\ currentWarehouse = [i \in Items |-> None]
  /\ received = [i \in Items |-> FALSE]
  /\ handoffs = [i \in Items |-> 0]
  /\ containerStatus = [c \in Containers |-> NotCreated]
  /\ manifestId = [c \in Containers |-> None]
  /\ containerItems = [c \in Containers |-> [i \in Items |-> 0]]
  /\ manifestStatus = [m \in Manifests |-> NotCreated]
  /\ manifestItems = [m \in Manifests |-> [i \in Items |-> 0]]
  /\ snapshot = [m \in Manifests |-> {}]

\* ShipmentsService.createTrackingEvent with an itemStatus: for one item, and
\* for each item of a set in turn.
SetItem(i, to) == itemStatus' = [itemStatus EXCEPT ![i] = to]
SetItems(I, to) == itemStatus' = [i \in Items |-> IF i \in I THEN to ELSE itemStatus[i]]

\* A rollup re-reads the shipment and its items after the items' new statuses
\* are committed, and writes the shipment's status.
Rollup(S, Rule(_, _)) ==
  shipmentStatus' =
    [s \in Shipments |->
       IF s \in S THEN Rule(shipmentStatus[s], StatusesIn(itemStatus', s))
                  ELSE shipmentStatus[s]]

ShipmentsOf(I) == {ShipmentOf[i] : i \in I}

-----------------------------------------------------------------------------
\* ShipmentsService: create (a shipment and its first items in one
\* transaction), addItem, and the staff endpoint of createTrackingEvent.

CreateShipment(s, I) ==
  /\ shipmentStatus[s] = NotCreated
  /\ I \subseteq ItemsOf(s)
  /\ shipmentStatus' = [shipmentStatus EXCEPT ![s] = "DRAFT"]
  /\ SetItems(I, "REGISTERED")
  /\ UNCHANGED <<currentWarehouse, received, handoffs, containerVars, manifestVars>>

AddItem(i) ==
  /\ shipmentStatus[ShipmentOf[i]] # NotCreated
  /\ ~ Created(i)
  /\ SetItem(i, "REGISTERED")
  /\ UNCHANGED <<shipmentVars, currentWarehouse, received, handoffs,
                 containerVars, manifestVars>>

\* i is None for an event about the shipment alone. There is no transition
\* check, and no rollup follows.
ManualTrackingEvent(s, i, e) ==
  /\ shipmentStatus[s] # NotCreated
  /\ i = None \/ (i \in ItemsOf(s) /\ Created(i))
  /\ e.itemStatus # None => i # None
  /\ shipmentStatus' =
       [shipmentStatus EXCEPT ![s] = IF e.status = None THEN @ ELSE e.status]
  /\ itemStatus' =
       [j \in Items |->
          IF j = i /\ e.itemStatus # None THEN e.itemStatus ELSE itemStatus[j]]
  /\ received' = [j \in Items |-> received[j] \/ (j = i /\ e.receiving)]
  /\ currentWarehouse' =
       [j \in Items |->
          IF j = i /\ e.receiving /\ e.warehouse # None THEN e.warehouse
          ELSE currentWarehouse[j]]
  /\ UNCHANGED <<handoffs, containerVars, manifestVars>>

-----------------------------------------------------------------------------
\* WarehouseService. Every handler refuses an item whose status is not the one
\* it expects, or whose shipment is cancelled.

Eligible(i, from) ==
  /\ itemStatus[i] \in from
  /\ shipmentStatus[ShipmentOf[i]] # "CANCELLED"

ReceivedIn(f, s) == {f[i] : i \in {j \in ItemsOf(s) : Created(j)}}

ReceiveItem(i, w) ==
  /\ Eligible(i, {"REGISTERED"})
  /\ SetItem(i, "RECEIVED_ORIGIN_WAREHOUSE")
  /\ received' = [received EXCEPT ![i] = TRUE]
  /\ currentWarehouse' = [currentWarehouse EXCEPT ![i] = w]
  /\ shipmentStatus' =
       [shipmentStatus EXCEPT ![ShipmentOf[i]] =
          RollupReceived(@, ReceivedIn(received', ShipmentOf[i]))]
  /\ UNCHANGED <<handoffs, containerVars, manifestVars>>

\* Mistake for StatusMatchesTransport: a loaded item may be reinspected.
ProcessableEvenLoaded ==
  {"RECEIVED_ORIGIN_WAREHOUSE", "PROCESSED", "EXCEPTION", "ASSIGNED_TO_CONTAINER"}
Processable == {"RECEIVED_ORIGIN_WAREHOUSE", "PROCESSED", "EXCEPTION"}

CanProcess(i, w) == Eligible(i, Processable) /\ currentWarehouse[i] = w
AtDesk(i, w) == Eligible(i, {"RECEIVED_DESTINATION_WAREHOUSE"}) /\ currentWarehouse[i] = w
WithDriver(i) == Eligible(i, {"OUT_FOR_DELIVERY"})

\* First processing, or a deliberate reinspection of a processed or held item.
\* ready: the result is READY rather than HOLD.
ProcessItem(i, w, ready) ==
  /\ CanProcess(i, w)
  /\ SetItem(i, IF ready THEN "PROCESSED" ELSE "EXCEPTION")
  /\ Rollup({ShipmentOf[i]}, RollupProcessing)
  /\ UNCHANGED <<currentWarehouse, received, handoffs, containerVars, manifestVars>>

\* A damaged or flagged item goes on hold, and only a good one is stamped with
\* the warehouse it is now in: EXCEPTION is not a receiving event.
DestinationReceiveItem(i, w, good) ==
  /\ Eligible(i, {"ARRIVED_DESTINATION"})
  /\ SetItem(i, IF good THEN "RECEIVED_DESTINATION_WAREHOUSE" ELSE "EXCEPTION")
  /\ received' = [received EXCEPT ![i] = @ \/ good]
  /\ currentWarehouse' = [currentWarehouse EXCEPT ![i] = IF good THEN w ELSE @]
  /\ Rollup({ShipmentOf[i]}, RollupReadyForPickup)
  /\ UNCHANGED <<handoffs, containerVars, manifestVars>>

PickupItem(i, w) ==
  /\ AtDesk(i, w)
  /\ SetItem(i, "PICKED_UP")
  /\ currentWarehouse' = [currentWarehouse EXCEPT ![i] = None]
  /\ handoffs' = [handoffs EXCEPT ![i] = @ + 1]
  /\ Rollup({ShipmentOf[i]}, RollupCompletion)
  /\ UNCHANGED <<received, containerVars, manifestVars>>

\* Mistake for InventoryKeptUp: the item stays in the warehouse's inventory.
DispatchInPlace(i, w) ==
  /\ AtDesk(i, w)
  /\ SetItem(i, "OUT_FOR_DELIVERY")
  /\ Rollup({ShipmentOf[i]}, RollupOutForDelivery)
  /\ UNCHANGED <<currentWarehouse, received, handoffs, containerVars, manifestVars>>

DispatchItem(i, w) ==
  /\ AtDesk(i, w)
  /\ SetItem(i, "OUT_FOR_DELIVERY")
  /\ currentWarehouse' = [currentWarehouse EXCEPT ![i] = None]
  /\ Rollup({ShipmentOf[i]}, RollupOutForDelivery)
  /\ UNCHANGED <<received, handoffs, containerVars, manifestVars>>

RollupDeliver(sh, its) == RollupCompletion(RollupDelivered(sh, its), its)

\* Mistake for HandedOverOnce: a second confirmation is accepted.
DeliverAgain(i) ==
  /\ Eligible(i, {"OUT_FOR_DELIVERY", "DELIVERED"})
  /\ SetItem(i, "DELIVERED")
  /\ handoffs' = [handoffs EXCEPT ![i] = @ + 1]
  /\ Rollup({ShipmentOf[i]}, RollupDeliver)
  /\ UNCHANGED <<currentWarehouse, received, containerVars, manifestVars>>

DeliverItem(i) ==
  /\ WithDriver(i)
  /\ SetItem(i, "DELIVERED")
  /\ handoffs' = [handoffs EXCEPT ![i] = @ + 1]
  /\ Rollup({ShipmentOf[i]}, RollupDeliver)
  /\ UNCHANGED <<currentWarehouse, received, containerVars, manifestVars>>

\* A failed delivery is back in warehouse w: ready to retry, or on hold.
ReturnItem(i, w, retry) ==
  /\ WithDriver(i)
  /\ SetItem(i, IF retry THEN "RECEIVED_DESTINATION_WAREHOUSE" ELSE "EXCEPTION")
  /\ currentWarehouse' = [currentWarehouse EXCEPT ![i] = w]
  /\ UNCHANGED <<shipmentVars, received, handoffs, containerVars, manifestVars>>

-----------------------------------------------------------------------------
\* ContainersService.

CreateContainer(c) ==
  /\ containerStatus[c] = NotCreated
  /\ containerStatus' = [containerStatus EXCEPT ![c] = "BOOKED"]
  /\ UNCHANGED <<shipmentVars, itemVars, manifestId, containerItems, manifestVars>>

\* Mistake for OneOpenTransport: "processed or later" instead of PROCESSED.
CanLoadCommitted(c, i) ==
  /\ containerStatus[c] \in {"BOOKED", "LOADING"}
  /\ ContainerWarehouse[c] # None
  /\ Eligible(i, {"PROCESSED", "ASSIGNED_TO_MANIFEST"})
  /\ currentWarehouse[i] = ContainerWarehouse[c]

CanLoad(c, i) ==
  /\ containerStatus[c] \in {"BOOKED", "LOADING"}
  /\ ContainerWarehouse[c] # None
  /\ Eligible(i, {"PROCESSED"})
  /\ currentWarehouse[i] = ContainerWarehouse[c]

LoadItem(c, i) ==
  /\ CanLoad(c, i)
  /\ SetItem(i, "ASSIGNED_TO_CONTAINER")
  /\ containerItems' = [containerItems EXCEPT ![c][i] = @ + 1]
  /\ containerStatus' = [containerStatus EXCEPT ![c] = "LOADING"]
  /\ Rollup({ShipmentOf[i]}, RollupByContainers)
  /\ UNCHANGED <<currentWarehouse, received, handoffs, manifestId, manifestVars>>

\* Mistake for BookedIffEmpty: the last removal does not reopen the booking.
AfterUnloadKept(status, items) == status

\* The status the container is left in once its rows are as in items.
AfterUnload(status, items) ==
  IF status = "LOADING" /\ \A i \in Items : items[i] = 0 THEN "BOOKED" ELSE status

\* Mistake for TypeOK: the item's active row is not looked up.
CanUnloadAnything(c, i) == containerStatus[c] \in {"BOOKED", "LOADING"}

CanUnload(c, i) ==
  /\ containerStatus[c] \in {"BOOKED", "LOADING"}
  /\ containerItems[c][i] > 0

UnloadItem(c, i) ==
  /\ CanUnload(c, i)
  /\ containerItems' = [containerItems EXCEPT ![c][i] = @ - 1]
  /\ SetItem(i, "PROCESSED")
  /\ containerStatus' =
       [containerStatus EXCEPT ![c] = AfterUnload(@, containerItems'[c])]
  /\ Rollup({ShipmentOf[i]}, RollupByContainers)
  /\ UNCHANGED <<currentWarehouse, received, handoffs, manifestId, manifestVars>>

CanSeal(c) == containerStatus[c] = "LOADING" /\ Aboard(c) # {}

FinalizeContainer(c) ==
  /\ CanSeal(c)
  /\ containerStatus' = [containerStatus EXCEPT ![c] = "LOADED"]
  /\ SetItems(Aboard(c), "LOADED")
  /\ Rollup(ShipmentsOf(Aboard(c)), RollupByContainers)
  /\ UNCHANGED <<currentWarehouse, received, handoffs, manifestId, containerItems,
                 manifestVars>>

OpenForUnloading(c) ==
  /\ containerStatus[c] = "ARRIVED"
  /\ containerStatus' = [containerStatus EXCEPT ![c] = "UNLOADING"]
  /\ UNCHANGED <<shipmentVars, itemVars, manifestId, containerItems, manifestVars>>

CloseUnloading(c) ==
  /\ containerStatus[c] = "UNLOADING"
  /\ containerStatus' = [containerStatus EXCEPT ![c] = "CLOSED"]
  /\ UNCHANGED <<shipmentVars, itemVars, manifestId, containerItems, manifestVars>>

-----------------------------------------------------------------------------
\* ManifestsService.

CreateManifest(m) ==
  /\ manifestStatus[m] = NotCreated
  /\ manifestStatus' = [manifestStatus EXCEPT ![m] = "DRAFT"]
  /\ UNCHANGED <<shipmentVars, itemVars, containerVars, manifestItems, snapshot>>

CanAssignContainer(m, c) ==
  /\ manifestStatus[m] = "DRAFT"
  /\ ModeOf[m] = "OCEAN"
  /\ containerStatus[c] = "LOADED"
  /\ manifestId[c] = None
  /\ ManifestOrigin[m] \in {None, ContainerWarehouse[c]}

\* The items keep their status: they are LOADED since their container was.
AssignContainer(m, c) ==
  /\ CanAssignContainer(m, c)
  /\ manifestId' = [manifestId EXCEPT ![c] = m]
  /\ UNCHANGED <<shipmentVars, itemVars, containerStatus, containerItems, manifestVars>>

\* Mistake for SnapshotIsCargo: a finalized manifest can still be changed.
CanUnassignAnytime(m, c) ==
  manifestStatus[m] \in {"DRAFT", "FINALIZED"} /\ manifestId[c] = m

CanUnassignContainer(m, c) == manifestStatus[m] = "DRAFT" /\ manifestId[c] = m

UnassignContainer(m, c) ==
  /\ CanUnassignContainer(m, c)
  /\ manifestId' = [manifestId EXCEPT ![c] = None]
  /\ UNCHANGED <<shipmentVars, itemVars, containerStatus, containerItems, manifestVars>>

CanAssignItem(m, i) ==
  /\ manifestStatus[m] = "DRAFT"
  /\ ModeOf[m] = "AIR"
  /\ Eligible(i, {"PROCESSED"})
  /\ ManifestOrigin[m] \in {None, currentWarehouse[i]}

AssignItem(m, i) ==
  /\ CanAssignItem(m, i)
  /\ SetItem(i, "ASSIGNED_TO_MANIFEST")
  /\ manifestItems' = [manifestItems EXCEPT ![m][i] = @ + 1]
  /\ Rollup({ShipmentOf[i]}, RollupByManifests)
  /\ UNCHANGED <<currentWarehouse, received, handoffs, containerVars,
                 manifestStatus, snapshot>>

CanUnassignItem(m, i) == manifestStatus[m] = "DRAFT" /\ manifestItems[m][i] > 0

UnassignItem(m, i) ==
  /\ CanUnassignItem(m, i)
  /\ manifestItems' = [manifestItems EXCEPT ![m][i] = @ - 1]
  /\ SetItem(i, "PROCESSED")
  /\ Rollup({ShipmentOf[i]}, RollupByManifests)
  /\ UNCHANGED <<currentWarehouse, received, handoffs, containerVars,
                 manifestStatus, snapshot>>

\* Every item the manifest moves has this status, and every container of an
\* ocean manifest that one; there is something to move.
AllCargo(m, item, container) ==
  /\ \A i \in CargoOf(m) : itemStatus[i] = item
  /\ IF ModeOf[m] = "AIR" THEN Listed(m) # {}
     ELSE /\ ContainersOn(m) # {}
          /\ \A c \in ContainersOn(m) : containerStatus[c] = container

CanFinalize(m) ==
  /\ manifestStatus[m] = "DRAFT"
  /\ AllCargo(m, IF ModeOf[m] = "AIR" THEN "ASSIGNED_TO_MANIFEST" ELSE "LOADED", "LOADED")

\* Air items are locked as LOADED here; ocean items already are.
FinalizeManifest(m) ==
  /\ CanFinalize(m)
  /\ snapshot' = [snapshot EXCEPT ![m] = CargoOf(m)]
  /\ manifestStatus' = [manifestStatus EXCEPT ![m] = "FINALIZED"]
  /\ SetItems(CargoOf(m), "LOADED")
  /\ Rollup(IF ModeOf[m] = "AIR" THEN ShipmentsOf(Listed(m)) ELSE {}, RollupByManifests)
  /\ UNCHANGED <<currentWarehouse, received, handoffs, containerVars, manifestItems>>

\* Mistake for ContainersFollowManifest: the containers are not moved along.
MoveNothing(m, to) == containerStatus' = containerStatus

MoveContainers(m, to) ==
  containerStatus' =
    [c \in Containers |->
       IF ModeOf[m] = "OCEAN" /\ manifestId[c] = m THEN to ELSE containerStatus[c]]

CanDepart(m) == manifestStatus[m] = "FINALIZED" /\ AllCargo(m, "LOADED", "LOADED")

Depart(m) ==
  /\ CanDepart(m)
  /\ SetItems(CargoOf(m), "DEPARTED_ORIGIN")
  /\ MoveContainers(m, "DEPARTED")
  /\ manifestStatus' = [manifestStatus EXCEPT ![m] = "DEPARTED"]
  /\ Rollup(ShipmentsOf(CargoOf(m)), RollupDeparture)
  /\ UNCHANGED <<currentWarehouse, received, handoffs, manifestId, containerItems,
                 manifestItems, snapshot>>

\* The items of an air manifest must have departed; those in a container are
\* taken to have, whatever their status.
CanArrive(m) ==
  /\ manifestStatus[m] = "DEPARTED"
  /\ IF ModeOf[m] = "AIR" THEN AllCargo(m, "DEPARTED_ORIGIN", "DEPARTED")
     ELSE /\ ContainersOn(m) # {}
          /\ \A c \in ContainersOn(m) : containerStatus[c] = "DEPARTED"

Arrive(m) ==
  /\ CanArrive(m)
  /\ SetItems(CargoOf(m), "ARRIVED_DESTINATION")
  /\ MoveContainers(m, "ARRIVED")
  /\ manifestStatus' = [manifestStatus EXCEPT ![m] = "ARRIVED"]
  /\ Rollup(ShipmentsOf(CargoOf(m)), RollupArrival)
  /\ UNCHANGED <<currentWarehouse, received, handoffs, manifestId, containerItems,
                 manifestItems, snapshot>>

-----------------------------------------------------------------------------
ShipmentStep ==
  \/ \E s \in Shipments : \E I \in SUBSET ItemsOf(s) : CreateShipment(s, I)
  \/ \E i \in Items : AddItem(i)
  \/ \E s \in Shipments, i \in Items \cup {None}, e \in ManualEvents :
       ManualTrackingEvent(s, i, e)

WarehouseStep ==
  \E i \in Items :
    \/ DeliverItem(i)
    \/ \E w \in Warehouses :
         \/ ReceiveItem(i, w)
         \/ PickupItem(i, w)
         \/ DispatchItem(i, w)
         \/ \E good \in BOOLEAN :
              \/ ProcessItem(i, w, good)
              \/ DestinationReceiveItem(i, w, good)
              \/ ReturnItem(i, w, good)

ContainerStep ==
  \E c \in Containers :
    \/ CreateContainer(c)
    \/ FinalizeContainer(c)
    \/ OpenForUnloading(c)
    \/ CloseUnloading(c)
    \/ \E i \in Items : LoadItem(c, i) \/ UnloadItem(c, i)

ManifestStep ==
  \E m \in Manifests :
    \/ CreateManifest(m)
    \/ FinalizeManifest(m)
    \/ Depart(m)
    \/ Arrive(m)
    \/ \E c \in Containers : AssignContainer(m, c) \/ UnassignContainer(m, c)
    \/ \E i \in Items : AssignItem(m, i) \/ UnassignItem(m, i)

Next == ShipmentStep \/ WarehouseStep \/ ContainerStep \/ ManifestStep

Spec == Init /\ [][Next]_vars

-----------------------------------------------------------------------------
\* Properties.

\* Every column holds a value of its type.
TypeOK ==
  /\ shipmentStatus \in [Shipments -> ShipmentStatuses \cup {NotCreated}]
  /\ itemStatus \in [Items -> ItemStatuses \cup {NotCreated}]
  /\ currentWarehouse \in [Items -> Warehouses \cup {None}]
  /\ received \in [Items -> BOOLEAN]
  /\ handoffs \in [Items -> Nat]
  /\ containerStatus \in [Containers -> ContainerStatuses \cup {NotCreated}]
  /\ manifestId \in [Containers -> Manifests \cup {None}]
  /\ containerItems \in [Containers -> [Items -> Nat]]
  /\ manifestStatus \in [Manifests -> ManifestStatuses \cup {NotCreated}]
  /\ manifestItems \in [Manifests -> [Items -> Nat]]
  /\ snapshot \in [Manifests -> SUBSET Items]

\* A container is BOOKED exactly while nothing is in it: loadItem and unloadItem
\* keep the status in step with the rows, so a container that is loading, sealed
\* or under way is never empty (the "shouldn't be reachable" of finalize).
BookedIffEmpty ==
  \A c \in Containers : containerStatus[c] \in {NotCreated, "BOOKED"} <=> Aboard(c) = {}

\* Containers and their ocean manifest move together: a container on a manifest
\* is sealed until departure, departed with it and landed with it, and one that
\* has left its warehouse is on a manifest that has.
ContainersFollowManifest ==
  \A c \in Containers :
    LET m == manifestId[c] IN
      \/ m = None /\ containerStatus[c] \in {NotCreated, "BOOKED", "LOADING", "LOADED"}
      \/ /\ m # None /\ ModeOf[m] = "OCEAN"
         /\ \/ manifestStatus[m] \in {"DRAFT", "FINALIZED"} /\ containerStatus[c] = "LOADED"
            \/ manifestStatus[m] = "DEPARTED" /\ containerStatus[c] = "DEPARTED"
            \/ /\ manifestStatus[m] = "ARRIVED"
               /\ containerStatus[c] \in {"ARRIVED", "UNLOADING", "CLOSED"}

\* What was approved for transport stays what is transported: from finalize on,
\* the manifest's immutable snapshot lists exactly the cargo that the rows of
\* containers and manifests still say it carries, and that is not nothing.
SnapshotIsCargo ==
  \A m \in Manifests :
    manifestStatus[m] \in {"FINALIZED", "DEPARTED", "ARRIVED"} =>
      snapshot[m] = CargoOf(m) /\ snapshot[m] # {}

\* The transports an item is on that have not landed yet, a row each.
OpenRows(i) ==
  {c \in Containers : containerItems[c][i] > 0 /\
                      containerStatus[c] \in {"LOADING", "LOADED", "DEPARTED"}}
  \cup
  {m \in Manifests : manifestItems[m][i] > 0 /\
                     manifestStatus[m] \in {"DRAFT", "FINALIZED", "DEPARTED"}}

\* An item is on one journey at a time: no two open containers or air manifests
\* list it, and none lists it twice (loadItem promises no duplicate rows).
OneOpenTransport ==
  \A i \in Items :
    /\ \A t, u \in OpenRows(i) : t = u
    /\ \A c \in Containers : containerItems[c][i] <= 1
    /\ \A m \in Manifests : manifestItems[m][i] <= 1

\* What the status of an item must be, for the transport that lists it.
ContainerItemStatus ==
  [LOADING |-> "ASSIGNED_TO_CONTAINER", LOADED |-> "LOADED", DEPARTED |-> "DEPARTED_ORIGIN"]
ManifestItemStatus ==
  [DRAFT |-> "ASSIGNED_TO_MANIFEST", FINALIZED |-> "LOADED", DEPARTED |-> "DEPARTED_ORIGIN"]

\* An item's status says where it is on its journey: it follows the container or
\* air manifest that lists it, and an item said to be assigned, loaded or under
\* way is listed by one. Bulk updates, unloading and reinspection keep the two
\* tables agreed although no transaction or constraint ties them.
StatusMatchesTransport ==
  \A i \in Items :
    /\ \A c \in Containers :
         c \in OpenRows(i) => itemStatus[i] = ContainerItemStatus[containerStatus[c]]
    /\ \A m \in Manifests :
         m \in OpenRows(i) => itemStatus[i] = ManifestItemStatus[manifestStatus[m]]
    /\ itemStatus[i] \in {"ASSIGNED_TO_CONTAINER", "ASSIGNED_TO_MANIFEST", "LOADED",
                          "DEPARTED_ORIGIN"} => OpenRows(i) # {}

\* The inventory of a warehouse (the items pointing at it) never shows cargo that
\* was handed over, is with a driver or was never received, and never loses cargo
\* waiting in a warehouse or on hold; items in a container that has not landed
\* still point at the warehouse it was loaded in. (So does cargo that departed or
\* arrived, until it is received; and cargo put on hold at its destination.)
InventoryKeptUp ==
  \A i \in Items :
    /\ itemStatus[i] \in {"RECEIVED_ORIGIN_WAREHOUSE", "PROCESSED",
                          "RECEIVED_DESTINATION_WAREHOUSE", "EXCEPTION"} =>
         currentWarehouse[i] # None
    /\ itemStatus[i] \in OutForDeliveryOrLater \cup {NotCreated, "REGISTERED"} =>
         currentWarehouse[i] = None
    /\ \A c \in Containers :
         c \in OpenRows(i) => currentWarehouse[i] = ContainerWarehouse[c]

\* Cargo is handed over at most once, and never without its record: an item has
\* one PICKUP or DELIVERY record exactly when it is picked up or delivered.
HandedOverOnce ==
  \A i \in Items : handoffs[i] = IF itemStatus[i] \in TerminalHandoff THEN 1 ELSE 0

\* A shipment whose items have all been handed over is COMPLETED (or cancelled):
\* whatever the order in which its items were received, processed, split over
\* transports, held, reinspected and returned, some rollup gets it there. None of
\* the nine may leave it at a status the next ones do not start from.
CompletedWithItsItems ==
  \A s \in Shipments :
    LET its == StatusesIn(itemStatus, s) IN
      its # {} /\ its \subseteq TerminalHandoff =>
        shipmentStatus[s] \in {"COMPLETED", "CANCELLED"}

\* The order of the statuses the rollups write.
Rank ==
  [NOT_CREATED |-> 0, DRAFT |-> 1, WAREHOUSE_RECEIVED |-> 2, PROCESSING |-> 3,
   READY_FOR_CONSOLIDATION |-> 4, CONSOLIDATED |-> 5, LOADED |-> 6, DEPARTED |-> 7,
   ARRIVED_DESTINATION |-> 8, READY_FOR_PICKUP |-> 9, OUT_FOR_DELIVERY |-> 10,
   DELIVERED |-> 11, COMPLETED |-> 12, CANCELLED |-> 13]

\* The transports still at origin that hold an item for good or for now: a
\* container it is loaded in, or a finalized air manifest.
HeldAtOrigin(i) ==
  {c \in Containers : containerItems[c][i] > 0 /\ containerStatus[c] \in {"LOADING", "LOADED"}}
  \cup
  {m \in Manifests : manifestItems[m][i] > 0 /\ manifestStatus[m] = "FINALIZED"}

\* The processing rollup takes s back: one of its items is on hold or still to be
\* processed.
BackToProcessing(s) ==
  /\ shipmentStatus[s] = "READY_FOR_CONSOLIDATION" /\ shipmentStatus'[s] = "PROCESSING"
  /\ \E i \in ItemsOf(s) : itemStatus'[i] \notin ProcessedOrLater \cup {NotCreated}

\* A consolidation rollup takes s back: an item of it was just taken off, and none
\* is left in a container or on a finalized manifest at origin.
BackToReady(s) ==
  /\ shipmentStatus[s] = "CONSOLIDATED" /\ shipmentStatus'[s] = "READY_FOR_CONSOLIDATION"
  /\ \E i \in ItemsOf(s) :
       /\ itemStatus[i] \in {"ASSIGNED_TO_CONTAINER", "ASSIGNED_TO_MANIFEST"}
       /\ itemStatus'[i] = "PROCESSED"
  /\ \A i \in ItemsOf(s) : HeldAtOrigin(i)' = {}

\* A shipment moves backwards in two cases only: out of READY_FOR_CONSOLIDATION
\* while an item of it is on hold or unprocessed, and out of CONSOLIDATED when an
\* item was taken off a transport and no container or finalized manifest at origin
\* holds another. In particular a cancelled shipment stays cancelled, and one that
\* departed is never back at origin. (An item on a draft air manifest, or already
\* flown, does not prevent the second.)
ShipmentOnlyForward ==
  [][\A s \in Shipments :
       \/ Rank[shipmentStatus[s]] <= Rank[shipmentStatus'[s]]
       \/ BackToProcessing(s)
       \/ BackToReady(s)]_vars

=============================================================================

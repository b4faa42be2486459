----------------------------- MODULE CargoProofs -----------------------------
(***************************************************************************)
(* What holds of Cargo for any number of shipments, items, warehouses,     *)
(* containers and manifests, in four layers, each with its inductive       *)
(* invariant:                                                              *)
(*                                                                         *)
(* Transport, for any manual tracking events: containers, manifests and    *)
(* what is on them.                                                        *)
(*                                                                         *)
(* Journey, as long as no item is corrected by hand (NoCorrections: staff  *)
(* may cancel a shipment or add notes to it through POST tracking-events,  *)
(* and no more): the item tables. An item that is not assigned to anything *)
(* is on no open container or manifest, so what the warehouse does to it   *)
(* and what loading adds never meets a second journey; an item on one is   *)
(* where that is. (A status or a receipt written by hand overrides every   *)
(* table at once; none of this holds then, nor does the code promise it.)  *)
(*                                                                         *)
(* ShipmentsAbreast, under NoCorrections too: for every stage of the       *)
(* journey, a shipment all of whose items reached the stage has reached it *)
(* too. The rollup of a stage needs the one before: it fires with the last *)
(* item that gets there, and only from the statuses just below.            *)
(*                                                                         *)
(* Tidy, for CargoRequests with one request at a time (OneRequest) and any *)
(* manual events: what the writes that a request still has to do can be,   *)
(* so that containers, manifests and snapshots are right between any two   *)
(* of them, and after a failure at any of them.                            *)
(***************************************************************************)
EXTENDS CargoRequests, FiniteSetTheorems, WellFoundedInduction, TLAPS

ShipmentValues == ShipmentStatuses \cup {NotCreated}
ItemValues == ItemStatuses \cup {NotCreated}

-----------------------------------------------------------------------------
\* What the rollups write.
Written ==
  {"WAREHOUSE_RECEIVED", "PROCESSING", "READY_FOR_CONSOLIDATION", "CONSOLIDATED",
   "LOADED", "DEPARTED", "ARRIVED_DESTINATION", "READY_FOR_PICKUP",
   "OUT_FOR_DELIVERY", "DELIVERED", "COMPLETED"}

\* Every rollup leaves a status or writes one of these.
LEMMA RollupsWithin ==
  ASSUME NEW V, Written \subseteq V, NEW sh \in V, NEW its
  PROVE  /\ RollupReceived(sh, its) \in V
         /\ RollupProcessing(sh, its) \in V
         /\ RollupByContainers(sh, its) \in V
         /\ RollupByManifests(sh, its) \in V
         /\ RollupDeparture(sh, its) \in V
         /\ RollupArrival(sh, its) \in V
         /\ RollupReadyForPickup(sh, its) \in V
         /\ RollupOutForDelivery(sh, its) \in V
         /\ RollupDelivered(sh, its) \in V
         /\ RollupCompletion(sh, its) \in V
         /\ RollupDeliver(sh, its) \in V
<1>1. ASSUME NEW x \in V, NEW S, NEW every, NEW some,
             NEW to \in V
      PROVE  Advance(x, S, some, every, to) \in V
  BY <1>1 DEF Advance
<1> USE DEF Written
<1>2. RollupReceived(sh, its) \in V
  BY <1>1 DEF RollupReceived
<1>3. RollupProcessing(sh, its) \in V
  <2>1. StartProcessing(sh, its) \in V
    BY DEF StartProcessing
  <2> QED
    BY <2>1, <1>1 DEF RollupProcessing, SettleProcessing
<1>4. RollupByContainers(sh, its) \in V
  <2>1. CommitByContainers(sh, its) \in V
    BY DEF CommitByContainers, Commit
  <2> QED
    BY <2>1, <1>1 DEF RollupByContainers, SealByContainers
<1>5. RollupByManifests(sh, its) \in V
  <2>1. CommitByManifests(sh, its) \in V
    BY DEF CommitByManifests, Commit
  <2> QED
    BY <2>1, <1>1 DEF RollupByManifests, SealByManifests
<1>6. RollupDeparture(sh, its) \in V /\ RollupArrival(sh, its) \in V
  BY <1>1 DEF RollupDeparture, RollupArrival
<1>7. /\ RollupReadyForPickup(sh, its) \in V
      /\ RollupOutForDelivery(sh, its) \in V
      /\ RollupDelivered(sh, its) \in V
      /\ RollupCompletion(sh, its) \in V
  BY <1>1 DEF RollupReadyForPickup, RollupOutForDelivery, RollupDelivered,
                    RollupCompletion, AdvanceIgnoringCancelled
<1>8. RollupDeliver(sh, its) \in V
  BY <1>7, <1>1 DEF RollupDeliver, RollupCompletion, AdvanceIgnoringCancelled
<1> QED
  BY <1>2, <1>3, <1>4, <1>5, <1>6, <1>7, <1>8

\* Every rollup turns a status into a status.
LEMMA RollupValues ==
  ASSUME NEW sh \in ShipmentValues, NEW its
  PROVE  /\ RollupReceived(sh, its) \in ShipmentValues
         /\ RollupProcessing(sh, its) \in ShipmentValues
         /\ RollupByContainers(sh, its) \in ShipmentValues
         /\ RollupByManifests(sh, its) \in ShipmentValues
         /\ RollupDeparture(sh, its) \in ShipmentValues
         /\ RollupArrival(sh, its) \in ShipmentValues
         /\ RollupReadyForPickup(sh, its) \in ShipmentValues
         /\ RollupOutForDelivery(sh, its) \in ShipmentValues
         /\ RollupDelivered(sh, its) \in ShipmentValues
         /\ RollupCompletion(sh, its) \in ShipmentValues
         /\ RollupDeliver(sh, its) \in ShipmentValues
<1>1. Written \subseteq ShipmentValues
  BY DEF Written, ShipmentValues, ShipmentStatuses
<1> QED
  BY <1>1, RollupsWithin

-----------------------------------------------------------------------------
\* Type correctness.

\* A rollup of any set of shipments keeps the shipment table well-typed, for each
\* rule the handlers use.
LEMMA RollupTyped ==
  ASSUME shipmentStatus \in [Shipments -> ShipmentValues], NEW S
  PROVE  /\ Rollup(S, RollupProcessing) => shipmentStatus' \in [Shipments -> ShipmentValues]
         /\ Rollup(S, RollupByContainers) => shipmentStatus' \in [Shipments -> ShipmentValues]
         /\ Rollup(S, RollupByManifests) => shipmentStatus' \in [Shipments -> ShipmentValues]
         /\ Rollup(S, RollupDeparture) => shipmentStatus' \in [Shipments -> ShipmentValues]
         /\ Rollup(S, RollupArrival) => shipmentStatus' \in [Shipments -> ShipmentValues]
         /\ Rollup(S, RollupReadyForPickup) => shipmentStatus' \in [Shipments -> ShipmentValues]
         /\ Rollup(S, RollupOutForDelivery) => shipmentStatus' \in [Shipments -> ShipmentValues]
         /\ Rollup(S, RollupCompletion) => shipmentStatus' \in [Shipments -> ShipmentValues]
         /\ Rollup(S, RollupDeliver) => shipmentStatus' \in [Shipments -> ShipmentValues]
<1> USE RollupValues
<1>1. Rollup(S, RollupProcessing) => shipmentStatus' \in [Shipments -> ShipmentValues]
  BY DEF Rollup
<1>2. Rollup(S, RollupByContainers) => shipmentStatus' \in [Shipments -> ShipmentValues]
  BY DEF Rollup
<1>3. Rollup(S, RollupByManifests) => shipmentStatus' \in [Shipments -> ShipmentValues]
  BY DEF Rollup
<1>4. Rollup(S, RollupDeparture) => shipmentStatus' \in [Shipments -> ShipmentValues]
  BY DEF Rollup
<1>5. Rollup(S, RollupArrival) => shipmentStatus' \in [Shipments -> ShipmentValues]
  BY DEF Rollup
<1>6. Rollup(S, RollupReadyForPickup) => shipmentStatus' \in [Shipments -> ShipmentValues]
  BY DEF Rollup
<1>7. Rollup(S, RollupOutForDelivery) => shipmentStatus' \in [Shipments -> ShipmentValues]
  BY DEF Rollup
<1>8. Rollup(S, RollupCompletion) => shipmentStatus' \in [Shipments -> ShipmentValues]
  BY DEF Rollup
<1>9. Rollup(S, RollupDeliver) => shipmentStatus' \in [Shipments -> ShipmentValues]
  BY DEF Rollup
<1> QED
  BY <1>1, <1>2, <1>3, <1>4, <1>5, <1>6, <1>7, <1>8, <1>9

\* Setting item statuses keeps the item table well-typed.
LEMMA SetItemTyped ==
  ASSUME itemStatus \in [Items -> ItemValues], NEW to \in ItemValues, NEW i, NEW I
  PROVE  /\ SetItem(i, to) => itemStatus' \in [Items -> ItemValues]
         /\ SetItems(I, to) => itemStatus' \in [Items -> ItemValues]
BY DEF SetItem, SetItems

LEMMA TypeInit == Init => TypeOK
BY DEF Init, TypeOK, NotCreated

\* Each step of the shipments service.
LEMMA TypeShipment == TypeOK /\ ShipmentStep => TypeOK'
<1> SUFFICES ASSUME TypeOK, ShipmentStep PROVE TypeOK'
  OBVIOUS
<1> USE DEF TypeOK, itemVars, shipmentVars, containerVars, manifestVars, ShipmentValues, ItemValues
<1>1. {"REGISTERED"} \subseteq ItemValues /\ "DRAFT" \in ShipmentValues
  BY DEF ItemStatuses, ShipmentStatuses
<1>2. ASSUME NEW s \in Shipments, NEW I \in SUBSET ItemsOf(s), CreateShipment(s, I)
      PROVE  TypeOK'
  BY <1>1, <1>2, SetItemTyped DEF CreateShipment
<1>3. ASSUME NEW i \in Items, AddItem(i) PROVE TypeOK'
  BY <1>1, <1>3, SetItemTyped DEF AddItem
<1>4. ASSUME NEW s \in Shipments, NEW i \in Items \cup {None}, NEW e \in ManualEvents,
             ManualTrackingEvent(s, i, e)
      PROVE  TypeOK'
  <2>1. e \in ManualEventType
    BY ManualAssumption
  <2>2. shipmentStatus' \in [Shipments -> ShipmentValues]
    BY <1>4, <2>1 DEF ManualTrackingEvent, ManualEventType
  <2>3. itemStatus' \in [Items -> ItemValues]
    BY <1>4, <2>1 DEF ManualTrackingEvent, ManualEventType
  <2>4. currentWarehouse' \in [Items -> Warehouses \cup {None}]
    BY <1>4, <2>1 DEF ManualTrackingEvent, ManualEventType
  <2>5. received' \in [Items -> BOOLEAN]
    BY <1>4, <2>1, Zenon DEF ManualTrackingEvent, ManualEventType
  <2> QED
    BY <1>4, <2>2, <2>3, <2>4, <2>5 DEF ManualTrackingEvent
<1> QED
  BY <1>2, <1>3, <1>4 DEF ShipmentStep

\* Each step of the warehouse service.
LEMMA TypeWarehouse == TypeOK /\ WarehouseStep => TypeOK'
<1> SUFFICES ASSUME TypeOK, WarehouseStep PROVE TypeOK'
  OBVIOUS
<1> USE DEF TypeOK, itemVars, shipmentVars, containerVars, manifestVars, ShipmentValues, ItemValues
<1>1. {"RECEIVED_ORIGIN_WAREHOUSE", "PROCESSED", "EXCEPTION", "OUT_FOR_DELIVERY",
       "RECEIVED_DESTINATION_WAREHOUSE", "PICKED_UP", "DELIVERED"} \subseteq ItemValues
  BY DEF ItemStatuses
<1>2. ASSUME NEW i \in Items, NEW w \in Warehouses, ReceiveItem(i, w) PROVE TypeOK'
  <2>1. shipmentStatus' \in [Shipments -> ShipmentValues]
    BY <1>2, RollupValues, ShipmentOfAssumption DEF ReceiveItem
  <2> QED
    BY <1>1, <1>2, <2>1, SetItemTyped DEF ReceiveItem
<1>3. ASSUME NEW i \in Items, NEW w \in Warehouses, NEW ready \in BOOLEAN,
             ProcessItem(i, w, ready)
      PROVE  TypeOK'
  BY <1>1, <1>3, SetItemTyped, RollupTyped DEF ProcessItem
<1>4. ASSUME NEW i \in Items, NEW w \in Warehouses, NEW good \in BOOLEAN,
             DestinationReceiveItem(i, w, good)
      PROVE  TypeOK'
  <2>1. received' \in [Items -> BOOLEAN]
    BY <1>4, Zenon DEF DestinationReceiveItem
  <2>2. currentWarehouse' \in [Items -> Warehouses \cup {None}]
    BY <1>4 DEF DestinationReceiveItem
  <2> QED
    BY <1>1, <1>4, <2>1, <2>2, SetItemTyped, RollupTyped DEF DestinationReceiveItem
<1>5. ASSUME NEW i \in Items, NEW w \in Warehouses, PickupItem(i, w) PROVE TypeOK'
  <2>1. handoffs' \in [Items -> Nat]
    BY <1>5 DEF PickupItem
  <2> QED
    BY <1>1, <1>5, <2>1, SetItemTyped, RollupTyped DEF PickupItem
<1>6. ASSUME NEW i \in Items, NEW w \in Warehouses, DispatchItem(i, w) PROVE TypeOK'
  BY <1>1, <1>6, SetItemTyped, RollupTyped DEF DispatchItem
<1>7. ASSUME NEW i \in Items, DeliverItem(i) PROVE TypeOK'
  <2>1. handoffs' \in [Items -> Nat]
    BY <1>7 DEF DeliverItem
  <2> QED
    BY <1>1, <1>7, <2>1, SetItemTyped, RollupTyped DEF DeliverItem
<1>8. ASSUME NEW i \in Items, NEW w \in Warehouses, NEW retry \in BOOLEAN,
             ReturnItem(i, w, retry)
      PROVE  TypeOK'
  <2>1. itemStatus' \in [Items -> ItemValues]
    BY <1>1, <1>8, SetItemTyped DEF ReturnItem
  <2> QED
    BY <1>8, <2>1 DEF ReturnItem
<1> QED
  BY <1>2, <1>3, <1>4, <1>5, <1>6, <1>7, <1>8 DEF WarehouseStep

\* Each step of the containers service.
LEMMA TypeContainer == TypeOK /\ ContainerStep => TypeOK'
<1> SUFFICES ASSUME TypeOK, ContainerStep PROVE TypeOK'
  OBVIOUS
<1> USE DEF TypeOK, itemVars, shipmentVars, containerVars, manifestVars, ShipmentValues, ItemValues
<1>1. /\ {"ASSIGNED_TO_CONTAINER", "PROCESSED", "LOADED"} \subseteq ItemValues
      /\ {"BOOKED", "LOADING", "LOADED", "UNLOADING", "CLOSED"} \subseteq ContainerStatuses
  BY DEF ItemStatuses, ContainerStatuses
<1>2. ASSUME NEW c \in Containers, CreateContainer(c) PROVE TypeOK'
  BY <1>1, <1>2 DEF CreateContainer
<1>3. ASSUME NEW c \in Containers, FinalizeContainer(c) PROVE TypeOK'
  BY <1>1, <1>3, SetItemTyped, RollupTyped DEF FinalizeContainer
<1>4. ASSUME NEW c \in Containers, OpenForUnloading(c) PROVE TypeOK'
  BY <1>1, <1>4 DEF OpenForUnloading
<1>5. ASSUME NEW c \in Containers, CloseUnloading(c) PROVE TypeOK'
  BY <1>1, <1>5 DEF CloseUnloading
<1>6. ASSUME NEW c \in Containers, NEW i \in Items, LoadItem(c, i) PROVE TypeOK'
  <2>1. containerItems' \in [Containers -> [Items -> Nat]]
    BY <1>6 DEF LoadItem
  <2>2. containerStatus' \in [Containers -> ContainerStatuses \cup {NotCreated}]
    BY <1>1, <1>6 DEF LoadItem
  <2> QED
    BY <1>1, <1>6, <2>1, <2>2, SetItemTyped, RollupTyped DEF LoadItem
<1>7. ASSUME NEW c \in Containers, NEW i \in Items, UnloadItem(c, i) PROVE TypeOK'
  <2>1. containerItems' \in [Containers -> [Items -> Nat]]
    BY <1>7 DEF UnloadItem, CanUnload
  <2>2. containerStatus' \in [Containers -> ContainerStatuses \cup {NotCreated}]
    BY <1>1, <1>7 DEF UnloadItem, AfterUnload
  <2> QED
    BY <1>1, <1>7, <2>1, <2>2, SetItemTyped, RollupTyped DEF UnloadItem
<1> QED
  BY <1>2, <1>3, <1>4, <1>5, <1>6, <1>7 DEF ContainerStep

\* Each step of the manifests service.
LEMMA TypeManifest == TypeOK /\ ManifestStep => TypeOK'
<1> SUFFICES ASSUME TypeOK, ManifestStep PROVE TypeOK'
  OBVIOUS
<1> USE DEF TypeOK, itemVars, shipmentVars, containerVars, manifestVars, ShipmentValues, ItemValues
<1>1. /\ {"ASSIGNED_TO_MANIFEST", "PROCESSED", "LOADED", "DEPARTED_ORIGIN",
          "ARRIVED_DESTINATION"} \subseteq ItemValues
      /\ {"DEPARTED", "ARRIVED"} \subseteq ContainerStatuses
      /\ {"DRAFT", "FINALIZED", "DEPARTED", "ARRIVED"} \subseteq ManifestStatuses
  BY DEF ItemStatuses, ContainerStatuses, ManifestStatuses
<1>2. ASSUME NEW m \in Manifests, CreateManifest(m) PROVE TypeOK'
  BY <1>1, <1>2 DEF CreateManifest
<1>3. ASSUME NEW m \in Manifests, FinalizeManifest(m) PROVE TypeOK'
  <2>1. CargoOf(m) \subseteq Items
    BY DEF CargoOf, Listed, Aboard
  <2> QED
    BY <1>1, <1>3, <2>1, SetItemTyped, RollupTyped DEF FinalizeManifest
<1>4. ASSUME NEW m \in Manifests, Depart(m) PROVE TypeOK'
  BY <1>1, <1>4, SetItemTyped, RollupTyped DEF Depart, MoveContainers
<1>5. ASSUME NEW m \in Manifests, Arrive(m) PROVE TypeOK'
  BY <1>1, <1>5, SetItemTyped, RollupTyped DEF Arrive, MoveContainers
<1>6. ASSUME NEW m \in Manifests, NEW c \in Containers, AssignContainer(m, c) PROVE TypeOK'
  BY <1>6 DEF AssignContainer
<1>7. ASSUME NEW m \in Manifests, NEW c \in Containers, UnassignContainer(m, c) PROVE TypeOK'
  BY <1>7 DEF UnassignContainer
<1>8. ASSUME NEW m \in Manifests, NEW i \in Items, AssignItem(m, i) PROVE TypeOK'
  <2>1. manifestItems' \in [Manifests -> [Items -> Nat]]
    BY <1>8 DEF AssignItem
  <2> QED
    BY <1>1, <1>8, <2>1, SetItemTyped, RollupTyped DEF AssignItem
<1>9. ASSUME NEW m \in Manifests, NEW i \in Items, UnassignItem(m, i) PROVE TypeOK'
  <2>1. manifestItems' \in [Manifests -> [Items -> Nat]]
    BY <1>9 DEF UnassignItem, CanUnassignItem
  <2> QED
    BY <1>1, <1>9, <2>1, SetItemTyped, RollupTyped DEF UnassignItem
<1> QED
  BY <1>2, <1>3, <1>4, <1>5, <1>6, <1>7, <1>8, <1>9 DEF ManifestStep

\* Every column always holds a value of its type: no handler and no rollup writes
\* a status its table does not have, and no row is removed that is not there.
THEOREM TypeCorrect == Spec => []TypeOK
<1>1. TypeOK /\ [Next]_vars => TypeOK'
  <2> SUFFICES ASSUME TypeOK, [Next]_vars PROVE TypeOK'
    OBVIOUS
  <2>1. CASE Next
    BY <2>1, TypeShipment, TypeWarehouse, TypeContainer, TypeManifest DEF Next
  <2>2. CASE UNCHANGED vars
    BY <2>2 DEF TypeOK, vars, shipmentVars, itemVars, containerVars, manifestVars
  <2> QED
    BY <2>1, <2>2
<1> QED
  BY <1>1, TypeInit, PTL DEF Spec

-----------------------------------------------------------------------------
(***************************************************************************)
(* Containers and manifests keep step with each other and with their       *)
(* contents, for any number of them and any manual tracking events.        *)
(*                                                                         *)
(* Transport is the inductive invariant. BookedIffEmpty and                *)
(* ContainersFollowManifest are each preserved with TypeOK alone;          *)
(* SnapshotIsCargo needs both: a container under a finalized manifest is   *)
(* sealed, so nothing is loaded or taken out, and a sealed one is not      *)
(* empty, so there is something to list.                                   *)
(***************************************************************************)
Transport == TypeOK /\ BookedIffEmpty /\ ContainersFollowManifest /\ SnapshotIsCargo

\* The shipments and warehouse services touch no container and no manifest.
LEMMA OthersLeaveTransport ==
  ShipmentStep \/ WarehouseStep => UNCHANGED <<containerVars, manifestVars>>
<1>1. ShipmentStep => UNCHANGED <<containerVars, manifestVars>>
  BY DEF ShipmentStep, CreateShipment, AddItem, ManualTrackingEvent
<1>2. WarehouseStep => UNCHANGED <<containerVars, manifestVars>>
  BY DEF WarehouseStep, ReceiveItem, ProcessItem, DestinationReceiveItem, PickupItem,
         DispatchItem, DeliverItem, ReturnItem
<1> QED
  BY <1>1, <1>2

-----------------------------------------------------------------------------
\* A container is booked exactly while it is empty.

LEMMA BookedContainer ==
  TypeOK /\ BookedIffEmpty /\ ContainerStep => BookedIffEmpty'
<1> SUFFICES ASSUME TypeOK, BookedIffEmpty, NEW c \in Containers,
                    \/ CreateContainer(c)
                    \/ FinalizeContainer(c)
                    \/ OpenForUnloading(c)
                    \/ CloseUnloading(c)
                    \/ \E i \in Items : LoadItem(c, i) \/ UnloadItem(c, i)
             PROVE  BookedIffEmpty'
  BY DEF ContainerStep
<1> USE DEF TypeOK, BookedIffEmpty, Aboard
<1>1. CASE CreateContainer(c)
  BY <1>1 DEF CreateContainer
<1>2. CASE FinalizeContainer(c)
  BY <1>2 DEF FinalizeContainer, CanSeal, NotCreated
<1>3. CASE OpenForUnloading(c)
  BY <1>3 DEF OpenForUnloading, NotCreated
<1>4. CASE CloseUnloading(c)
  BY <1>4 DEF CloseUnloading, NotCreated
<1>5. ASSUME NEW i \in Items, LoadItem(c, i) PROVE BookedIffEmpty'
  <2>1. containerItems'[c][i] > 0 /\ containerStatus'[c] = "LOADING"
    BY <1>5 DEF LoadItem
  <2>2. \A d \in Containers \ {c} : /\ containerItems'[d] = containerItems[d]
                                    /\ containerStatus'[d] = containerStatus[d]
    BY <1>5 DEF LoadItem
  <2> QED
    BY <2>1, <2>2 DEF NotCreated
<1>6. ASSUME NEW i \in Items, UnloadItem(c, i) PROVE BookedIffEmpty'
  <2>1. containerStatus[c] = "LOADING"
    BY <1>6 DEF UnloadItem, CanUnload
  <2>2. containerItems'[c] \in [Items -> Nat]
    BY <1>6 DEF UnloadItem, CanUnload
  <2>3. containerStatus'[c] = AfterUnload("LOADING", containerItems'[c])
    BY <1>6, <2>1 DEF UnloadItem
  <2>4. containerStatus'[c] \in {NotCreated, "BOOKED"} <=> Aboard(c)' = {}
    BY <2>2, <2>3 DEF AfterUnload, NotCreated
  <2>5. \A d \in Containers \ {c} : /\ containerItems'[d] = containerItems[d]
                                    /\ containerStatus'[d] = containerStatus[d]
    BY <1>6 DEF UnloadItem
  <2> QED
    BY <2>4, <2>5
<1> QED
  BY <1>1, <1>2, <1>3, <1>4, <1>5, <1>6

\* Departure and arrival only move containers that are sealed already.
LEMMA BookedManifest ==
  TypeOK /\ BookedIffEmpty /\ ManifestStep => BookedIffEmpty'
<1> SUFFICES ASSUME TypeOK, BookedIffEmpty, NEW m \in Manifests,
                    \/ CreateManifest(m)
                    \/ FinalizeManifest(m)
                    \/ Depart(m)
                    \/ Arrive(m)
                    \/ \E c \in Containers : AssignContainer(m, c) \/ UnassignContainer(m, c)
                    \/ \E i \in Items : AssignItem(m, i) \/ UnassignItem(m, i)
             PROVE  BookedIffEmpty'
  BY DEF ManifestStep
<1>1. CASE Depart(m)
  BY <1>1 DEF Depart, CanDepart, AllCargo, ContainersOn, MoveContainers, TypeOK,
              BookedIffEmpty, Aboard, NotCreated
<1>2. CASE Arrive(m)
  BY <1>2 DEF Arrive, CanArrive, AllCargo, ContainersOn, MoveContainers, TypeOK,
              BookedIffEmpty, Aboard, NotCreated
<1>3. UNCHANGED <<containerStatus, containerItems>> => BookedIffEmpty'
  BY DEF BookedIffEmpty, Aboard
<1> QED
  BY <1>1, <1>2, <1>3 DEF CreateManifest, FinalizeManifest, AssignContainer,
       UnassignContainer, AssignItem, UnassignItem, containerVars

-----------------------------------------------------------------------------
\* Containers and their manifest move together.

LEMMA FollowContainer ==
  TypeOK /\ ContainersFollowManifest /\ ContainerStep => ContainersFollowManifest'
<1> SUFFICES ASSUME TypeOK, ContainersFollowManifest, NEW c \in Containers,
                    \/ CreateContainer(c)
                    \/ FinalizeContainer(c)
                    \/ OpenForUnloading(c)
                    \/ CloseUnloading(c)
                    \/ \E i \in Items : LoadItem(c, i) \/ UnloadItem(c, i)
             PROVE  ContainersFollowManifest'
  BY DEF ContainerStep
<1> USE DEF TypeOK, ContainersFollowManifest, manifestVars, NotCreated
<1>1. CASE CreateContainer(c)
  BY <1>1 DEF CreateContainer
<1>2. CASE FinalizeContainer(c)
  BY <1>2 DEF FinalizeContainer, CanSeal
<1>3. CASE OpenForUnloading(c)
  BY <1>3 DEF OpenForUnloading
<1>4. CASE CloseUnloading(c)
  BY <1>4 DEF CloseUnloading
<1>5. ASSUME NEW i \in Items, LoadItem(c, i) PROVE ContainersFollowManifest'
  BY <1>5 DEF LoadItem, CanLoad
<1>6. ASSUME NEW i \in Items, UnloadItem(c, i) PROVE ContainersFollowManifest'
  BY <1>6 DEF UnloadItem, CanUnload, AfterUnload
<1> QED
  BY <1>1, <1>2, <1>3, <1>4, <1>5, <1>6

LEMMA FollowManifest ==
  TypeOK /\ ContainersFollowManifest /\ ManifestStep => ContainersFollowManifest'
<1> SUFFICES ASSUME TypeOK, ContainersFollowManifest, NEW m \in Manifests,
                    \/ CreateManifest(m)
                    \/ FinalizeManifest(m)
                    \/ Depart(m)
                    \/ Arrive(m)
                    \/ \E c \in Containers : AssignContainer(m, c) \/ UnassignContainer(m, c)
                    \/ \E i \in Items : AssignItem(m, i) \/ UnassignItem(m, i)
             PROVE  ContainersFollowManifest'
  BY DEF ManifestStep
<1> USE DEF TypeOK, ContainersFollowManifest, manifestVars, containerVars, NotCreated
<1>0. m # None
  BY NoneAssumption
<1>1. CASE CreateManifest(m)
  BY <1>0, <1>1 DEF CreateManifest
<1>2. CASE FinalizeManifest(m)
  BY <1>0, <1>2 DEF FinalizeManifest, CanFinalize
<1>3. CASE Depart(m)
  BY <1>0, <1>3 DEF Depart, CanDepart, MoveContainers
<1>4. CASE Arrive(m)
  BY <1>0, <1>4 DEF Arrive, CanArrive, MoveContainers
<1>5. ASSUME NEW c \in Containers, AssignContainer(m, c) PROVE ContainersFollowManifest'
  BY <1>0, <1>5 DEF AssignContainer, CanAssignContainer
<1>6. ASSUME NEW c \in Containers, UnassignContainer(m, c) PROVE ContainersFollowManifest'
  BY <1>0, <1>6 DEF UnassignContainer, CanUnassignContainer
<1>7. ASSUME NEW i \in Items, AssignItem(m, i) \/ UnassignItem(m, i)
      PROVE  ContainersFollowManifest'
  BY <1>7 DEF AssignItem, UnassignItem
<1> QED
  BY <1>1, <1>2, <1>3, <1>4, <1>5, <1>6, <1>7

-----------------------------------------------------------------------------
\* What a manifest carries is what its snapshot lists.

\* The cargo of a manifest that is not a draft: no step changes it.
LEMMA CargoFixed ==
  ASSUME Transport, Next, NEW m \in Manifests,
         manifestStatus[m] \in {"FINALIZED", "DEPARTED", "ARRIVED"}
  PROVE  CargoOf(m)' = CargoOf(m)
<1> USE DEF Transport, TypeOK
<1>1. \A i \in Items : manifestItems'[m][i] = manifestItems[m][i]
  <2>1. CASE ShipmentStep \/ WarehouseStep \/ ContainerStep
    BY <2>1, OthersLeaveTransport DEF manifestVars, ContainerStep, CreateContainer, LoadItem,
         UnloadItem, FinalizeContainer, OpenForUnloading, CloseUnloading
  <2>2. CASE ManifestStep
    BY <2>2 DEF ManifestStep, CreateManifest, FinalizeManifest, Depart, Arrive,
         AssignContainer, UnassignContainer, AssignItem, CanAssignItem, UnassignItem,
         CanUnassignItem, manifestVars
  <2> QED
    BY <2>1, <2>2 DEF Next
<1>2. ContainersOn(m)' = ContainersOn(m)
  <2>1. CASE ShipmentStep \/ WarehouseStep \/ ContainerStep
    BY <2>1, OthersLeaveTransport DEF containerVars, ContainersOn, ContainerStep,
         CreateContainer, LoadItem, UnloadItem, FinalizeContainer, OpenForUnloading,
         CloseUnloading
  <2>2. ASSUME NEW n \in Manifests, NEW c \in Containers,
               AssignContainer(n, c) \/ UnassignContainer(n, c)
        PROVE  ContainersOn(m)' = ContainersOn(m)
    <3>1. manifestId[c] # m /\ manifestId'[c] # m
      BY <2>2, NoneAssumption DEF AssignContainer, CanAssignContainer, UnassignContainer,
           CanUnassignContainer
    <3>2. \A d \in Containers \ {c} : manifestId'[d] = manifestId[d]
      BY <2>2 DEF AssignContainer, UnassignContainer
    <3> QED
      BY <3>1, <3>2 DEF ContainersOn
  <2>3. CASE ManifestStep
    BY <2>2, <2>3 DEF ManifestStep, CreateManifest, FinalizeManifest, Depart, Arrive,
         AssignItem, UnassignItem, containerVars, ContainersOn
  <2> QED
    BY <2>1, <2>3 DEF Next
<1>3. \A c \in ContainersOn(m) : containerItems'[c] = containerItems[c]
  <2>0. \A c \in ContainersOn(m) : containerStatus[c] \notin {"BOOKED", "LOADING"}
    BY SMTT(30), NoneAssumption DEF ContainersFollowManifest, ContainersOn, NotCreated
  <2>1. CASE ShipmentStep \/ WarehouseStep \/ ManifestStep
    BY <2>1, OthersLeaveTransport DEF containerVars, ManifestStep, CreateManifest,
         FinalizeManifest, Depart, Arrive, AssignContainer, UnassignContainer, AssignItem,
         UnassignItem
  <2>2. CASE ContainerStep
    BY <2>0, <2>2 DEF ContainersOn, ContainerStep, CreateContainer, LoadItem, CanLoad,
         UnloadItem, CanUnload, FinalizeContainer, OpenForUnloading, CloseUnloading
  <2> QED
    BY <2>1, <2>2 DEF Next
<1>4. Listed(m)' = Listed(m)
  BY <1>1 DEF Listed
<1>5. {Aboard(c) : c \in ContainersOn(m)}' = {Aboard(c) : c \in ContainersOn(m)}
  BY ZenonT(30), <1>2, <1>3 DEF Aboard
<1> QED
  BY <1>4, <1>5 DEF CargoOf

\* A manifest that passes the check of finalize has something to carry.
LEMMA FinalizedHasCargo ==
  ASSUME Transport, NEW m \in Manifests, CanFinalize(m)
  PROVE  CargoOf(m) # {}
<1>1. CASE ModeOf[m] = "AIR"
  BY <1>1 DEF CanFinalize, AllCargo, CargoOf
<1>2. CASE ModeOf[m] # "AIR"
  <2>1. PICK c \in ContainersOn(m) : containerStatus[c] = "LOADED"
    BY <1>2 DEF CanFinalize, AllCargo
  <2>2. Aboard(c) # {}
    BY <2>1 DEF Transport, BookedIffEmpty, ContainersOn, NotCreated
  <2> QED
    BY <1>2, <2>1, <2>2 DEF CargoOf
<1> QED
  BY <1>1, <1>2

LEMMA SnapshotStep == Transport /\ Next => SnapshotIsCargo'
<1> SUFFICES ASSUME Transport, Next, NEW m \in Manifests,
                    manifestStatus'[m] \in {"FINALIZED", "DEPARTED", "ARRIVED"}
             PROVE  snapshot'[m] = CargoOf(m)' /\ snapshot'[m] # {}
  BY DEF SnapshotIsCargo
<1> USE DEF Transport, TypeOK
<1>1. CASE FinalizeManifest(m)
  <2>1. CargoOf(m)' = CargoOf(m)
    BY <1>1 DEF FinalizeManifest, containerVars, CargoOf, Listed, Aboard, ContainersOn
  <2> QED
    BY <1>1, <2>1, FinalizedHasCargo DEF FinalizeManifest
<1>2. CASE ~ FinalizeManifest(m)
  <2>1. /\ manifestStatus[m] \in {"FINALIZED", "DEPARTED", "ARRIVED"}
        /\ snapshot'[m] = snapshot[m]
    <3>1. CASE ShipmentStep \/ WarehouseStep \/ ContainerStep
      BY <3>1, OthersLeaveTransport DEF manifestVars, ContainerStep, CreateContainer, LoadItem,
           UnloadItem, FinalizeContainer, OpenForUnloading, CloseUnloading
    <3>2. CASE ManifestStep
      BY <1>2, <3>2 DEF ManifestStep, CreateManifest, FinalizeManifest, Depart, CanDepart,
           Arrive, CanArrive, AssignContainer, UnassignContainer, AssignItem, UnassignItem,
           manifestVars
    <3> QED
      BY <3>1, <3>2 DEF Next
  <2> QED
    BY <2>1, CargoFixed DEF SnapshotIsCargo
<1> QED
  BY <1>1, <1>2

-----------------------------------------------------------------------------
LEMMA TransportInit == Init => Transport
BY TypeInit DEF Init, Transport, BookedIffEmpty, ContainersFollowManifest,
     SnapshotIsCargo, Aboard, NotCreated

LEMMA TransportStep == Transport /\ [Next]_vars => Transport'
<1> SUFFICES ASSUME Transport, [Next]_vars PROVE Transport'
  OBVIOUS
<1>1. CASE Next
  <2>1. TypeOK'
    BY <1>1, TypeShipment, TypeWarehouse, TypeContainer, TypeManifest DEF Next, Transport
  <2>2. BookedIffEmpty'
    <3>1. CASE ShipmentStep \/ WarehouseStep
      BY <3>1, OthersLeaveTransport DEF Transport, BookedIffEmpty, Aboard, containerVars
    <3> QED
      BY <1>1, <3>1, BookedContainer, BookedManifest DEF Next, Transport
  <2>3. ContainersFollowManifest'
    <3>1. CASE ShipmentStep \/ WarehouseStep
      BY <3>1, OthersLeaveTransport
         DEF Transport, ContainersFollowManifest, containerVars, manifestVars
    <3> QED
      BY <1>1, <3>1, FollowContainer, FollowManifest DEF Next, Transport
  <2> QED
    BY <1>1, <2>1, <2>2, <2>3, SnapshotStep DEF Transport
<1>2. CASE UNCHANGED vars
  BY <1>2 DEF vars, shipmentVars, itemVars, containerVars, manifestVars, Transport, TypeOK,
       BookedIffEmpty, ContainersFollowManifest, SnapshotIsCargo, CargoOf, Listed, Aboard,
       ContainersOn
<1> QED
  BY <1>1, <1>2

\* Types, containers, manifests and snapshots together: each of the three
\* properties needs the others to be inductive.
THEOREM TransportInvariant == Spec => []Transport
BY TransportInit, TransportStep, PTL DEF Spec

\* A container is BOOKED exactly while nothing is in it.
THEOREM BookedExactlyWhileEmpty == Spec => []BookedIffEmpty
BY TransportInvariant, PTL DEF Transport

\* Containers are sealed, gone and landed together with their ocean manifest.
THEOREM ContainersGoWithManifest == Spec => []ContainersFollowManifest
BY TransportInvariant, PTL DEF Transport

\* From finalize on a manifest carries exactly what its snapshot lists.
THEOREM SnapshotStaysTrue == Spec => []SnapshotIsCargo
BY TransportInvariant, PTL DEF Transport

-----------------------------------------------------------------------------
\* Where each item is.

\* Staff write no item's status and no receipt by hand, and no status of a
\* shipment but its cancellation.
NoCorrections ==
  \A e \in ManualEvents :
    /\ e.status \in {None, "CANCELLED"}
    /\ e.itemStatus = None
    /\ ~ e.receiving

\* The statuses of an item that some transport must list.
Assigned == {"ASSIGNED_TO_CONTAINER", "ASSIGNED_TO_MANIFEST", "LOADED", "DEPARTED_ORIGIN"}

\* Items exist only in shipments that do; only air manifests list items, and
\* only once they exist.
WellPlaced ==
  /\ \A i \in Items : Created(i) => shipmentStatus[ShipmentOf[i]] # NotCreated
  /\ \A m \in Manifests :
       ModeOf[m] = "OCEAN" \/ manifestStatus[m] = NotCreated => Listed(m) = {}

\* An item is in a warehouse, or was loaded from one, exactly from its receipt
\* to its hand-over.
Located ==
  \A i \in Items :
    /\ currentWarehouse[i] = None
         <=> itemStatus[i] \in OutForDeliveryOrLater \cup {NotCreated, "REGISTERED"}
    /\ received[i] = (itemStatus[i] \notin {NotCreated, "REGISTERED"})

\* An item in a container under way points at the warehouse it was loaded in.
LoadedThere ==
  \A i \in Items, c \in Containers :
    c \in OpenRows(i) => currentWarehouse[i] = ContainerWarehouse[c]

\* What the item tables say of each item agrees with the transports' rows.
ItemsAgree ==
  /\ OneOpenTransport
  /\ StatusMatchesTransport
  /\ LoadedThere
  /\ Located
  /\ HandedOverOnce

Journey == Transport /\ WellPlaced /\ ItemsAgree

-----------------------------------------------------------------------------
\* What the invariant says of one item.

\* An item is on one transport at a time, at most once.
LEMMA OneJourney ==
  ASSUME Journey, NEW i \in Items
  PROVE  /\ \A t, u \in OpenRows(i) : t = u
         /\ \A c \in Containers : containerItems[c][i] \in {0, 1}
         /\ \A m \in Manifests : manifestItems[m][i] \in {0, 1}
<1>1. ASSUME NEW c \in Containers PROVE containerItems[c][i] \in {0, 1}
  <2>1. containerItems[c][i] \in Nat
    BY DEF Journey, ItemsAgree, Transport, TypeOK
  <2>2. containerItems[c][i] <= 1
    BY DEF Journey, ItemsAgree, OneOpenTransport
  <2> QED
    BY <2>1, <2>2
<1>2. ASSUME NEW m \in Manifests PROVE manifestItems[m][i] \in {0, 1}
  <2>1. manifestItems[m][i] \in Nat
    BY DEF Journey, ItemsAgree, Transport, TypeOK
  <2>2. manifestItems[m][i] <= 1
    BY DEF Journey, ItemsAgree, OneOpenTransport
  <2> QED
    BY <2>1, <2>2
<1> QED
  BY <1>1, <1>2 DEF Journey, ItemsAgree, OneOpenTransport

\* An item whose status is not one of a transport's is on none.
LEMMA Unassigned ==
  ASSUME Journey, NEW i \in Items, itemStatus[i] \notin Assigned
  PROVE  OpenRows(i) = {}
<1>1. ASSUME NEW c \in Containers, c \in OpenRows(i) PROVE FALSE
  <2>1. containerStatus[c] \in {"LOADING", "LOADED", "DEPARTED"}
    BY <1>1, TransportAssumption DEF OpenRows
  <2> QED
    BY <1>1, <2>1 DEF Journey, ItemsAgree, StatusMatchesTransport, ContainerItemStatus, Assigned
<1>2. ASSUME NEW m \in Manifests, m \in OpenRows(i) PROVE FALSE
  <2>1. manifestStatus[m] \in {"DRAFT", "FINALIZED", "DEPARTED"}
    BY <1>2, TransportAssumption DEF OpenRows
  <2> QED
    BY <1>2, <2>1 DEF Journey, ItemsAgree, StatusMatchesTransport, ManifestItemStatus, Assigned
<1> QED
  BY <1>1, <1>2 DEF OpenRows

\* The rows of a container that is being loaded, is sealed or has left.
LEMMA OpenContainer ==
  ASSUME Journey, NEW i \in Items, NEW c \in Containers
  PROVE  /\ c \in OpenRows(i)
              <=> /\ containerItems[c][i] > 0
                  /\ containerStatus[c] \in {"LOADING", "LOADED", "DEPARTED"}
         /\ c \in OpenRows(i) => itemStatus[i] = ContainerItemStatus[containerStatus[c]]
         /\ containerStatus[c] \in {NotCreated, "BOOKED"} => containerItems[c][i] = 0
BY TransportAssumption DEF OpenRows, Journey, ItemsAgree, Transport, TypeOK, BookedIffEmpty, Aboard,
     StatusMatchesTransport

\* Putting one item on a container that is being loaded, or taking it off,
\* leaves the rows of every other item as they are.
LEMMA OthersKeepTheirRows ==
  ASSUME NEW j \in Items, NEW c \in Containers, UNCHANGED manifestVars,
         \A d \in Containers \ {c} : /\ containerStatus'[d] = containerStatus[d]
                                      /\ containerItems'[d] = containerItems[d],
         containerItems'[c][j] = containerItems[c][j],
         containerItems[c][j] > 0 =>
           containerStatus[c] = "LOADING" /\ containerStatus'[c] = "LOADING"
  PROVE  /\ OpenRows(j)' = OpenRows(j)
         /\ \A d \in Containers : d \in OpenRows(j) => containerStatus'[d] = containerStatus[d]
<1> DEFINE ofContainers == {d \in Containers : containerItems[d][j] > 0 /\
                             containerStatus[d] \in {"LOADING", "LOADED", "DEPARTED"}}
<1> DEFINE ofManifests == {m \in Manifests : manifestItems[m][j] > 0 /\
                            manifestStatus[m] \in {"DRAFT", "FINALIZED", "DEPARTED"}}
<1>1. OpenRows(j) = ofContainers \cup ofManifests /\ OpenRows(j)' = ofContainers' \cup ofManifests'
  BY DEF OpenRows
<1>2. ofManifests' = ofManifests
  BY DEF manifestVars
<1>3. \A d \in Containers : d \in ofContainers' <=> d \in ofContainers
  <2>1. c \in ofContainers' <=> c \in ofContainers
    OBVIOUS
  <2>2. ASSUME NEW d \in Containers \ {c} PROVE d \in ofContainers' <=> d \in ofContainers
    OBVIOUS
  <2> QED
    BY <2>1, <2>2
<1>4. ofContainers' = ofContainers
  BY <1>3
<1>5. \A d \in Containers : d \in OpenRows(j) => containerStatus'[d] = containerStatus[d]
  BY TransportAssumption DEF OpenRows
<1> QED
  BY <1>1, <1>2, <1>4, <1>5

\* Those of an air manifest that has not arrived.
LEMMA OpenManifest ==
  ASSUME Journey, NEW i \in Items, NEW m \in Manifests
  PROVE  /\ m \in OpenRows(i)
              <=> /\ manifestItems[m][i] > 0
                  /\ manifestStatus[m] \in {"DRAFT", "FINALIZED", "DEPARTED"}
         /\ m \in OpenRows(i) => itemStatus[i] = ManifestItemStatus[manifestStatus[m]]
         /\ ModeOf[m] = "OCEAN" \/ manifestStatus[m] = NotCreated => manifestItems[m][i] = 0
BY TransportAssumption DEF OpenRows, Journey, ItemsAgree, Transport, TypeOK, WellPlaced, Listed,
     StatusMatchesTransport

-----------------------------------------------------------------------------
\* What becomes of shipments.

\* b is what some rollup, having read some statuses of items, makes of a.
ByRollup(a, b) ==
  \E its : \/ b = RollupReceived(a, its)
           \/ b = RollupProcessing(a, its)
           \/ b = RollupByContainers(a, its)
           \/ b = RollupByManifests(a, its)
           \/ b = RollupDeparture(a, its)
           \/ b = RollupArrival(a, its)
           \/ b = RollupReadyForPickup(a, its)
           \/ b = RollupOutForDelivery(a, its)
           \/ b = RollupCompletion(a, its)
           \/ b = RollupDeliver(a, its)

\* A shipment is created, cancelled or rolled up.
ShipmentMoves(a, b) ==
  \/ b = a
  \/ a = NotCreated /\ b = "DRAFT"
  \/ a # NotCreated /\ b = "CANCELLED"
  \/ ByRollup(a, b)

\* A rollup of any set of shipments moves each of them so, or leaves it.
LEMMA RollupMoves ==
  ASSUME TypeOK, NEW S, NEW s \in Shipments
  PROVE  /\ Rollup(S, RollupProcessing) => ShipmentMoves(shipmentStatus[s], shipmentStatus'[s])
         /\ Rollup(S, RollupByContainers) => ShipmentMoves(shipmentStatus[s], shipmentStatus'[s])
         /\ Rollup(S, RollupByManifests) => ShipmentMoves(shipmentStatus[s], shipmentStatus'[s])
         /\ Rollup(S, RollupDeparture) => ShipmentMoves(shipmentStatus[s], shipmentStatus'[s])
         /\ Rollup(S, RollupArrival) => ShipmentMoves(shipmentStatus[s], shipmentStatus'[s])
         /\ Rollup(S, RollupReadyForPickup)
              => ShipmentMoves(shipmentStatus[s], shipmentStatus'[s])
         /\ Rollup(S, RollupOutForDelivery)
              => ShipmentMoves(shipmentStatus[s], shipmentStatus'[s])
         /\ Rollup(S, RollupCompletion) => ShipmentMoves(shipmentStatus[s], shipmentStatus'[s])
         /\ Rollup(S, RollupDeliver) => ShipmentMoves(shipmentStatus[s], shipmentStatus'[s])
<1> USE DEF Rollup, ShipmentMoves, ByRollup
<1>1. Rollup(S, RollupProcessing) => ShipmentMoves(shipmentStatus[s], shipmentStatus'[s])
  OBVIOUS
<1>2. Rollup(S, RollupByContainers) => ShipmentMoves(shipmentStatus[s], shipmentStatus'[s])
  OBVIOUS
<1>3. Rollup(S, RollupByManifests) => ShipmentMoves(shipmentStatus[s], shipmentStatus'[s])
  OBVIOUS
<1>4. Rollup(S, RollupDeparture) => ShipmentMoves(shipmentStatus[s], shipmentStatus'[s])
  OBVIOUS
<1>5. Rollup(S, RollupArrival) => ShipmentMoves(shipmentStatus[s], shipmentStatus'[s])
  OBVIOUS
<1>6. Rollup(S, RollupReadyForPickup) => ShipmentMoves(shipmentStatus[s], shipmentStatus'[s])
  OBVIOUS
<1>7. Rollup(S, RollupOutForDelivery) => ShipmentMoves(shipmentStatus[s], shipmentStatus'[s])
  OBVIOUS
<1>8. Rollup(S, RollupCompletion) => ShipmentMoves(shipmentStatus[s], shipmentStatus'[s])
  OBVIOUS
<1>9. Rollup(S, RollupDeliver) => ShipmentMoves(shipmentStatus[s], shipmentStatus'[s])
  OBVIOUS
<1> QED
  BY <1>1, <1>2, <1>3, <1>4, <1>5, <1>6, <1>7, <1>8, <1>9

\* Nothing but these happens to a shipment in any step.
LEMMA EveryStepMoves ==
  ASSUME NoCorrections, TypeOK, Next, NEW s \in Shipments
  PROVE  ShipmentMoves(shipmentStatus[s], shipmentStatus'[s])
<1> USE DEF TypeOK
<1>1. CASE ShipmentStep
  <2>1. ASSUME NEW t \in Shipments, NEW I \in SUBSET ItemsOf(t), CreateShipment(t, I)
        PROVE  ShipmentMoves(shipmentStatus[s], shipmentStatus'[s])
    BY <2>1 DEF CreateShipment, ShipmentMoves
  <2>2. ASSUME NEW i \in Items, AddItem(i)
        PROVE  ShipmentMoves(shipmentStatus[s], shipmentStatus'[s])
    BY <2>2 DEF AddItem, shipmentVars, ShipmentMoves
  <2>3. ASSUME NEW t \in Shipments, NEW i \in Items \cup {None}, NEW e \in ManualEvents,
               ManualTrackingEvent(t, i, e)
        PROVE  ShipmentMoves(shipmentStatus[s], shipmentStatus'[s])
    BY <2>3 DEF ManualTrackingEvent, NoCorrections, ShipmentMoves
  <2> QED
    BY <1>1, <2>1, <2>2, <2>3 DEF ShipmentStep
<1>2. CASE WarehouseStep
  <2>1. ASSUME NEW i \in Items, NEW w \in Warehouses, ReceiveItem(i, w)
        PROVE  ShipmentMoves(shipmentStatus[s], shipmentStatus'[s])
    BY <2>1, ShipmentOfAssumption DEF ReceiveItem, ShipmentMoves, ByRollup
  <2> QED
    BY <1>2, <2>1, RollupMoves
       DEF WarehouseStep, ProcessItem, DestinationReceiveItem, PickupItem, DispatchItem,
           DeliverItem, ReturnItem, shipmentVars, ShipmentMoves
<1>3. CASE ContainerStep
  BY <1>3, RollupMoves
     DEF ContainerStep, CreateContainer, LoadItem, UnloadItem, FinalizeContainer,
         OpenForUnloading, CloseUnloading, shipmentVars, ShipmentMoves
<1>4. CASE ManifestStep
  BY <1>4, RollupMoves
     DEF ManifestStep, CreateManifest, FinalizeManifest, Depart, Arrive, AssignContainer,
         UnassignContainer, AssignItem, UnassignItem, shipmentVars, ShipmentMoves
<1> QED
  BY <1>1, <1>2, <1>3, <1>4 DEF Next

\* A shipment that exists goes on existing.
LEMMA ShipmentsStay ==
  ASSUME NoCorrections, TypeOK, Next, NEW s \in Shipments, shipmentStatus[s] # NotCreated
  PROVE  shipmentStatus'[s] # NotCreated
<1>1. shipmentStatus[s] \in ShipmentStatuses /\ NotCreated \notin ShipmentStatuses
  BY DEF TypeOK, ShipmentStatuses, NotCreated
<1>2. Written \subseteq ShipmentStatuses /\ "CANCELLED" \in ShipmentStatuses
  BY DEF Written, ShipmentStatuses
<1>3. shipmentStatus'[s] \in ShipmentStatuses
  <2>1. CASE ByRollup(shipmentStatus[s], shipmentStatus'[s])
    BY <1>1, <1>2, <2>1, RollupsWithin DEF ByRollup
  <2> QED
    BY <1>1, <1>2, <2>1, EveryStepMoves DEF ShipmentMoves
<1> QED
  BY <1>1, <1>3

-----------------------------------------------------------------------------
\* Steps that touch no transport.

\* If only items that are on no transport change, and none to a status that a
\* transport must list, every item stays on the transport it was on.
LEMMA OffTransport ==
  ASSUME Journey, UNCHANGED <<containerVars, manifestVars>>, NEW I \in SUBSET Items,
         \A j \in Items \ I : /\ itemStatus'[j] = itemStatus[j]
                              /\ currentWarehouse'[j] = currentWarehouse[j],
         \A j \in I : itemStatus[j] \notin Assigned /\ itemStatus'[j] \notin Assigned
  PROVE  OneOpenTransport' /\ StatusMatchesTransport' /\ LoadedThere'
<1>1. \A j \in Items : OpenRows(j)' = OpenRows(j)
  BY DEF OpenRows, containerVars, manifestVars
<1>2. \A j \in I : OpenRows(j) = {}
  BY Unassigned
<1>3. OneOpenTransport'
  BY <1>1 DEF Journey, ItemsAgree, OneOpenTransport, containerVars, manifestVars
<1>4. StatusMatchesTransport'
  BY <1>1, <1>2 DEF Journey, ItemsAgree, StatusMatchesTransport, containerVars, manifestVars,
         Assigned, ContainerItemStatus, ManifestItemStatus
<1>5. LoadedThere'
  BY <1>1, <1>2 DEF Journey, ItemsAgree, LoadedThere
<1> QED
  BY <1>3, <1>4, <1>5

\* Items come into being only in shipments that exist, and no step makes a
\* shipment disappear; air manifests' rows stay on air manifests.
LEMMA PlacedStep ==
  ASSUME NoCorrections, Journey, Next
  PROVE  WellPlaced'
<1> USE DEF Journey, ItemsAgree, Transport, TypeOK
<1>1. ASSUME NEW i \in Items, itemStatus'[i] # NotCreated
      PROVE  shipmentStatus'[ShipmentOf[i]] # NotCreated
  <2>1. ShipmentOf[i] \in Shipments
    BY ShipmentOfAssumption
  <2>2. CASE itemStatus[i] # NotCreated
    BY <2>1, <2>2, ShipmentsStay DEF WellPlaced, Created
  <2>3. CASE itemStatus[i] = NotCreated
    <3>1. ASSUME NEW s \in Shipments, NEW I \in SUBSET ItemsOf(s), CreateShipment(s, I)
          PROVE  shipmentStatus'[ShipmentOf[i]] # NotCreated
      BY <1>1, <2>1, <2>3, <3>1 DEF CreateShipment, SetItems, ItemsOf, NotCreated
    <3>2. ASSUME NEW j \in Items, AddItem(j)
          PROVE  shipmentStatus'[ShipmentOf[i]] # NotCreated
      BY <1>1, <2>1, <2>3, <3>2 DEF AddItem, SetItem, shipmentVars
    <3>3. ASSUME NEW s \in Shipments, NEW j \in Items \cup {None}, NEW e \in ManualEvents,
                 ManualTrackingEvent(s, j, e)
          PROVE  FALSE
      BY <1>1, <2>3, <3>3 DEF ManualTrackingEvent, NoCorrections
    <3>4. ~ WarehouseStep
      BY ZenonT(60), <1>1, <2>3
         DEF WarehouseStep, ReceiveItem, ProcessItem, DestinationReceiveItem, PickupItem,
             DispatchItem, DeliverItem, ReturnItem, CanProcess, AtDesk, WithDriver, Eligible,
             Processable, SetItem, NotCreated
    <3>5. CASE ContainerStep
      <4>1. ASSUME NEW c \in Containers, containerItems[c][i] > 0,
                   containerStatus[c] \in {"BOOKED", "LOADING"}
            PROVE  FALSE
        BY <2>3, <4>1, OpenContainer DEF ContainerItemStatus, NotCreated
      <4>2. ASSUME NEW c \in Containers, NEW j \in Items, LoadItem(c, j) \/ UnloadItem(c, j)
            PROVE  FALSE
        BY <1>1, <2>3, <4>1, <4>2 DEF LoadItem, CanLoad, Eligible, UnloadItem, CanUnload,
             SetItem, NotCreated
      <4>3. ASSUME NEW c \in Containers, FinalizeContainer(c) PROVE FALSE
        BY <1>1, <2>3, <4>1, <4>3 DEF FinalizeContainer, CanSeal, SetItems, Aboard
      <4> QED
        BY <1>1, <2>3, <3>5, <4>2, <4>3 DEF ContainerStep, CreateContainer, OpenForUnloading,
             CloseUnloading, itemVars
    <3>6. CASE ManifestStep
      <4>1. ASSUME NEW m \in Manifests, NEW j \in Items, AssignItem(m, j) \/ UnassignItem(m, j)
            PROVE  FALSE
        BY <1>1, <2>3, <4>1, OpenManifest DEF AssignItem, CanAssignItem, Eligible, UnassignItem,
             CanUnassignItem, SetItem, ManifestItemStatus, NotCreated
      <4>2. ASSUME NEW m \in Manifests, FinalizeManifest(m) \/ Depart(m) PROVE FALSE
        BY <1>1, <2>3, <4>2 DEF FinalizeManifest, CanFinalize, Depart, CanDepart, AllCargo,
             SetItems, NotCreated
      <4>3. ASSUME NEW m \in Manifests, Arrive(m) PROVE FALSE
        <5>1. i \in CargoOf(m)
          BY <1>1, <2>3, <4>3 DEF Arrive, SetItems
        <5>2. CASE ModeOf[m] = "AIR"
          BY <2>3, <4>3, <5>1, <5>2 DEF Arrive, CanArrive, AllCargo, NotCreated
        <5>3. CASE ModeOf[m] # "AIR"
          <6>1. PICK c \in Containers : i \in Aboard(c) /\ containerStatus[c] = "DEPARTED"
            BY <4>3, <5>1, <5>3 DEF Arrive, CanArrive, CargoOf, ContainersOn
          <6> QED
            BY <2>3, <6>1, OpenContainer DEF Aboard, ContainerItemStatus, NotCreated
        <5> QED
          BY <5>2, <5>3
      <4> QED
        BY <1>1, <2>3, <3>6, <4>1, <4>2, <4>3 DEF ManifestStep, CreateManifest,
             AssignContainer, UnassignContainer, itemVars
    <3> QED
      BY <3>1, <3>2, <3>3, <3>4, <3>5, <3>6 DEF Next, ShipmentStep
  <2> QED
    BY <2>2, <2>3
<1>2. ASSUME NEW m \in Manifests, ModeOf[m] = "OCEAN" \/ manifestStatus'[m] = NotCreated
      PROVE  Listed(m)' = {}
  <2>1. ModeOf[m] = "OCEAN" \/ manifestStatus[m] = NotCreated
    <3>1. CASE ShipmentStep \/ WarehouseStep \/ ContainerStep
      BY <1>2, <3>1, OthersLeaveTransport DEF manifestVars, ContainerStep, CreateContainer,
           LoadItem, UnloadItem, FinalizeContainer, OpenForUnloading, CloseUnloading
    <3>2. CASE ManifestStep
      BY <1>2, <3>2 DEF ManifestStep, CreateManifest, FinalizeManifest, Depart, Arrive,
           AssignContainer, UnassignContainer, AssignItem, UnassignItem, manifestVars, NotCreated
    <3> QED
      BY <3>1, <3>2 DEF Next
  <2>2. Listed(m) = {}
    BY <2>1 DEF WellPlaced
  <2>3. \A i \in Items : manifestItems'[m][i] = manifestItems[m][i]
    <3>1. CASE ShipmentStep \/ WarehouseStep \/ ContainerStep
      BY <3>1, OthersLeaveTransport DEF manifestVars, ContainerStep, CreateContainer, LoadItem,
           UnloadItem, FinalizeContainer, OpenForUnloading, CloseUnloading
    <3>2. CASE ManifestStep
      BY ZenonT(30), <2>1, <3>2, ModeAssumption
         DEF ManifestStep, CreateManifest, FinalizeManifest, Depart, Arrive, AssignContainer,
             UnassignContainer, AssignItem, CanAssignItem, UnassignItem, CanUnassignItem,
             manifestVars, WellPlaced, Listed, NotCreated
    <3> QED
      BY <3>1, <3>2 DEF Next
  <2> QED
    BY <2>2, <2>3 DEF Listed
<1> QED
  BY <1>1, <1>2 DEF WellPlaced, Created


\* What the shipments service does to items: creates them.
LEMMA JourneyShipment ==
  ASSUME NoCorrections, Journey, ShipmentStep
  PROVE  ItemsAgree'
<1> USE DEF Journey, ItemsAgree, Transport, TypeOK
<1>0. UNCHANGED <<containerVars, manifestVars>>
  BY OthersLeaveTransport
<1>1. ASSUME NEW I \in SUBSET Items, \A i \in I : itemStatus[i] = NotCreated,
             SetItems(I, "REGISTERED"), UNCHANGED <<currentWarehouse, received, handoffs>>
      PROVE  ItemsAgree'
  <2>1. OneOpenTransport' /\ StatusMatchesTransport' /\ LoadedThere'
    BY <1>0, <1>1, OffTransport DEF SetItems, Assigned, NotCreated
  <2>2. Located'
    BY <1>1 DEF SetItems, Located, NotCreated, OutForDeliveryOrLater, TerminalHandoff
  <2>3. HandedOverOnce'
    BY <1>1 DEF SetItems, HandedOverOnce, NotCreated, TerminalHandoff
  <2> QED
    BY <2>1, <2>2, <2>3
<1>2. ASSUME NEW s \in Shipments, NEW I \in SUBSET ItemsOf(s), CreateShipment(s, I)
      PROVE  ItemsAgree'
  <2>1. I \in SUBSET Items /\ \A i \in I : itemStatus[i] = NotCreated
    BY <1>2 DEF CreateShipment, ItemsOf, WellPlaced, Created
  <2> QED
    BY <1>1, <1>2, <2>1 DEF CreateShipment
<1>3. ASSUME NEW i \in Items, AddItem(i)
      PROVE  ItemsAgree'
  <2>1. {i} \in SUBSET Items /\ \A j \in {i} : itemStatus[j] = NotCreated
    BY <1>3 DEF AddItem, Created
  <2>2. SetItems({i}, "REGISTERED")
    BY <1>3 DEF AddItem, SetItem, SetItems
  <2> QED
    BY <1>1, <1>3, <2>1, <2>2 DEF AddItem
<1>4. ASSUME NEW s \in Shipments, NEW i \in Items \cup {None}, NEW e \in ManualEvents,
             ManualTrackingEvent(s, i, e)
      PROVE  ItemsAgree'
  <2>1. UNCHANGED <<itemStatus, currentWarehouse, handoffs>>
    BY <1>4 DEF ManualTrackingEvent, NoCorrections
  <2>2. \A j \in Items : received'[j] = received[j]
    BY <1>4, Zenon DEF ManualTrackingEvent, NoCorrections
  <2>3. OneOpenTransport' /\ StatusMatchesTransport' /\ LoadedThere'
    <3>1. /\ {} \in SUBSET Items
          /\ \A j \in {} : itemStatus[j] \notin Assigned /\ itemStatus'[j] \notin Assigned
      OBVIOUS
    <3>2. \A j \in Items \ {} : /\ itemStatus'[j] = itemStatus[j]
                                /\ currentWarehouse'[j] = currentWarehouse[j]
      BY <2>1
    <3> QED
      BY <1>0, <3>1, <3>2, OffTransport
  <2>4. Located' /\ HandedOverOnce'
    BY <2>1, <2>2 DEF Located, HandedOverOnce
  <2> QED
    BY <2>3, <2>4
<1> QED
  BY <1>2, <1>3, <1>4 DEF ShipmentStep

\* What the warehouse does to an item. from is what its guard accepts, here is
\* the item's warehouse after the step; a hand-over counts one record.
LEMMA WarehouseMoves ==
  ASSUME Journey, UNCHANGED <<containerVars, manifestVars>>, NEW i \in Items,
         itemStatus[i] \notin Assigned \cup {NotCreated} \cup TerminalHandoff,
         itemStatus'[i] \notin Assigned \cup {NotCreated, "REGISTERED"},
         \A j \in Items \ {i} :
           /\ itemStatus'[j] = itemStatus[j]
           /\ currentWarehouse'[j] = currentWarehouse[j]
           /\ received'[j] = received[j]
           /\ handoffs'[j] = handoffs[j],
         currentWarehouse'[i] = None <=> itemStatus'[i] \in OutForDeliveryOrLater,
         received'[i] = TRUE,
         handoffs'[i] = IF itemStatus'[i] \in TerminalHandoff THEN handoffs[i] + 1 ELSE handoffs[i]
  PROVE  ItemsAgree'
<1>1. OneOpenTransport' /\ StatusMatchesTransport' /\ LoadedThere'
  <2>1. {i} \in SUBSET Items
    OBVIOUS
  <2> QED
    BY <2>1, OffTransport
<1>2. Located'
  <2>1. /\ currentWarehouse'[i] = None
             <=> itemStatus'[i] \in OutForDeliveryOrLater \cup {NotCreated, "REGISTERED"}
        /\ received'[i] = (itemStatus'[i] \notin {NotCreated, "REGISTERED"})
    OBVIOUS
  <2> QED
    BY <2>1 DEF Journey, ItemsAgree, Located
<1>3. HandedOverOnce'
  <2>1. handoffs[i] = 0
    BY DEF Journey, ItemsAgree, HandedOverOnce
  <2> QED
    BY <2>1 DEF Journey, ItemsAgree, HandedOverOnce
<1> QED
  BY <1>1, <1>2, <1>3 DEF ItemsAgree

LEMMA JourneyWarehouse ==
  ASSUME Journey, WarehouseStep
  PROVE  ItemsAgree'
<1> USE DEF Journey, ItemsAgree, Transport, TypeOK, Eligible, CanProcess, AtDesk, WithDriver,
            SetItem, Assigned, NotCreated, TerminalHandoff, OutForDeliveryOrLater
<1>0. UNCHANGED <<containerVars, manifestVars>>
  BY OthersLeaveTransport
<1>1. None \notin Warehouses
  BY NoneAssumption
<1>2. ASSUME NEW i \in Items, NEW w \in Warehouses, ReceiveItem(i, w)
      PROVE  ItemsAgree'
  BY <1>0, <1>1, <1>2, WarehouseMoves DEF ReceiveItem
<1>3. ASSUME NEW i \in Items, NEW w \in Warehouses, NEW ready \in BOOLEAN,
             ProcessItem(i, w, ready)
      PROVE  ItemsAgree'
  BY <1>0, <1>1, <1>3, WarehouseMoves DEF ProcessItem, Processable, Located
<1>4. ASSUME NEW i \in Items, NEW w \in Warehouses, NEW good \in BOOLEAN,
             DestinationReceiveItem(i, w, good)
      PROVE  ItemsAgree'
  <2>1. received[i] = TRUE /\ currentWarehouse[i] # None
    BY <1>4 DEF DestinationReceiveItem, Located
  <2>2. received'[i] = TRUE /\ \A j \in Items \ {i} : received'[j] = received[j]
    BY <1>4, <2>1, Zenon DEF DestinationReceiveItem
  <2> QED
    BY <1>0, <1>1, <1>4, <2>1, <2>2, WarehouseMoves DEF DestinationReceiveItem
<1>5. ASSUME NEW i \in Items, NEW w \in Warehouses, PickupItem(i, w)
      PROVE  ItemsAgree'
  BY <1>0, <1>1, <1>5, WarehouseMoves DEF PickupItem, Located
<1>6. ASSUME NEW i \in Items, NEW w \in Warehouses, DispatchItem(i, w)
      PROVE  ItemsAgree'
  BY <1>0, <1>1, <1>6, WarehouseMoves DEF DispatchItem, Located
<1>7. ASSUME NEW i \in Items, DeliverItem(i)
      PROVE  ItemsAgree'
  BY <1>0, <1>1, <1>7, WarehouseMoves DEF DeliverItem, Located
<1>8. ASSUME NEW i \in Items, NEW w \in Warehouses, NEW retry \in BOOLEAN,
             ReturnItem(i, w, retry)
      PROVE  ItemsAgree'
  BY <1>0, <1>1, <1>8, WarehouseMoves DEF ReturnItem, Located
<1> QED
  BY <1>2, <1>3, <1>4, <1>5, <1>6, <1>7, <1>8 DEF WarehouseStep


-----------------------------------------------------------------------------
\* Steps that move cargo.

\* The statuses that loading, departure and arrival take an item through.
OnTheWay ==
  {"PROCESSED", "ASSIGNED_TO_CONTAINER", "ASSIGNED_TO_MANIFEST", "LOADED",
   "DEPARTED_ORIGIN", "ARRIVED_DESTINATION"}

\* If items only move among those, none is lost from a warehouse or handed over.
LEMMA OnlyMoved ==
  ASSUME Journey, UNCHANGED <<currentWarehouse, received, handoffs>>,
         \A j \in Items : \/ itemStatus'[j] = itemStatus[j]
                          \/ {itemStatus[j], itemStatus'[j]} \subseteq OnTheWay
  PROVE  Located' /\ HandedOverOnce'
<1> USE DEF Journey, ItemsAgree, OnTheWay, OutForDeliveryOrLater, TerminalHandoff, NotCreated
<1>1. Located'
  BY DEF Located
<1>2. HandedOverOnce'
  BY DEF HandedOverOnce
<1> QED
  BY <1>1, <1>2

\* If items only get off transports, and each has the status that the transport
\* it is still on asks for.
LEMMA NoNewTransport ==
  ASSUME Journey, UNCHANGED <<currentWarehouse, containerItems, manifestItems>>,
         \A j \in Items : OpenRows(j)' \subseteq OpenRows(j),
         \A j \in Items, c \in Containers :
           c \in OpenRows(j)' => itemStatus'[j] = ContainerItemStatus[containerStatus'[c]],
         \A j \in Items, m \in Manifests :
           m \in OpenRows(j)' => itemStatus'[j] = ManifestItemStatus[manifestStatus'[m]],
         \A j \in Items : OpenRows(j)' = {} => itemStatus'[j] \notin Assigned
  PROVE  OneOpenTransport' /\ StatusMatchesTransport' /\ LoadedThere'
<1>1. OneOpenTransport'
  BY DEF Journey, ItemsAgree, OneOpenTransport
<1>2. StatusMatchesTransport'
  BY DEF StatusMatchesTransport, Assigned
<1>3. LoadedThere'
  BY DEF Journey, ItemsAgree, LoadedThere
<1> QED
  BY <1>1, <1>2, <1>3

\* If one item gets on or off a transport, alone.
LEMMA OneItemMoves ==
  ASSUME Journey, UNCHANGED currentWarehouse, NEW i \in Items,
         \A j \in Items \ {i} :
           /\ OpenRows(j)' = OpenRows(j)
           /\ itemStatus'[j] = itemStatus[j]
           /\ \A c \in Containers : c \in OpenRows(j) => containerStatus'[c] = containerStatus[c]
           /\ \A m \in Manifests : m \in OpenRows(j) => manifestStatus'[m] = manifestStatus[m],
         \A j \in Items, c \in Containers : containerItems'[c][j] <= 1,
         \A j \in Items, m \in Manifests : manifestItems'[m][j] <= 1,
         \A t, u \in OpenRows(i)' : t = u,
         \A c \in Containers :
           c \in OpenRows(i)' => /\ itemStatus'[i] = ContainerItemStatus[containerStatus'[c]]
                                 /\ currentWarehouse[i] = ContainerWarehouse[c],
         \A m \in Manifests :
           m \in OpenRows(i)' => itemStatus'[i] = ManifestItemStatus[manifestStatus'[m]],
         OpenRows(i)' = {} => itemStatus'[i] \notin Assigned
  PROVE  OneOpenTransport' /\ StatusMatchesTransport' /\ LoadedThere'
<1>1. OneOpenTransport'
  <2>1. ASSUME NEW j \in Items PROVE \A t, u \in OpenRows(j)' : t = u
    BY DEF Journey, ItemsAgree, OneOpenTransport
  <2> QED
    BY <2>1 DEF OneOpenTransport
<1>2. StatusMatchesTransport'
  <2>1. ASSUME NEW j \in Items, j # i
        PROVE  /\ \A c \in Containers :
                    c \in OpenRows(j)'
                      => itemStatus'[j] = ContainerItemStatus[containerStatus'[c]]
               /\ \A m \in Manifests :
                    m \in OpenRows(j)'
                      => itemStatus'[j] = ManifestItemStatus[manifestStatus'[m]]
               /\ itemStatus'[j] \in Assigned => OpenRows(j)' # {}
    BY <2>1 DEF Journey, ItemsAgree, StatusMatchesTransport, Assigned
  <2> QED
    BY <2>1 DEF StatusMatchesTransport, Assigned
<1>3. LoadedThere'
  BY DEF Journey, ItemsAgree, LoadedThere
<1> QED
  BY <1>1, <1>2, <1>3

LEMMA JourneyContainer ==
  ASSUME Journey, ContainerStep
  PROVE  ItemsAgree'
<1> USE DEF Journey, Transport, TypeOK, NotCreated, OnTheWay
<1>1. ASSUME NEW c \in Containers,
             CreateContainer(c) \/ OpenForUnloading(c) \/ CloseUnloading(c)
      PROVE  ItemsAgree'
  <2>0. UNCHANGED <<itemVars, manifestId, containerItems, manifestVars>>
    BY <1>1 DEF CreateContainer, OpenForUnloading, CloseUnloading
  <2>1. /\ \A d \in Containers \ {c} : containerStatus'[d] = containerStatus[d]
        /\ {containerStatus[c], containerStatus'[c]}
             \cap {"LOADING", "LOADED", "DEPARTED"} = {}
    BY <1>1 DEF CreateContainer, OpenForUnloading, CloseUnloading
  <2>2. ASSUME NEW j \in Items PROVE OpenRows(j)' = OpenRows(j) /\ c \notin OpenRows(j)
    BY <2>0, <2>1, TransportAssumption DEF OpenRows, manifestVars
  <2>3. OneOpenTransport' /\ StatusMatchesTransport' /\ LoadedThere'
    <3>1. ASSUME NEW j \in Items, NEW d \in Containers, d \in OpenRows(j)
          PROVE  itemStatus'[j] = ContainerItemStatus[containerStatus'[d]]
      BY <2>0, <2>1, <2>2, <3>1, OpenContainer DEF itemVars
    <3>2. ASSUME NEW j \in Items, NEW m \in Manifests, m \in OpenRows(j)
          PROVE  itemStatus'[j] = ManifestItemStatus[manifestStatus'[m]]
      BY <2>0, <3>2, OpenManifest DEF itemVars, manifestVars
    <3>3. ASSUME NEW j \in Items, OpenRows(j) = {} PROVE itemStatus'[j] \notin Assigned
      BY <2>0, <3>3 DEF itemVars, ItemsAgree, StatusMatchesTransport, Assigned
    <3> QED
      BY <2>0, <2>2, <3>1, <3>2, <3>3, NoNewTransport DEF itemVars, manifestVars
  <2>4. Located' /\ HandedOverOnce'
    BY <2>0, OnlyMoved DEF itemVars
  <2> QED
    BY <2>3, <2>4 DEF ItemsAgree
<1>2. ASSUME NEW c \in Containers, FinalizeContainer(c) PROVE ItemsAgree'
  <2>0. /\ UNCHANGED <<currentWarehouse, received, handoffs, containerItems, manifestVars>>
        /\ containerStatus[c] = "LOADING" /\ containerStatus'[c] = "LOADED"
        /\ \A d \in Containers \ {c} : containerStatus'[d] = containerStatus[d]
        /\ \A j \in Items :
             itemStatus'[j] = IF j \in Aboard(c) THEN "LOADED" ELSE itemStatus[j]
    BY <1>2 DEF FinalizeContainer, CanSeal, SetItems
  <2>1. \A j \in Items : OpenRows(j)' = OpenRows(j)
    BY <2>0, TransportAssumption DEF OpenRows, manifestVars
  <2>2. ASSUME NEW j \in Items
        PROVE  /\ j \in Aboard(c) <=> c \in OpenRows(j)
               /\ j \in Aboard(c) => itemStatus[j] = "ASSIGNED_TO_CONTAINER"
               /\ j \in Aboard(c) => OpenRows(j) = {c}
    <3>1. j \in Aboard(c) <=> c \in OpenRows(j)
      BY <2>0, OpenContainer DEF Aboard
    <3>2. j \in Aboard(c) => itemStatus[j] = "ASSIGNED_TO_CONTAINER"
      BY <2>0, <3>1, OpenContainer DEF ContainerItemStatus
    <3> QED
      BY <3>1, <3>2, OneJourney
  <2>3. OneOpenTransport' /\ StatusMatchesTransport' /\ LoadedThere'
    <3>1. ASSUME NEW j \in Items, NEW d \in Containers, d \in OpenRows(j)
          PROVE  itemStatus'[j] = ContainerItemStatus[containerStatus'[d]]
      <4>1. CASE d = c
        BY <2>0, <2>2, <3>1, <4>1 DEF ContainerItemStatus
      <4>2. CASE d # c
        <5>1. j \notin Aboard(c)
          BY <2>2, <3>1, <4>2
        <5> QED
          BY <2>0, <3>1, <4>2, <5>1, OpenContainer
      <4> QED
        BY <4>1, <4>2
    <3>2. ASSUME NEW j \in Items, NEW m \in Manifests, m \in OpenRows(j)
          PROVE  itemStatus'[j] = ManifestItemStatus[manifestStatus'[m]]
      <4>1. j \notin Aboard(c)
        BY <2>2, <3>2, TransportAssumption
      <4> QED
        BY <2>0, <3>2, <4>1, OpenManifest DEF manifestVars
    <3>3. ASSUME NEW j \in Items, OpenRows(j) = {} PROVE itemStatus'[j] \notin Assigned
      BY <2>0, <2>2, <3>3 DEF ItemsAgree, StatusMatchesTransport, Assigned
    <3> QED
      BY <2>0, <2>1, <3>1, <3>2, <3>3, NoNewTransport DEF manifestVars
  <2>4. Located' /\ HandedOverOnce'
    BY <2>0, <2>2, OnlyMoved
  <2> QED
    BY <2>3, <2>4 DEF ItemsAgree
<1>3. ASSUME NEW c \in Containers, NEW i \in Items, LoadItem(c, i) PROVE ItemsAgree'
  <2>0. /\ UNCHANGED <<currentWarehouse, received, handoffs, manifestVars>>
        /\ containerStatus[c] \in {"BOOKED", "LOADING"} /\ containerStatus'[c] = "LOADING"
        /\ currentWarehouse[i] = ContainerWarehouse[c]
        /\ \A d \in Containers \ {c} : /\ containerStatus'[d] = containerStatus[d]
                                       /\ containerItems'[d] = containerItems[d]
        /\ containerItems'[c][i] = containerItems[c][i] + 1
        /\ \A j \in Items \ {i} : /\ containerItems'[c][j] = containerItems[c][j]
                                  /\ itemStatus'[j] = itemStatus[j]
        /\ itemStatus[i] = "PROCESSED" /\ itemStatus'[i] = "ASSIGNED_TO_CONTAINER"
    BY <1>3 DEF LoadItem, CanLoad, Eligible, SetItem
  <2>1. OpenRows(i) = {} /\ containerItems[c][i] = 0
    <3>1. OpenRows(i) = {}
      BY <2>0, Unassigned DEF Assigned
    <3> QED
      BY <2>0, <3>1, OpenContainer
  <2>2. OpenRows(i)' = {c}
    BY <2>0, <2>1, TransportAssumption DEF OpenRows, manifestVars
  <2>3. ASSUME NEW j \in Items \ {i}
        PROVE  /\ OpenRows(j)' = OpenRows(j)
               /\ \A d \in Containers :
                    d \in OpenRows(j) => containerStatus'[d] = containerStatus[d]
    <3>1. c \in OpenRows(j) <=> containerItems[c][j] > 0
      BY <2>0, OpenContainer
    <3>2. c \in OpenRows(j) => containerStatus[c] = "LOADING"
      BY <2>0, OpenContainer
    <3> QED
      BY <2>0, <3>1, <3>2, OthersKeepTheirRows
  <2>4. \A j \in Items, d \in Containers : containerItems'[d][j] <= 1
    <3>1. \A j \in Items, d \in Containers : containerItems[d][j] \in {0, 1}
      BY OneJourney
    <3>2. containerItems'[c][i] \in {0, 1}
      BY <2>0, <2>1
    <3>3. \A j \in Items, d \in Containers :
            containerItems'[d][j] = containerItems[d][j] \/ (d = c /\ j = i)
      BY <2>0
    <3>4. ASSUME NEW j \in Items, NEW d \in Containers PROVE containerItems'[d][j] <= 1
      <4>1. containerItems'[d][j] \in {0, 1}
        BY <3>1, <3>2, <3>3
      <4> QED
        BY <4>1
    <3> QED
      BY <3>4
  <2>5. \A j \in Items, m \in Manifests : manifestItems'[m][j] <= 1
    BY <2>0 DEF ItemsAgree, OneOpenTransport, manifestVars
  <2>6. OneOpenTransport' /\ StatusMatchesTransport' /\ LoadedThere'
    <3>1. /\ \A t, u \in OpenRows(i)' : t = u
          /\ \A d \in Containers : d \in OpenRows(i)' => d = c
          /\ \A m \in Manifests : m \notin OpenRows(i)'
          /\ OpenRows(i)' # {}
      BY <2>2, TransportAssumption
    <3>2. itemStatus'[i] = ContainerItemStatus[containerStatus'[c]]
      BY <2>0 DEF ContainerItemStatus
    <3>3. manifestStatus' = manifestStatus
      BY <2>0 DEF manifestVars
    <3> QED
      BY <2>0, <2>3, <2>4, <2>5, <3>1, <3>2, <3>3, OneItemMoves
  <2>7. Located' /\ HandedOverOnce'
    BY <2>0, OnlyMoved
  <2> QED
    BY <2>6, <2>7 DEF ItemsAgree
<1>4. ASSUME NEW c \in Containers, NEW i \in Items, UnloadItem(c, i) PROVE ItemsAgree'
  <2>0. /\ UNCHANGED <<currentWarehouse, received, handoffs, manifestVars>>
        /\ containerStatus[c] \in {"BOOKED", "LOADING"} /\ containerItems[c][i] > 0
        /\ containerStatus'[c] = AfterUnload(containerStatus[c], containerItems'[c])
        /\ \A d \in Containers \ {c} : /\ containerStatus'[d] = containerStatus[d]
                                       /\ containerItems'[d] = containerItems[d]
        /\ containerItems'[c][i] = containerItems[c][i] - 1
        /\ \A j \in Items \ {i} : /\ containerItems'[c][j] = containerItems[c][j]
                                  /\ itemStatus'[j] = itemStatus[j]
        /\ itemStatus'[i] = "PROCESSED"
    BY <1>4 DEF UnloadItem, CanUnload, SetItem
  <2>1. /\ containerStatus[c] = "LOADING" /\ itemStatus[i] = "ASSIGNED_TO_CONTAINER"
        /\ OpenRows(i) = {c} /\ containerItems'[c][i] = 0
    <3>1. containerStatus[c] = "LOADING" /\ c \in OpenRows(i)
      BY <2>0, OpenContainer
    <3>2. itemStatus[i] = "ASSIGNED_TO_CONTAINER"
      BY <3>1, OpenContainer DEF ContainerItemStatus
    <3> QED
      BY <2>0, <3>1, <3>2, OneJourney
  <2>2. OpenRows(i)' = {}
    BY <2>0, <2>1, TransportAssumption DEF OpenRows, manifestVars
  <2>3. ASSUME NEW j \in Items \ {i}
        PROVE  /\ OpenRows(j)' = OpenRows(j)
               /\ \A d \in Containers :
                    d \in OpenRows(j) => containerStatus'[d] = containerStatus[d]
    <3>1. c \in OpenRows(j) <=> containerItems[c][j] > 0
      BY <2>1, OpenContainer
    <3>2. containerItems'[c][j] > 0 => containerStatus'[c] = "LOADING"
      BY <2>0, <2>1 DEF AfterUnload
    <3> QED
      BY <2>0, <2>1, <3>1, <3>2, OthersKeepTheirRows
  <2>4. \A j \in Items, d \in Containers : containerItems'[d][j] <= 1
    <3>1. \A j \in Items, d \in Containers : containerItems[d][j] \in {0, 1}
      BY OneJourney
    <3>2. containerItems'[c][i] \in {0, 1}
      BY <2>0, <2>1
    <3>3. \A j \in Items, d \in Containers :
            containerItems'[d][j] = containerItems[d][j] \/ (d = c /\ j = i)
      BY <2>0
    <3>4. ASSUME NEW j \in Items, NEW d \in Containers PROVE containerItems'[d][j] <= 1
      <4>1. containerItems'[d][j] \in {0, 1}
        BY <3>1, <3>2, <3>3
      <4> QED
        BY <4>1
    <3> QED
      BY <3>4
  <2>5. \A j \in Items, m \in Manifests : manifestItems'[m][j] <= 1
    BY <2>0 DEF ItemsAgree, OneOpenTransport, manifestVars
  <2>6. OneOpenTransport' /\ StatusMatchesTransport' /\ LoadedThere'
    BY <2>0, <2>2, <2>3, <2>4, <2>5, OneItemMoves DEF manifestVars, Assigned
  <2>7. Located' /\ HandedOverOnce'
    BY <2>0, <2>1, OnlyMoved
  <2> QED
    BY <2>6, <2>7 DEF ItemsAgree
<1> QED
  BY <1>1, <1>2, <1>3, <1>4 DEF ContainerStep


LEMMA JourneyManifest ==
  ASSUME Journey, ManifestStep
  PROVE  ItemsAgree'
<1> USE DEF Journey, Transport, TypeOK, NotCreated, OnTheWay
<1>1. ASSUME NEW m \in Manifests,
             \/ CreateManifest(m)
             \/ \E c \in Containers : AssignContainer(m, c) \/ UnassignContainer(m, c)
      PROVE  ItemsAgree'
  <2>0. /\ UNCHANGED <<itemVars, containerStatus, containerItems, manifestItems>>
        /\ \A n \in Manifests :
             \/ manifestStatus'[n] = manifestStatus[n]
             \/ manifestStatus[n] = NotCreated /\ manifestStatus'[n] = "DRAFT"
    BY <1>1 DEF CreateManifest, AssignContainer, UnassignContainer, containerVars, manifestVars
  <2>1. ASSUME NEW j \in Items PROVE OpenRows(j)' = OpenRows(j)
    <3>1. \A n \in Manifests : manifestStatus[n] = NotCreated => ~ manifestItems[n][j] > 0
      BY OpenManifest
    <3> QED
      BY <2>0, <3>1, TransportAssumption DEF OpenRows
  <2>2. OneOpenTransport' /\ StatusMatchesTransport' /\ LoadedThere'
    <3>1. ASSUME NEW j \in Items, NEW d \in Containers, d \in OpenRows(j)
          PROVE  itemStatus'[j] = ContainerItemStatus[containerStatus'[d]]
      BY <2>0, <3>1, OpenContainer DEF itemVars
    <3>2. ASSUME NEW j \in Items, NEW n \in Manifests, n \in OpenRows(j)
          PROVE  itemStatus'[j] = ManifestItemStatus[manifestStatus'[n]]
      <4>1. manifestStatus'[n] = manifestStatus[n]
        BY <2>0, <3>2, OpenManifest
      <4> QED
        BY <2>0, <3>2, <4>1, OpenManifest DEF itemVars
    <3>3. ASSUME NEW j \in Items, OpenRows(j) = {} PROVE itemStatus'[j] \notin Assigned
      BY <2>0, <3>3 DEF itemVars, ItemsAgree, StatusMatchesTransport, Assigned
    <3> QED
      BY <2>0, <2>1, <3>1, <3>2, <3>3, NoNewTransport DEF itemVars
  <2>3. Located' /\ HandedOverOnce'
    BY <2>0, OnlyMoved DEF itemVars
  <2> QED
    BY <2>2, <2>3 DEF ItemsAgree
<1>2. ASSUME NEW m \in Manifests, NEW i \in Items, AssignItem(m, i) PROVE ItemsAgree'
  <2>0. /\ UNCHANGED <<currentWarehouse, received, handoffs, containerVars, manifestStatus>>
        /\ manifestStatus[m] = "DRAFT"
        /\ \A n \in Manifests \ {m} : manifestItems'[n] = manifestItems[n]
        /\ manifestItems'[m][i] = manifestItems[m][i] + 1
        /\ \A j \in Items \ {i} : /\ manifestItems'[m][j] = manifestItems[m][j]
                                  /\ itemStatus'[j] = itemStatus[j]
        /\ itemStatus[i] = "PROCESSED" /\ itemStatus'[i] = "ASSIGNED_TO_MANIFEST"
    BY <1>2 DEF AssignItem, CanAssignItem, Eligible, SetItem
  <2>1. OpenRows(i) = {} /\ manifestItems[m][i] = 0
    <3>1. OpenRows(i) = {}
      BY <2>0, Unassigned DEF Assigned
    <3> QED
      BY <2>0, <3>1, OpenManifest
  <2>2. OpenRows(i)' = {m}
    BY <2>0, <2>1, TransportAssumption DEF OpenRows, containerVars
  <2>3. \A j \in Items \ {i} : OpenRows(j)' = OpenRows(j)
    BY SMTT(30), <2>0, TransportAssumption DEF OpenRows, containerVars
  <2>4. ASSUME NEW j \in Items, NEW n \in Manifests PROVE manifestItems'[n][j] <= 1
    <3>1. CASE n = m /\ j = i
      BY <2>0, <2>1, <3>1
    <3>2. CASE ~ (n = m /\ j = i)
      <4>1. manifestItems'[n][j] = manifestItems[n][j]
        BY <2>0, <3>2
      <4> QED
        BY <4>1 DEF ItemsAgree, OneOpenTransport
    <3> QED
      BY <3>1, <3>2
  <2>5. \A j \in Items, c \in Containers : containerItems'[c][j] <= 1
    BY <2>0 DEF ItemsAgree, OneOpenTransport, containerVars
  <2>6. OneOpenTransport' /\ StatusMatchesTransport' /\ LoadedThere'
    <3>1. /\ \A t, u \in OpenRows(i)' : t = u
          /\ \A n \in Manifests : n \in OpenRows(i)' => n = m
          /\ \A c \in Containers : c \notin OpenRows(i)'
          /\ OpenRows(i)' # {}
      BY <2>2, TransportAssumption
    <3>2. itemStatus'[i] = ManifestItemStatus[manifestStatus'[m]]
      BY <2>0 DEF ManifestItemStatus
    <3>3. containerStatus' = containerStatus
      BY <2>0 DEF containerVars
    <3> QED
      BY <2>0, <2>3, <2>4, <2>5, <3>1, <3>2, <3>3, OneItemMoves
  <2>7. Located' /\ HandedOverOnce'
    BY <2>0, OnlyMoved
  <2> QED
    BY <2>6, <2>7 DEF ItemsAgree
<1>3. ASSUME NEW m \in Manifests, NEW i \in Items, UnassignItem(m, i) PROVE ItemsAgree'
  <2>0. /\ UNCHANGED <<currentWarehouse, received, handoffs, containerVars, manifestStatus>>
        /\ manifestStatus[m] = "DRAFT" /\ manifestItems[m][i] > 0
        /\ \A n \in Manifests \ {m} : manifestItems'[n] = manifestItems[n]
        /\ manifestItems'[m][i] = manifestItems[m][i] - 1
        /\ \A j \in Items \ {i} : /\ manifestItems'[m][j] = manifestItems[m][j]
                                  /\ itemStatus'[j] = itemStatus[j]
        /\ itemStatus'[i] = "PROCESSED"
    BY <1>3 DEF UnassignItem, CanUnassignItem, SetItem
  <2>1. /\ itemStatus[i] = "ASSIGNED_TO_MANIFEST"
        /\ OpenRows(i) = {m} /\ manifestItems'[m][i] = 0
    <3>1. m \in OpenRows(i)
      BY <2>0, OpenManifest
    <3>2. itemStatus[i] = "ASSIGNED_TO_MANIFEST"
      BY <2>0, <3>1, OpenManifest DEF ManifestItemStatus
    <3> QED
      BY <2>0, <3>1, <3>2, OneJourney
  <2>2. OpenRows(i)' = {}
    BY <2>0, <2>1, TransportAssumption DEF OpenRows, containerVars
  <2>3. \A j \in Items \ {i} : OpenRows(j)' = OpenRows(j)
    BY SMTT(30), <2>0, TransportAssumption DEF OpenRows, containerVars
  <2>4. ASSUME NEW j \in Items, NEW n \in Manifests PROVE manifestItems'[n][j] <= 1
    <3>1. CASE n = m /\ j = i
      BY <2>0, <2>1, <3>1
    <3>2. CASE ~ (n = m /\ j = i)
      <4>1. manifestItems'[n][j] = manifestItems[n][j]
        BY <2>0, <3>2
      <4> QED
        BY <4>1 DEF ItemsAgree, OneOpenTransport
    <3> QED
      BY <3>1, <3>2
  <2>5. \A j \in Items, c \in Containers : containerItems'[c][j] <= 1
    BY <2>0 DEF ItemsAgree, OneOpenTransport, containerVars
  <2>6. OneOpenTransport' /\ StatusMatchesTransport' /\ LoadedThere'
    BY <2>0, <2>2, <2>3, <2>4, <2>5, OneItemMoves DEF containerVars, Assigned
  <2>7. Located' /\ HandedOverOnce'
    BY <2>0, <2>1, OnlyMoved
  <2> QED
    BY <2>6, <2>7 DEF ItemsAgree
<1>4. ASSUME NEW m \in Manifests, FinalizeManifest(m) PROVE ItemsAgree'
  <2>0. /\ UNCHANGED <<currentWarehouse, received, handoffs, containerVars, manifestItems>>
        /\ manifestStatus[m] = "DRAFT" /\ manifestStatus'[m] = "FINALIZED"
        /\ \A n \in Manifests \ {m} : manifestStatus'[n] = manifestStatus[n]
        /\ \A j \in Items :
             itemStatus'[j] = IF j \in CargoOf(m) THEN "LOADED" ELSE itemStatus[j]
    BY <1>4 DEF FinalizeManifest, CanFinalize, SetItems
  <2>1. \A j \in Items : OpenRows(j)' = OpenRows(j)
    BY <2>0, TransportAssumption DEF OpenRows, containerVars
  <2>2. ASSUME NEW j \in Items, m \in OpenRows(j)
        PROVE  j \in CargoOf(m)
    BY <2>2, OpenManifest, ModeAssumption DEF CargoOf, Listed
  <2>3. ASSUME NEW j \in Items, j \in CargoOf(m)
        PROVE  /\ itemStatus[j] = "LOADED" \/ (itemStatus[j] = "ASSIGNED_TO_MANIFEST"
                                                  /\ OpenRows(j) = {m})
    <3>1. CASE ModeOf[m] = "AIR"
      <4>1. itemStatus[j] = "ASSIGNED_TO_MANIFEST" /\ m \in OpenRows(j)
        BY <1>4, <2>0, <2>3, <3>1, OpenManifest
           DEF FinalizeManifest, CanFinalize, AllCargo, CargoOf, Listed
      <4> QED
        BY <4>1, OneJourney
    <3>2. CASE ModeOf[m] # "AIR"
      BY <1>4, <2>3, <3>2 DEF FinalizeManifest, CanFinalize, AllCargo
    <3> QED
      BY <3>1, <3>2
  <2>4. OneOpenTransport' /\ StatusMatchesTransport' /\ LoadedThere'
    <3>1. ASSUME NEW j \in Items, NEW c \in Containers, c \in OpenRows(j)'
          PROVE  itemStatus'[j] = ContainerItemStatus[containerStatus'[c]]
      <4>1. c \in OpenRows(j) /\ OpenRows(j) # {m}
        BY <2>1, <3>1, TransportAssumption
      <4>2. itemStatus'[j] = itemStatus[j]
        BY <2>0, <2>3, <4>1
      <4> QED
        BY <2>0, <4>1, <4>2, OpenContainer DEF containerVars
    <3>2. ASSUME NEW j \in Items, NEW n \in Manifests, n \in OpenRows(j)'
          PROVE  itemStatus'[j] = ManifestItemStatus[manifestStatus'[n]]
      <4>1. CASE n = m
        BY <2>0, <2>1, <2>2, <3>2, <4>1 DEF ManifestItemStatus
      <4>2. CASE n # m
        <5>1. n \in OpenRows(j) /\ OpenRows(j) # {m}
          BY <2>1, <3>2, <4>2
        <5>2. itemStatus'[j] = itemStatus[j]
          BY <2>0, <2>3, <5>1
        <5> QED
          BY <2>0, <4>2, <5>1, <5>2, OpenManifest
      <4> QED
        BY <4>1, <4>2
    <3>3. ASSUME NEW j \in Items, OpenRows(j)' = {} PROVE itemStatus'[j] \notin Assigned
      <4>1. OpenRows(j) = {} /\ itemStatus[j] \notin Assigned
        BY <2>1, <3>3 DEF ItemsAgree, StatusMatchesTransport, Assigned
      <4> QED
        BY <2>0, <2>3, <4>1 DEF Assigned
    <3> QED
      BY <2>0, <2>1, <3>1, <3>2, <3>3, NoNewTransport DEF containerVars
  <2>5. Located' /\ HandedOverOnce'
    BY <2>0, <2>3, OnlyMoved
  <2> QED
    BY <2>4, <2>5 DEF ItemsAgree
<1>5. ASSUME NEW m \in Manifests, Depart(m) \/ Arrive(m) PROVE ItemsAgree'
  <2> DEFINE carrier == IF ModeOf[m] = "AIR" THEN {m} ELSE ContainersOn(m)
  <2>0. /\ UNCHANGED <<currentWarehouse, received, handoffs, containerItems, manifestItems>>
        /\ \A n \in Manifests \ {m} : manifestStatus'[n] = manifestStatus[n]
        /\ \A c \in Containers \ carrier : containerStatus'[c] = containerStatus[c]
        /\ \A j \in Items \ CargoOf(m) : itemStatus'[j] = itemStatus[j]
    BY <1>5, ModeAssumption, TransportAssumption
       DEF Depart, Arrive, SetItems, MoveContainers, ContainersOn
  <2>1. \/ /\ manifestStatus[m] = "FINALIZED" /\ manifestStatus'[m] = "DEPARTED"
           /\ \A c \in Containers \cap carrier :
                containerStatus[c] = "LOADED" /\ containerStatus'[c] = "DEPARTED"
           /\ \A j \in Items \cap CargoOf(m) : itemStatus'[j] = "DEPARTED_ORIGIN"
        \/ /\ manifestStatus[m] = "DEPARTED" /\ manifestStatus'[m] = "ARRIVED"
           /\ \A c \in Containers \cap carrier :
                containerStatus[c] = "DEPARTED" /\ containerStatus'[c] = "ARRIVED"
           /\ \A j \in Items \cap CargoOf(m) : itemStatus'[j] = "ARRIVED_DESTINATION"
    <3>1. CASE Depart(m)
      BY <3>1, ModeAssumption, TransportAssumption
         DEF Depart, CanDepart, AllCargo, SetItems, MoveContainers, ContainersOn
    <3>2. CASE Arrive(m)
      BY <3>2, ModeAssumption, TransportAssumption
         DEF Arrive, CanArrive, AllCargo, SetItems, MoveContainers, ContainersOn
    <3> QED
      BY <1>5, <3>1, <3>2
  <2>2. \A j \in Items, c \in Containers :
          c \in OpenRows(j) /\ c \in carrier => j \in CargoOf(m)
    BY TransportAssumption DEF OpenRows, CargoOf, Aboard
  <2>3. ASSUME NEW j \in Items, m \in OpenRows(j)
        PROVE  ModeOf[m] = "AIR" /\ j \in CargoOf(m) /\ m \in carrier
    BY <2>3, OpenManifest, ModeAssumption DEF CargoOf, Listed
  <2>4. ASSUME NEW j \in Items, j \in CargoOf(m)
        PROVE  \E u \in carrier : OpenRows(j) = {u}
    <3>1. CASE ModeOf[m] = "AIR"
      <4>1. m \in OpenRows(j)
        BY <2>1, <2>4, <3>1, OpenManifest DEF CargoOf, Listed
      <4> QED
        BY <3>1, <4>1, OneJourney
    <3>2. CASE ModeOf[m] # "AIR"
      <4>1. PICK c \in ContainersOn(m) : j \in Aboard(c)
        BY <2>4, <3>2 DEF CargoOf
      <4>2. c \in Containers \cap carrier
        BY <3>2, <4>1 DEF ContainersOn
      <4>3. c \in OpenRows(j)
        BY <2>1, <4>1, <4>2, OpenContainer DEF Aboard
      <4> QED
        BY SMTT(30), <4>2, <4>3, OneJourney
    <3> QED
      BY <3>1, <3>2
  <2>5. ASSUME NEW j \in Items, NEW u, u \notin carrier \/ manifestStatus'[m] = "DEPARTED"
        PROVE  u \in OpenRows(j)' <=> u \in OpenRows(j)
    <3>1. CASE u \in Containers
      <4>1. CASE u \in carrier
        BY <2>0, <2>1, <2>5, <3>1, <4>1, TransportAssumption DEF OpenRows
      <4>2. CASE u \notin carrier
        BY <2>0, <3>1, <4>2, TransportAssumption DEF OpenRows
      <4> QED
        BY <4>1, <4>2
    <3>2. CASE u \in Manifests
      <4>1. CASE u = m
        <5>1. CASE u \in carrier
          BY <2>0, <2>1, <2>5, <4>1, <5>1, TransportAssumption DEF OpenRows
        <5>2. CASE u \notin carrier
          <6>1. ~ manifestItems[m][j] > 0
            BY <4>1, <5>2, OpenManifest, ModeAssumption
          <6> QED
            BY <2>0, <4>1, <6>1, TransportAssumption DEF OpenRows
        <5> QED
          BY <5>1, <5>2
      <4>2. CASE u # m
        BY <2>0, <3>2, <4>2, TransportAssumption DEF OpenRows
      <4> QED
        BY <4>1, <4>2
    <3> QED
      BY <3>1, <3>2 DEF OpenRows
  <2>6. ASSUME NEW j \in Items, NEW u \in carrier, manifestStatus'[m] = "ARRIVED"
        PROVE  u \notin OpenRows(j)'
    BY <2>1, <2>6, TransportAssumption DEF OpenRows, ContainersOn
  <2>7. \A j \in Items : OpenRows(j)' \subseteq OpenRows(j)
    BY <2>1, <2>5, <2>6
  <2>8. OneOpenTransport' /\ StatusMatchesTransport' /\ LoadedThere'
    <3>1. ASSUME NEW j \in Items, NEW c \in Containers, c \in OpenRows(j)'
          PROVE  itemStatus'[j] = ContainerItemStatus[containerStatus'[c]]
      <4>0. c \in OpenRows(j)
        BY <2>7, <3>1
      <4>1. CASE c \in carrier
        BY <2>1, <2>2, <2>6, <3>1, <4>0, <4>1 DEF ContainerItemStatus
      <4>2. CASE c \notin carrier
        BY <2>0, <2>4, <4>0, <4>2, OpenContainer
      <4> QED
        BY <4>1, <4>2
    <3>2. ASSUME NEW j \in Items, NEW n \in Manifests, n \in OpenRows(j)'
          PROVE  itemStatus'[j] = ManifestItemStatus[manifestStatus'[n]]
      <4>0. n \in OpenRows(j)
        BY <2>7, <3>2
      <4>1. CASE n = m
        BY <2>1, <2>3, <2>6, <3>2, <4>0, <4>1 DEF ManifestItemStatus
      <4>2. CASE n # m
        <5>1. n \notin carrier
          BY <4>2, TransportAssumption DEF ContainersOn
        <5>2. j \notin CargoOf(m)
          BY <2>4, <4>0, <5>1
        <5> QED
          BY <2>0, <4>0, <4>2, <5>2, OpenManifest
      <4> QED
        BY <4>1, <4>2
    <3>3. ASSUME NEW j \in Items, OpenRows(j)' = {} PROVE itemStatus'[j] \notin Assigned
      <4>1. CASE j \in CargoOf(m)
        <5>1. manifestStatus'[m] # "DEPARTED"
          BY <2>4, <2>5, <3>3, <4>1
        <5> QED
          BY <2>1, <4>1, <5>1 DEF Assigned
      <4>2. CASE j \notin CargoOf(m)
        <5>1. \A u \in OpenRows(j) : u \notin carrier
          BY <2>2, <2>3, <4>2 DEF OpenRows, ContainersOn
        <5>2. OpenRows(j) = {}
          BY <2>5, <3>3, <5>1
        <5> QED
          BY <2>0, <4>2, <5>2 DEF ItemsAgree, StatusMatchesTransport, Assigned
      <4> QED
        BY <4>1, <4>2
    <3> QED
      BY <2>0, <2>7, <3>1, <3>2, <3>3, NoNewTransport
  <2>9. Located' /\ HandedOverOnce'
    <3>1. ASSUME NEW j \in Items, j \in CargoOf(m)
          PROVE  {itemStatus[j], itemStatus'[j]} \subseteq OnTheWay
      <4>1. itemStatus[j] \in Assigned
        BY <2>4, <3>1, Unassigned
      <4> QED
        BY <2>1, <3>1, <4>1 DEF Assigned
    <3> QED
      BY <2>0, <3>1, OnlyMoved
  <2> QED
    BY <2>8, <2>9 DEF ItemsAgree
<1> QED
  BY <1>1, <1>2, <1>3, <1>4, <1>5 DEF ManifestStep


-----------------------------------------------------------------------------
LEMMA JourneyInit == Init => Journey
<1> SUFFICES ASSUME Init PROVE Journey
  OBVIOUS
<1>1. Transport
  BY TransportInit
<1>2. WellPlaced
  BY DEF Init, WellPlaced, Created, Listed
<1>3. \A i \in Items : OpenRows(i) = {}
  BY DEF Init, OpenRows, NotCreated
<1>4. OneOpenTransport
  BY <1>3 DEF Init, OneOpenTransport
<1>5. StatusMatchesTransport
  BY <1>3 DEF Init, StatusMatchesTransport, NotCreated
<1>6. LoadedThere
  BY <1>3 DEF LoadedThere
<1>7. Located
  BY DEF Init, Located
<1>8. HandedOverOnce
  BY DEF Init, HandedOverOnce, NotCreated, TerminalHandoff
<1> QED
  BY <1>1, <1>2, <1>4, <1>5, <1>6, <1>7, <1>8 DEF Journey, ItemsAgree

LEMMA JourneyStep ==
  ASSUME NoCorrections, Journey, [Next]_vars
  PROVE  Journey'
<1>1. Transport'
  BY TransportStep DEF Journey
<1>2. CASE Next
  <2>1. WellPlaced'
    BY <1>2, PlacedStep
  <2>2. ItemsAgree'
    BY <1>2, JourneyShipment, JourneyWarehouse, JourneyContainer, JourneyManifest DEF Next
  <2> QED
    BY <1>1, <2>1, <2>2 DEF Journey
<1>3. CASE UNCHANGED vars
  <2> USE <1>3 DEF vars, shipmentVars, itemVars, containerVars, manifestVars, Journey
  <2>1. WellPlaced'
    BY DEF WellPlaced, Created, Listed
  <2>2. \A i \in Items : OpenRows(i)' = OpenRows(i)
    BY DEF OpenRows
  <2>3. OneOpenTransport' /\ StatusMatchesTransport' /\ LoadedThere'
    BY <2>2 DEF ItemsAgree, OneOpenTransport, StatusMatchesTransport, LoadedThere
  <2>4. Located' /\ HandedOverOnce'
    BY DEF ItemsAgree, Located, HandedOverOnce
  <2> QED
    BY <1>1, <2>1, <2>3, <2>4 DEF ItemsAgree
<1> QED
  BY <1>2, <1>3

\* The item tables and the transports' rows always agree, as long as no item is
\* corrected by hand: Journey is inductive.
THEOREM JourneyInvariant ==
  ASSUME NoCorrections
  PROVE  Spec => []Journey
<1>1. Init => Journey
  BY JourneyInit
<1>2. Journey /\ [Next]_vars => Journey'
  BY JourneyStep
<1> QED
  BY <1>1, <1>2, PTL DEF Spec

\* An item is never on two open containers or air manifests, nor twice on one:
\* loading, assigning, unloading and reinspection never meet a second journey.
THEOREM OneOpenTransportEver ==
  ASSUME NoCorrections
  PROVE  Spec => []OneOpenTransport
<1>1. Journey => OneOpenTransport
  BY DEF Journey, ItemsAgree
<1> QED
  BY <1>1, JourneyInvariant, PTL

\* An item's status always follows the container or air manifest that lists it,
\* and an item said to be assigned, loaded or under way is listed by one.
THEOREM StatusFollowsTransport ==
  ASSUME NoCorrections
  PROVE  Spec => []StatusMatchesTransport
<1>1. Journey => StatusMatchesTransport
  BY DEF Journey, ItemsAgree
<1> QED
  BY <1>1, JourneyInvariant, PTL

\* A warehouse's inventory never loses cargo that waits in it and never shows
\* cargo that left it or was never received.
THEOREM InventoryStaysRight ==
  ASSUME NoCorrections
  PROVE  Spec => []InventoryKeptUp
<1>1. Journey => InventoryKeptUp
  BY DEF Journey, ItemsAgree, InventoryKeptUp, Located, LoadedThere, NotCreated,
         OutForDeliveryOrLater, TerminalHandoff
<1> QED
  BY <1>1, JourneyInvariant, PTL

\* Cargo is handed over at most once, with exactly one record of it.
THEOREM NeverHandedOverTwice ==
  ASSUME NoCorrections
  PROVE  Spec => []HandedOverOnce
<1>1. Journey => HandedOverOnce
  BY DEF Journey, ItemsAgree
<1> QED
  BY <1>1, JourneyInvariant, PTL

-----------------------------------------------------------------------------
\* How far each shipment is.

\* The statuses of a shipment that has reached each stage, last stage first.
AtEnd == {"COMPLETED", "CANCELLED"}
AfterArrival ==
  AtEnd \cup {"ARRIVED_DESTINATION", "READY_FOR_PICKUP", "OUT_FOR_DELIVERY", "DELIVERED"}
AfterDeparture == AfterArrival \cup {"DEPARTED"}
AfterConsolidation == AfterDeparture \cup {"CONSOLIDATED", "LOADED"}
AfterProcessing == AfterConsolidation \cup {"READY_FOR_CONSOLIDATION"}
AfterReceipt == AfterProcessing \cup {"WAREHOUSE_RECEIVED", "PROCESSING"}

\* All that a shipment is ever at, without corrections.
Stages == AfterReceipt \cup {"DRAFT", NotCreated}

Abreast(sh, its) ==
  /\ "REGISTERED" \notin its => sh \in AfterReceipt
  /\ its \subseteq ProcessedOrLater => sh \in AfterProcessing
  /\ its \subseteq CommittedOrLater => sh \in AfterConsolidation
  /\ its \subseteq DepartedOrLater => sh \in AfterDeparture
  /\ its \subseteq ArrivedOrLater => sh \in AfterArrival
  /\ its \subseteq TerminalHandoff => sh \in AtEnd

ShipmentsAbreast ==
  \A s \in Shipments :
    /\ shipmentStatus[s] \in Stages
    /\ StatusesIn(itemStatus, s) # {} =>
         Abreast(shipmentStatus[s], StatusesIn(itemStatus, s))

-----------------------------------------------------------------------------
\* A shipment only moves forward.

\* b is not before a, or is one of the two downgrades of a.
Forward(a, b) ==
  \/ Rank[a] <= Rank[b]
  \/ a = "READY_FOR_CONSOLIDATION" /\ b = "PROCESSING"
  \/ a = "CONSOLIDATED" /\ b = "READY_FOR_CONSOLIDATION"

LEMMA Ranks ==
  /\ \A sh \in Stages : Rank[sh] \in 0..13
  /\ Rank[NotCreated] = 0 /\ Rank["DRAFT"] = 1
  /\ Rank["WAREHOUSE_RECEIVED"] = 2 /\ Rank["PROCESSING"] = 3
  /\ Rank["READY_FOR_CONSOLIDATION"] = 4 /\ Rank["CONSOLIDATED"] = 5
  /\ Rank["LOADED"] = 6 /\ Rank["DEPARTED"] = 7 /\ Rank["ARRIVED_DESTINATION"] = 8
  /\ Rank["READY_FOR_PICKUP"] = 9 /\ Rank["OUT_FOR_DELIVERY"] = 10
  /\ Rank["DELIVERED"] = 11 /\ Rank["COMPLETED"] = 12 /\ Rank["CANCELLED"] = 13
BY DEF Rank, NotCreated, Stages, AfterReceipt, AfterProcessing, AfterConsolidation,
     AfterDeparture, AfterArrival, AtEnd

\* So every rollup moves a shipment, whatever statuses of items it read.
LEMMA RollupsForward ==
  ASSUME NEW a \in Stages, NEW b, ByRollup(a, b)
  PROVE  b \in Stages /\ Forward(a, b)
<1> USE DEF Stages, AfterReceipt, AfterProcessing, AfterConsolidation, AfterDeparture,
            AfterArrival, AtEnd, Forward
<1>1. ASSUME NEW its,
             \/ b = RollupReceived(a, its)
             \/ b = RollupDeparture(a, its)
             \/ b = RollupArrival(a, its)
      PROVE  b \in Stages /\ Forward(a, b)
  <2>1. \/ b = a
        \/ a = "DRAFT" /\ b = "WAREHOUSE_RECEIVED"
        \/ a \in {"CONSOLIDATED", "LOADED"} /\ b = "DEPARTED"
        \/ a = "DEPARTED" /\ b = "ARRIVED_DESTINATION"
    BY <1>1 DEF RollupReceived, RollupDeparture, RollupArrival, Advance, NotCreated
  <2> QED
    BY <2>1, Ranks
<1>2. ASSUME NEW its,
             \/ b = RollupReadyForPickup(a, its)
             \/ b = RollupOutForDelivery(a, its)
             \/ b = RollupCompletion(a, its)
      PROVE  b \in Stages /\ Forward(a, b)
  <2>1. \/ b = a
        \/ a = "ARRIVED_DESTINATION" /\ b = "READY_FOR_PICKUP"
        \/ a \in {"ARRIVED_DESTINATION", "READY_FOR_PICKUP"} /\ b = "OUT_FOR_DELIVERY"
        \/ /\ a \in {"ARRIVED_DESTINATION", "READY_FOR_PICKUP", "OUT_FOR_DELIVERY", "DELIVERED"}
           /\ b = "COMPLETED"
    BY <1>2 DEF RollupReadyForPickup, RollupOutForDelivery, RollupCompletion,
         AdvanceIgnoringCancelled, Advance
  <2> QED
    BY <2>1, Ranks
<1>3. ASSUME NEW its, b = RollupDeliver(a, its) PROVE b \in Stages /\ Forward(a, b)
  <2>1. \/ b = a
        \/ /\ a \in {"ARRIVED_DESTINATION", "READY_FOR_PICKUP", "OUT_FOR_DELIVERY", "DELIVERED"}
           /\ b \in {"DELIVERED", "COMPLETED"}
    BY <1>3 DEF RollupDeliver, RollupCompletion, RollupDelivered, AdvanceIgnoringCancelled,
         Advance
  <2> QED
    BY <2>1, Ranks
<1>4. ASSUME NEW its, b = RollupProcessing(a, its) PROVE b \in Stages /\ Forward(a, b)
  BY <1>4, Ranks DEF RollupProcessing, SettleProcessing, StartProcessing, Advance
<1>5. ASSUME NEW its, b = RollupByContainers(a, its) \/ b = RollupByManifests(a, its)
      PROVE  b \in Stages /\ Forward(a, b)
  BY <1>5, Ranks DEF RollupByContainers, SealByContainers, CommitByContainers,
       RollupByManifests, SealByManifests, CommitByManifests, Commit, Advance
<1> QED
  BY <1>1, <1>2, <1>3, <1>4, <1>5 DEF ByRollup

LEMMA MovesForward ==
  ASSUME NEW a \in Stages, NEW b, ShipmentMoves(a, b)
  PROVE  b \in Stages /\ Forward(a, b)
<1>1. CASE b = a
  BY <1>1, Ranks DEF Forward
<1>2. CASE (a = NotCreated /\ b = "DRAFT") \/ b = "CANCELLED"
  BY <1>2, Ranks DEF Forward, Stages, AfterReceipt, AfterProcessing, AfterConsolidation,
       AfterDeparture, AfterArrival, AtEnd
<1> QED
  BY <1>1, <1>2, RollupsForward DEF ShipmentMoves

-----------------------------------------------------------------------------
\* What each rollup makes of a shipment that was abreast of its items. its are
\* their statuses before the step, now those after it; the step took some of
\* them from statuses in From to to.
StepsTo(its, now, From, to) == its \subseteq now \cup From /\ to \in now

\* The lists the rollups ask for, and the statuses that handlers set.
LEMMA ItemStages ==
  /\ TerminalHandoff \subseteq ArrivedOrLater /\ ArrivedOrLater \subseteq DepartedOrLater
  /\ DepartedOrLater \subseteq CommittedOrLater /\ CommittedOrLater \subseteq ProcessedOrLater
  /\ {"REGISTERED", "RECEIVED_ORIGIN_WAREHOUSE", "EXCEPTION"} \cap ProcessedOrLater = {}
  /\ "PROCESSED" \in ProcessedOrLater \ CommittedOrLater
  /\ {"ASSIGNED_TO_CONTAINER", "ASSIGNED_TO_MANIFEST", "LOADED"}
       \subseteq CommittedOrLater \ DepartedOrLater
  /\ "DEPARTED_ORIGIN" \in DepartedOrLater \ ArrivedOrLater
  /\ {"ARRIVED_DESTINATION", "RECEIVED_DESTINATION_WAREHOUSE", "OUT_FOR_DELIVERY"}
       \subseteq ArrivedOrLater \ TerminalHandoff
  /\ TerminalHandoff = {"PICKED_UP", "DELIVERED"}
BY DEF ProcessedOrLater, CommittedOrLater, LoadedOrLater, DepartedOrLater, ArrivedOrLater,
       AtDestinationOrLater, OutForDeliveryOrLater, TerminalHandoff

LEMMA AbreastReceived ==
  ASSUME NEW sh \in Stages, NEW its, NEW now, Abreast(sh, its), NEW got,
         StepsTo(its, now, {"REGISTERED"}, "RECEIVED_ORIGIN_WAREHOUSE"),
         "REGISTERED" \notin now => got = {TRUE}, sh # NotCreated
  PROVE  Abreast(RollupReceived(sh, got), now)
<1>1. ~ now \subseteq ProcessedOrLater
  BY ItemStages DEF StepsTo
<1>2. "REGISTERED" \notin now => RollupReceived(sh, got) \in AfterReceipt
  BY DEF RollupReceived, Advance, Stages, AfterReceipt, AfterProcessing, AfterConsolidation,
     AfterDeparture, AfterArrival
<1> QED
  BY <1>1, <1>2, ItemStages DEF Abreast

\* An item was processed or put on hold.
LEMMA AbreastProcessing ==
  ASSUME NEW sh \in Stages, NEW its, NEW now, Abreast(sh, its),
         NEW to \in {"PROCESSED", "EXCEPTION"},
         StepsTo(its, now, {"RECEIVED_ORIGIN_WAREHOUSE", "PROCESSED", "EXCEPTION"}, to)
  PROVE  Abreast(RollupProcessing(sh, now), now)
<1> DEFINE next == RollupProcessing(sh, now)
<1>1. ~ now \subseteq CommittedOrLater
  BY ItemStages DEF StepsTo
<1>2. ASSUME "REGISTERED" \notin now PROVE sh \in AfterReceipt
  BY <1>2 DEF StepsTo, Abreast
<1>3. "REGISTERED" \notin now => next \in AfterReceipt
  BY <1>2 DEF RollupProcessing, SettleProcessing, StartProcessing, Advance, AfterReceipt,
     AfterProcessing
<1>4. ASSUME now \subseteq ProcessedOrLater PROVE next \in AfterProcessing
  <2>1. sh \in AfterReceipt /\ to \in now
    BY <1>2, <1>4, ItemStages DEF StepsTo
  <2>2. StartProcessing(sh, now) \in AfterProcessing \cup {"PROCESSING"}
    BY <1>4, <2>1 DEF StartProcessing, AfterReceipt
  <2> QED
    BY <1>4, <2>1, <2>2 DEF RollupProcessing, SettleProcessing, Advance, AfterProcessing
<1> QED
  BY <1>1, <1>3, <1>4, ItemStages DEF Abreast

\* An item was loaded, taken out, sealed in or locked in, by either service.
LEMMA AbreastConsolidation ==
  ASSUME NEW sh \in Stages, NEW its, NEW now, Abreast(sh, its),
         NEW from \in {"PROCESSED", "ASSIGNED_TO_CONTAINER", "ASSIGNED_TO_MANIFEST"},
         NEW to \in {"PROCESSED", "ASSIGNED_TO_CONTAINER", "ASSIGNED_TO_MANIFEST", "LOADED"},
         StepsTo(its, now, {from}, to)
  PROVE  /\ to # "ASSIGNED_TO_MANIFEST" => Abreast(RollupByContainers(sh, now), now)
         /\ Abreast(RollupByManifests(sh, now), now)
<1>1. ~ now \subseteq DepartedOrLater
  BY ItemStages DEF StepsTo
<1>2. "REGISTERED" \notin now => sh \in AfterReceipt
  BY DEF StepsTo, Abreast
<1>3. now \subseteq ProcessedOrLater => sh \in AfterProcessing
  <2>1. from \in ProcessedOrLater
    BY ItemStages
  <2> QED
    BY <2>1 DEF StepsTo, Abreast
<1>4. now \subseteq CommittedOrLater => to # "PROCESSED"
  BY ItemStages DEF StepsTo
<1>5. ASSUME to # "PROCESSED"
      PROVE  /\ now \cap CommittedOrLater # {}
             /\ to # "ASSIGNED_TO_MANIFEST" => now \cap ContainerCommitted # {}
  BY <1>5, ItemStages DEF StepsTo, ContainerCommitted
<1>6. ASSUME NEW committed, NEW loaded, NEW mid,
             mid = Commit(sh, now, committed),
             to # "PROCESSED" => now \cap committed # {}
      PROVE  Abreast(Advance(mid, now, {"CONSOLIDATED"}, loaded, "LOADED"), now)
  <2> DEFINE next == Advance(mid, now, {"CONSOLIDATED"}, loaded, "LOADED")
  <2>1. next \in {sh, "READY_FOR_CONSOLIDATION", "CONSOLIDATED", "LOADED"}
    BY <1>6 DEF Commit, Advance
  <2>2. "REGISTERED" \notin now => next \in AfterReceipt
    BY <1>2, <2>1 DEF AfterReceipt, AfterProcessing, AfterConsolidation
  <2>3. now \subseteq ProcessedOrLater => next \in AfterProcessing
    BY <1>3, <2>1 DEF AfterProcessing, AfterConsolidation
  <2>4. ASSUME now \subseteq CommittedOrLater PROVE next \in AfterConsolidation
    <3>1. now \cap committed # {} /\ sh \in AfterProcessing
      BY <1>3, <1>4, <1>6, <2>4, ItemStages
    <3>2. mid \in AfterConsolidation
      BY <1>6, <3>1 DEF Commit, AfterProcessing, AfterConsolidation
    <3> QED
      BY <3>2 DEF Advance, AfterConsolidation
  <2> QED
    BY <1>1, <2>2, <2>3, <2>4, ItemStages DEF Abreast
<1> QED
  BY <1>5, <1>6 DEF RollupByContainers, SealByContainers, CommitByContainers,
     RollupByManifests, SealByManifests, CommitByManifests

\* Items left, and arrived.
LEMMA AbreastDeparture ==
  ASSUME NEW sh \in Stages, NEW its, NEW now, Abreast(sh, its),
         StepsTo(its, now, {"LOADED"}, "DEPARTED_ORIGIN")
  PROVE  Abreast(RollupDeparture(sh, now), now)
<1> DEFINE next == RollupDeparture(sh, now)
<1>1. ~ now \subseteq ArrivedOrLater
  BY ItemStages DEF StepsTo
<1>2. /\ "REGISTERED" \notin now => sh \in AfterReceipt
      /\ now \subseteq ProcessedOrLater => sh \in AfterProcessing
      /\ now \subseteq CommittedOrLater => sh \in AfterConsolidation
  BY ItemStages DEF StepsTo, Abreast
<1>3. next \in {sh, "DEPARTED"}
  BY DEF RollupDeparture, Advance
<1>4. now \subseteq DepartedOrLater => next \in AfterDeparture
  BY <1>2, ItemStages DEF RollupDeparture, Advance, StepsTo, AfterConsolidation, AfterDeparture
<1> QED
  BY <1>1, <1>2, <1>3, <1>4, ItemStages
     DEF Abreast, AfterReceipt, AfterProcessing, AfterConsolidation, AfterDeparture

LEMMA AbreastArrival ==
  ASSUME NEW sh \in Stages, NEW its, NEW now, Abreast(sh, its),
         StepsTo(its, now, {"DEPARTED_ORIGIN"}, "ARRIVED_DESTINATION")
  PROVE  Abreast(RollupArrival(sh, now), now)
<1> DEFINE next == RollupArrival(sh, now)
<1>1. ~ now \subseteq TerminalHandoff
  BY ItemStages DEF StepsTo
<1>2. /\ "REGISTERED" \notin now => sh \in AfterReceipt
      /\ now \subseteq ProcessedOrLater => sh \in AfterProcessing
      /\ now \subseteq CommittedOrLater => sh \in AfterConsolidation
      /\ now \subseteq DepartedOrLater => sh \in AfterDeparture
  BY ItemStages DEF StepsTo, Abreast
<1>3. next \in {sh, "ARRIVED_DESTINATION"}
  BY DEF RollupArrival, Advance
<1>4. now \subseteq ArrivedOrLater => next \in AfterArrival
  BY <1>2, ItemStages DEF RollupArrival, Advance, StepsTo, AfterDeparture, AfterArrival
<1> QED
  BY <1>1, <1>2, <1>3, <1>4, ItemStages
     DEF Abreast, AfterReceipt, AfterProcessing, AfterConsolidation, AfterDeparture, AfterArrival

\* At destination: next is what the shipment becomes, wherever it was.
LEMMA AbreastDestination ==
  ASSUME NEW sh \in Stages, NEW its, NEW now, NEW to, Abreast(sh, its),
         StepsTo(its, now, {"ARRIVED_DESTINATION", "RECEIVED_DESTINATION_WAREHOUSE",
                            "OUT_FOR_DELIVERY"}, to),
         NEW next \in {sh, "READY_FOR_PICKUP", "OUT_FOR_DELIVERY", "DELIVERED",
                   "COMPLETED"},
         to \in TerminalHandoff /\ now \subseteq TerminalHandoff /\ sh \in AfterArrival
           => next \in AtEnd
  PROVE  Abreast(next, now)
<1>1. /\ "REGISTERED" \notin now => sh \in AfterReceipt
      /\ now \subseteq ProcessedOrLater => sh \in AfterProcessing
      /\ now \subseteq CommittedOrLater => sh \in AfterConsolidation
      /\ now \subseteq DepartedOrLater => sh \in AfterDeparture
      /\ now \subseteq ArrivedOrLater => sh \in AfterArrival
  BY ItemStages DEF StepsTo, Abreast
<1>2. now \subseteq TerminalHandoff => next \in AtEnd
  BY <1>1, ItemStages DEF StepsTo
<1>3. next = sh \/ next \in AfterArrival
  BY DEF AfterArrival, AtEnd
<1> QED
  BY <1>1, <1>2, <1>3
     DEF Abreast, AfterReceipt, AfterProcessing, AfterConsolidation, AfterDeparture

\* The last hand-over completes the shipment, by pickup or by delivery.
LEMMA Completion ==
  ASSUME NEW sh \in Stages, NEW now, now \subseteq TerminalHandoff, now # {}, sh \in AfterArrival
  PROVE  RollupCompletion(sh, now) \in AtEnd /\ RollupDeliver(sh, now) \in AtEnd
<1>1. now \ {"CANCELLED"} = now
  BY DEF TerminalHandoff
<1> QED
  BY <1>1 DEF RollupCompletion, RollupDeliver, RollupDelivered, AdvanceIgnoringCancelled,
     Advance, AfterArrival, AtEnd

-----------------------------------------------------------------------------
\* The step takes the items in I, all at statuses in From, to status to.
ItemsMoved(I, From, to) ==
  /\ I \subseteq Items
  /\ \A i \in I : itemStatus[i] \in From
  /\ NotCreated \notin From /\ to # NotCreated
  /\ SetItems(I, to)

\* How the statuses of a shipment's items change in it.
LEMMA ItemsStep ==
  ASSUME TypeOK, NEW I, NEW From, NEW to, ItemsMoved(I, From, to), NEW s \in Shipments
  PROVE  /\ s \in ShipmentsOf(I) =>
              /\ StepsTo(StatusesIn(itemStatus, s), StatusesIn(itemStatus', s), From, to)
              /\ StatusesIn(itemStatus, s) # {}
         /\ s \notin ShipmentsOf(I) => StatusesIn(itemStatus', s) = StatusesIn(itemStatus, s)
<1> USE DEF ShipmentsOf, ItemsOf, ItemsMoved
<1>1. \A i \in Items : itemStatus'[i] = IF i \in I THEN to ELSE itemStatus[i]
  BY DEF SetItems
<1>2. ASSUME s \in ShipmentsOf(I)
      PROVE  /\ StepsTo(StatusesIn(itemStatus, s), StatusesIn(itemStatus', s), From, to)
             /\ StatusesIn(itemStatus, s) # {}
  <2>1. PICK i \in I : ShipmentOf[i] = s
    BY <1>2
  <2>2. to \in StatusesIn(itemStatus', s)
    BY <1>1, <2>1 DEF StatusesIn
  <2>3. itemStatus[i] \in StatusesIn(itemStatus, s)
    BY <2>1 DEF StatusesIn
  <2>4. ASSUME NEW x \in StatusesIn(itemStatus, s)
        PROVE  x \in StatusesIn(itemStatus', s) \cup From
    BY <1>1, <2>4 DEF StatusesIn
  <2> QED
    BY <2>2, <2>3, <2>4 DEF StepsTo
<1>3. ASSUME s \notin ShipmentsOf(I)
      PROVE  StatusesIn(itemStatus', s) = StatusesIn(itemStatus, s)
  <2>1. \A i \in ItemsOf(s) : itemStatus'[i] = itemStatus[i]
    BY <1>1, <1>3
  <2> QED
    BY <2>1 DEF StatusesIn
<1> QED
  BY <1>2, <1>3

\* What is left to show of a step that moves the items in I and rolls up their
\* shipments.
LEMMA AbreastAfter ==
  ASSUME TypeOK, ShipmentsAbreast,
         NEW I, NEW From, NEW to, ItemsMoved(I, From, to), NEW s \in Shipments,
         s \notin ShipmentsOf(I) => shipmentStatus'[s] = shipmentStatus[s],
         (/\ s \in ShipmentsOf(I)
          /\ Abreast(shipmentStatus[s], StatusesIn(itemStatus, s))
          /\ StepsTo(StatusesIn(itemStatus, s), StatusesIn(itemStatus', s), From, to))
            => Abreast(shipmentStatus'[s], StatusesIn(itemStatus', s))
  PROVE  StatusesIn(itemStatus', s) # {}
           => Abreast(shipmentStatus'[s], StatusesIn(itemStatus', s))
<1>1. CASE s \in ShipmentsOf(I)
  BY <1>1, ItemsStep DEF ShipmentsAbreast
<1>2. CASE s \notin ShipmentsOf(I)
  BY <1>2, ItemsStep DEF ShipmentsAbreast
<1> QED
  BY <1>1, <1>2

\* One item is a set of one.
LEMMA OneItem ==
  ASSUME TypeOK, NEW i \in Items, NEW to
  PROVE  /\ SetItem(i, to) => SetItems({i}, to)
         /\ {i} \in SUBSET Items
         /\ ShipmentsOf({i}) = {ShipmentOf[i]}
         /\ ShipmentOf[i] \in Shipments
BY ShipmentOfAssumption DEF TypeOK, SetItem, SetItems, ShipmentsOf


-----------------------------------------------------------------------------
\* Every step keeps every shipment abreast of its items.

LEMMA AbreastShipment ==
  ASSUME NoCorrections, Journey, ShipmentsAbreast, ShipmentStep, NEW s \in Shipments,
         StatusesIn(itemStatus', s) # {}
  PROVE  Abreast(shipmentStatus'[s], StatusesIn(itemStatus', s))
<1> USE DEF Journey, Transport, TypeOK
<1>1. ASSUME "REGISTERED" \in StatusesIn(itemStatus', s)
      PROVE  Abreast(shipmentStatus'[s], StatusesIn(itemStatus', s))
  BY <1>1, ItemStages DEF Abreast
<1>2. ASSUME NEW I \in SUBSET Items, SetItems(I, "REGISTERED"),
             \A i \in I : itemStatus[i] = NotCreated,
             s \in ShipmentsOf(I) \/ shipmentStatus'[s] = shipmentStatus[s]
      PROVE  Abreast(shipmentStatus'[s], StatusesIn(itemStatus', s))
  <2>1. CASE s \in ShipmentsOf(I)
    <3>1. PICK i \in I : ShipmentOf[i] = s
      BY <2>1 DEF ShipmentsOf
    <3>2. itemStatus'[i] = "REGISTERED" /\ i \in ItemsOf(s)
      BY <1>2, <3>1 DEF SetItems, ItemsOf
    <3> QED
      BY <1>1, <3>2 DEF StatusesIn, NotCreated
  <2>2. CASE s \notin ShipmentsOf(I)
    <3>1. \A i \in ItemsOf(s) : itemStatus'[i] = itemStatus[i]
      BY <1>2, <2>2 DEF SetItems, ShipmentsOf, ItemsOf
    <3>2. StatusesIn(itemStatus', s) = StatusesIn(itemStatus, s)
      BY <3>1 DEF StatusesIn, ItemsOf
    <3> QED
      BY <1>2, <2>2, <3>2 DEF ShipmentsAbreast
  <2> QED
    BY <2>1, <2>2
<1>3. ASSUME NEW t \in Shipments, NEW I \in SUBSET ItemsOf(t), CreateShipment(t, I)
      PROVE  Abreast(shipmentStatus'[s], StatusesIn(itemStatus', s))
  <2>1. I \in SUBSET Items /\ \A i \in I : itemStatus[i] = NotCreated
    BY <1>3 DEF CreateShipment, ItemsOf, WellPlaced, Created
  <2>2. CASE s = t
    <3>1. \A i \in ItemsOf(s) : itemStatus'[i] = IF i \in I THEN "REGISTERED" ELSE NotCreated
      BY <1>3, <2>1, <2>2 DEF CreateShipment, SetItems, ItemsOf, WellPlaced, Created
    <3>2. "REGISTERED" \in StatusesIn(itemStatus', s)
      BY <3>1 DEF StatusesIn, NotCreated
    <3> QED
      BY <1>1, <3>2
  <2>3. CASE s # t
    <3>1. shipmentStatus'[s] = shipmentStatus[s]
      BY <1>3, <2>3 DEF CreateShipment
    <3> QED
      BY <1>2, <1>3, <2>1, <3>1 DEF CreateShipment
  <2> QED
    BY <2>2, <2>3
<1>4. ASSUME NEW i \in Items, AddItem(i)
      PROVE  Abreast(shipmentStatus'[s], StatusesIn(itemStatus', s))
  <2>1. {i} \in SUBSET Items /\ \A j \in {i} : itemStatus[j] = NotCreated
    BY <1>4 DEF AddItem, Created
  <2>2. SetItems({i}, "REGISTERED")
    BY <1>4, OneItem DEF AddItem
  <2> QED
    BY <1>2, <1>4, <2>1, <2>2 DEF AddItem, shipmentVars
<1>5. ASSUME NEW t \in Shipments, NEW i \in Items \cup {None}, NEW e \in ManualEvents,
             ManualTrackingEvent(t, i, e)
      PROVE  Abreast(shipmentStatus'[s], StatusesIn(itemStatus', s))
  <2>1. itemStatus' = itemStatus
    BY <1>5 DEF ManualTrackingEvent, NoCorrections
  <2>2. shipmentStatus'[s] \in {shipmentStatus[s], "CANCELLED"}
    BY <1>5 DEF ManualTrackingEvent, NoCorrections
  <2>3. StatusesIn(itemStatus', s) = StatusesIn(itemStatus, s)
    BY <2>1
  <2> QED
    BY <2>2, <2>3 DEF ShipmentsAbreast, Abreast, AfterReceipt, AfterProcessing,
       AfterConsolidation, AfterDeparture, AfterArrival, AtEnd
<1> QED
  BY <1>3, <1>4, <1>5 DEF ShipmentStep

LEMMA AbreastWarehouse ==
  ASSUME Journey, ShipmentsAbreast, WarehouseStep, NEW s \in Shipments,
         StatusesIn(itemStatus', s) # {}
  PROVE  Abreast(shipmentStatus'[s], StatusesIn(itemStatus', s))
<1> USE DEF Eligible, CanProcess, AtDesk, WithDriver, NotCreated
<1>0. TypeOK /\ WellPlaced /\ Located /\ shipmentStatus[s] \in Stages
  BY DEF Journey, Transport, ItemsAgree, ShipmentsAbreast
<1>1. ASSUME NEW i \in Items, NEW w \in Warehouses, ReceiveItem(i, w)
      PROVE  Abreast(shipmentStatus'[s], StatusesIn(itemStatus', s))
  <2>1. /\ ItemsMoved({i}, {"REGISTERED"}, "RECEIVED_ORIGIN_WAREHOUSE")
        /\ s \notin ShipmentsOf({i}) => shipmentStatus'[s] = shipmentStatus[s]
        /\ s \in ShipmentsOf({i}) =>
             /\ s = ShipmentOf[i] /\ shipmentStatus[s] # NotCreated
             /\ shipmentStatus'[s] = RollupReceived(shipmentStatus[s], ReceivedIn(received', s))
    BY <1>0, <1>1, OneItem DEF TypeOK, ItemsMoved, ReceiveItem, WellPlaced, Created
  <2>2. ASSUME s = ShipmentOf[i], "REGISTERED" \notin StatusesIn(itemStatus', s)
        PROVE  ReceivedIn(received', s) = {TRUE}
    <3>1. \A j \in ItemsOf(s) : Created(j) => received'[j] = TRUE
      BY <1>0, <1>1, <2>1, <2>2
         DEF ReceiveItem, ItemsOf, Created, StatusesIn, Located, ItemsMoved, SetItems, TypeOK
    <3>2. i \in ItemsOf(s) /\ Created(i)
      BY <1>1, <2>2 DEF ReceiveItem, ItemsOf, Created
    <3> QED
      BY <3>1, <3>2 DEF ReceivedIn
  <2>3. ASSUME s \in ShipmentsOf({i}), Abreast(shipmentStatus[s], StatusesIn(itemStatus, s)),
               StepsTo(StatusesIn(itemStatus, s), StatusesIn(itemStatus', s), {"REGISTERED"},
                       "RECEIVED_ORIGIN_WAREHOUSE")
        PROVE  Abreast(shipmentStatus'[s], StatusesIn(itemStatus', s))
    BY <1>0, <2>1, <2>2, <2>3, AbreastReceived
  <2> QED
    BY <1>0, <2>1, <2>3, AbreastAfter
<1>2. ASSUME NEW i \in Items, NEW w \in Warehouses, NEW ready \in BOOLEAN,
             ProcessItem(i, w, ready)
      PROVE  Abreast(shipmentStatus'[s], StatusesIn(itemStatus', s))
  <2> DEFINE to == IF ready THEN "PROCESSED" ELSE "EXCEPTION"
             from == {"RECEIVED_ORIGIN_WAREHOUSE", "PROCESSED", "EXCEPTION"}
  <2>1. /\ ItemsMoved({i}, from, to)
        /\ s \notin ShipmentsOf({i}) => shipmentStatus'[s] = shipmentStatus[s]
        /\ s \in ShipmentsOf({i}) =>
             shipmentStatus'[s] = RollupProcessing(shipmentStatus[s], StatusesIn(itemStatus', s))
    BY <1>0, <1>2, OneItem DEF TypeOK, ItemsMoved, ProcessItem, Processable, Rollup
  <2>2. ASSUME s \in ShipmentsOf({i}), Abreast(shipmentStatus[s], StatusesIn(itemStatus, s)),
               StepsTo(StatusesIn(itemStatus, s), StatusesIn(itemStatus', s), from, to)
        PROVE  Abreast(shipmentStatus'[s], StatusesIn(itemStatus', s))
    BY <1>0, <2>1, <2>2, AbreastProcessing
  <2> QED
    BY <1>0, <2>1, <2>2, AbreastAfter
<1> DEFINE atDestination ==
             {"ARRIVED_DESTINATION", "RECEIVED_DESTINATION_WAREHOUSE", "OUT_FOR_DELIVERY"}
           now == StatusesIn(itemStatus', s)
<1>3. ASSUME NEW i \in Items, NEW to, ItemsMoved({i}, atDestination, to),
             s # ShipmentOf[i] => shipmentStatus'[s] = shipmentStatus[s],
             s = ShipmentOf[i] =>
               \/ shipmentStatus'[s] = shipmentStatus[s] /\ to \notin TerminalHandoff
               \/ /\ shipmentStatus'[s] = RollupReadyForPickup(shipmentStatus[s], now)
                  /\ to \notin TerminalHandoff
               \/ /\ shipmentStatus'[s] = RollupOutForDelivery(shipmentStatus[s], now)
                  /\ to \notin TerminalHandoff
               \/ shipmentStatus'[s] = RollupCompletion(shipmentStatus[s], now)
               \/ shipmentStatus'[s] = RollupDeliver(shipmentStatus[s], now)
      PROVE  Abreast(shipmentStatus'[s], now)
  <2>1. ASSUME s = ShipmentOf[i], Abreast(shipmentStatus[s], StatusesIn(itemStatus, s)),
               StepsTo(StatusesIn(itemStatus, s), now, atDestination, to)
        PROVE  Abreast(shipmentStatus'[s], now)
    <3>1. shipmentStatus'[s] \in {shipmentStatus[s], "READY_FOR_PICKUP", "OUT_FOR_DELIVERY",
                                  "DELIVERED", "COMPLETED"}
      BY <1>3, <2>1 DEF RollupReadyForPickup, RollupOutForDelivery, RollupCompletion,
         RollupDeliver, RollupDelivered, AdvanceIgnoringCancelled, Advance
    <3>2. ASSUME to \in TerminalHandoff, now \subseteq TerminalHandoff,
                 shipmentStatus[s] \in AfterArrival
          PROVE  shipmentStatus'[s] \in AtEnd
      BY <1>0, <1>3, <2>1, <3>2, Completion DEF StepsTo
    <3> QED
      BY <1>0, <2>1, <3>1, <3>2, AbreastDestination
  <2> QED
    BY <1>0, <1>3, <2>1, AbreastAfter, OneItem
<1>4. ASSUME NEW i \in Items, NEW w \in Warehouses, NEW good \in BOOLEAN,
             \/ DestinationReceiveItem(i, w, good)
             \/ ReturnItem(i, w, good)
      PROVE  Abreast(shipmentStatus'[s], now)
  <2> DEFINE to == itemStatus'[i]
  <2>1. ItemsMoved({i}, atDestination, to) /\ to \notin TerminalHandoff
    <3>1. /\ itemStatus[i] \in atDestination
          /\ SetItem(i, to) /\ to \in {"RECEIVED_DESTINATION_WAREHOUSE", "EXCEPTION"}
      BY <1>0, <1>4 DEF TypeOK, DestinationReceiveItem, ReturnItem, SetItem
    <3> QED
      BY <1>0, <3>1, OneItem DEF ItemsMoved, TerminalHandoff
  <2>2. /\ s # ShipmentOf[i] => shipmentStatus'[s] = shipmentStatus[s]
        /\ s = ShipmentOf[i] =>
             \/ shipmentStatus'[s] = shipmentStatus[s]
             \/ shipmentStatus'[s] = RollupReadyForPickup(shipmentStatus[s], now)
    BY <1>4 DEF DestinationReceiveItem, ReturnItem, Rollup, shipmentVars
  <2> QED
    BY <1>3, <2>1, <2>2
<1>5. ASSUME NEW i \in Items,
             DeliverItem(i) \/ \E w \in Warehouses : PickupItem(i, w) \/ DispatchItem(i, w)
      PROVE  Abreast(shipmentStatus'[s], now)
  <2> DEFINE to == itemStatus'[i]
  <2>1. ItemsMoved({i}, atDestination, to)
    <3>1. /\ itemStatus[i] \in atDestination
          /\ SetItem(i, to) /\ to \in {"PICKED_UP", "OUT_FOR_DELIVERY", "DELIVERED"}
      BY <1>0, <1>5 DEF TypeOK, PickupItem, DispatchItem, DeliverItem, SetItem
    <3> QED
      BY <1>0, <3>1, OneItem DEF ItemsMoved
  <2>2. /\ s # ShipmentOf[i] => shipmentStatus'[s] = shipmentStatus[s]
        /\ s = ShipmentOf[i] =>
             \/ /\ shipmentStatus'[s] = RollupOutForDelivery(shipmentStatus[s], now)
                /\ to \notin TerminalHandoff
             \/ shipmentStatus'[s] = RollupCompletion(shipmentStatus[s], now)
             \/ shipmentStatus'[s] = RollupDeliver(shipmentStatus[s], now)
    BY <1>0, <1>5
       DEF TypeOK, PickupItem, DispatchItem, DeliverItem, Rollup, SetItem, TerminalHandoff
  <2> QED
    BY <1>3, <2>1, <2>2
<1> QED
  BY <1>1, <1>2, <1>4, <1>5 DEF WarehouseStep


LEMMA AbreastContainer ==
  ASSUME Journey, ShipmentsAbreast, ContainerStep, NEW s \in Shipments,
         StatusesIn(itemStatus', s) # {}
  PROVE  Abreast(shipmentStatus'[s], StatusesIn(itemStatus', s))
<1> USE DEF NotCreated
<1> DEFINE now == StatusesIn(itemStatus', s)
<1>0. TypeOK /\ shipmentStatus[s] \in Stages
  BY DEF Journey, Transport, ShipmentsAbreast
<1>1. ASSUME NEW I, NEW from \in {"PROCESSED", "ASSIGNED_TO_CONTAINER"},
             NEW to \in {"PROCESSED", "ASSIGNED_TO_CONTAINER", "LOADED"},
             ItemsMoved(I, {from}, to), Rollup(ShipmentsOf(I), RollupByContainers)
      PROVE  Abreast(shipmentStatus'[s], now)
  <2>1. /\ s \notin ShipmentsOf(I) => shipmentStatus'[s] = shipmentStatus[s]
        /\ s \in ShipmentsOf(I) =>
             shipmentStatus'[s] = RollupByContainers(shipmentStatus[s], now)
    BY <1>1 DEF Rollup
  <2>2. ASSUME s \in ShipmentsOf(I), Abreast(shipmentStatus[s], StatusesIn(itemStatus, s)),
               StepsTo(StatusesIn(itemStatus, s), now, {from}, to)
        PROVE  Abreast(shipmentStatus'[s], now)
    BY <1>0, <1>1, <2>1, <2>2, AbreastConsolidation
  <2> QED
    BY <1>0, <1>1, <2>1, <2>2, AbreastAfter
<1>2. ASSUME NEW c \in Containers, NEW i \in Items, LoadItem(c, i)
      PROVE  Abreast(shipmentStatus'[s], now)
  <2>1. ItemsMoved({i}, {"PROCESSED"}, "ASSIGNED_TO_CONTAINER")
    BY <1>0, <1>2, OneItem DEF ItemsMoved, LoadItem, CanLoad, Eligible
  <2> QED
    BY <1>0, <1>1, <1>2, <2>1, OneItem DEF LoadItem
<1>3. ASSUME NEW c \in Containers, NEW i \in Items, UnloadItem(c, i)
      PROVE  Abreast(shipmentStatus'[s], now)
  <2>1. itemStatus[i] = "ASSIGNED_TO_CONTAINER"
    BY <1>0, <1>3, OpenContainer DEF TypeOK, UnloadItem, CanUnload, ContainerItemStatus
  <2>2. ItemsMoved({i}, {"ASSIGNED_TO_CONTAINER"}, "PROCESSED")
    BY <1>0, <1>3, <2>1, OneItem DEF ItemsMoved, UnloadItem
  <2> QED
    BY <1>0, <1>1, <1>3, <2>2, OneItem DEF UnloadItem
<1>4. ASSUME NEW c \in Containers, FinalizeContainer(c)
      PROVE  Abreast(shipmentStatus'[s], now)
  <2>1. \A i \in Aboard(c) : i \in Items /\ itemStatus[i] = "ASSIGNED_TO_CONTAINER"
    BY <1>4, OpenContainer DEF FinalizeContainer, CanSeal, Aboard, ContainerItemStatus
  <2>2. ItemsMoved(Aboard(c), {"ASSIGNED_TO_CONTAINER"}, "LOADED")
    BY <1>4, <2>1 DEF ItemsMoved, FinalizeContainer
  <2> QED
    BY <1>1, <1>4, <2>2 DEF FinalizeContainer
<1>5. ASSUME UNCHANGED <<shipmentStatus, itemStatus>> PROVE Abreast(shipmentStatus'[s], now)
  BY <1>5 DEF ShipmentsAbreast
<1> QED
  BY <1>2, <1>3, <1>4, <1>5 DEF ContainerStep, CreateContainer, OpenForUnloading,
     CloseUnloading, itemVars, shipmentVars

LEMMA AbreastManifest ==
  ASSUME Journey, ShipmentsAbreast, ManifestStep, NEW s \in Shipments,
         StatusesIn(itemStatus', s) # {}
  PROVE  Abreast(shipmentStatus'[s], StatusesIn(itemStatus', s))
<1> USE DEF NotCreated
<1> DEFINE now == StatusesIn(itemStatus', s)
<1>0. TypeOK /\ shipmentStatus[s] \in Stages
  BY DEF Journey, Transport, ShipmentsAbreast
<1>1. ASSUME NEW I, NEW from \in {"PROCESSED", "ASSIGNED_TO_MANIFEST"},
             NEW to \in {"PROCESSED", "ASSIGNED_TO_MANIFEST", "LOADED"},
             ItemsMoved(I, {from}, to), Rollup(ShipmentsOf(I), RollupByManifests)
      PROVE  Abreast(shipmentStatus'[s], now)
  <2>1. /\ s \notin ShipmentsOf(I) => shipmentStatus'[s] = shipmentStatus[s]
        /\ s \in ShipmentsOf(I) =>
             shipmentStatus'[s] = RollupByManifests(shipmentStatus[s], now)
    BY <1>1 DEF Rollup
  <2>2. ASSUME s \in ShipmentsOf(I), Abreast(shipmentStatus[s], StatusesIn(itemStatus, s)),
               StepsTo(StatusesIn(itemStatus, s), now, {from}, to)
        PROVE  Abreast(shipmentStatus'[s], now)
    BY <1>0, <1>1, <2>1, <2>2, AbreastConsolidation
  <2> QED
    BY <1>0, <1>1, <2>1, <2>2, AbreastAfter
<1>2. ASSUME NEW m \in Manifests, NEW i \in Items, AssignItem(m, i)
      PROVE  Abreast(shipmentStatus'[s], now)
  <2>1. ItemsMoved({i}, {"PROCESSED"}, "ASSIGNED_TO_MANIFEST")
    BY <1>0, <1>2, OneItem DEF ItemsMoved, AssignItem, CanAssignItem, Eligible
  <2> QED
    BY <1>0, <1>1, <1>2, <2>1, OneItem DEF AssignItem
<1>3. ASSUME NEW m \in Manifests, NEW i \in Items, UnassignItem(m, i)
      PROVE  Abreast(shipmentStatus'[s], now)
  <2>1. itemStatus[i] = "ASSIGNED_TO_MANIFEST"
    BY <1>3, OpenManifest DEF UnassignItem, CanUnassignItem, ManifestItemStatus
  <2>2. ItemsMoved({i}, {"ASSIGNED_TO_MANIFEST"}, "PROCESSED")
    BY <1>0, <1>3, <2>1, OneItem DEF ItemsMoved, UnassignItem
  <2> QED
    BY <1>0, <1>1, <1>3, <2>2, OneItem DEF UnassignItem
<1>4. ASSUME UNCHANGED <<shipmentStatus, itemStatus>> PROVE Abreast(shipmentStatus'[s], now)
  BY <1>4 DEF ShipmentsAbreast
<1>5. ASSUME NEW m \in Manifests, FinalizeManifest(m)
      PROVE  Abreast(shipmentStatus'[s], now)
  <2>1. CASE ModeOf[m] = "AIR"
    <3>1. /\ CargoOf(m) = Listed(m)
          /\ \A i \in Listed(m) : i \in Items /\ itemStatus[i] = "ASSIGNED_TO_MANIFEST"
      BY <1>5, <2>1 DEF FinalizeManifest, CanFinalize, AllCargo, CargoOf, Listed
    <3>2. ItemsMoved(Listed(m), {"ASSIGNED_TO_MANIFEST"}, "LOADED")
      BY <1>5, <3>1 DEF ItemsMoved, FinalizeManifest
    <3> QED
      BY <1>1, <1>5, <2>1, <3>2 DEF FinalizeManifest
  <2>2. CASE ModeOf[m] # "AIR"
    <3>1. \A i \in Items : itemStatus'[i] = itemStatus[i]
      BY <1>5, <2>2 DEF FinalizeManifest, CanFinalize, AllCargo, SetItems
    <3>2. shipmentStatus'[s] = shipmentStatus[s]
      BY <1>5, <2>2 DEF FinalizeManifest, Rollup
    <3>3. now = StatusesIn(itemStatus, s)
      BY <3>1 DEF StatusesIn, ItemsOf
    <3> QED
      BY <3>2, <3>3 DEF ShipmentsAbreast
  <2> QED
    BY <2>1, <2>2
<1>6. ASSUME NEW m \in Manifests, Depart(m)
      PROVE  Abreast(shipmentStatus'[s], now)
  <2>1. ItemsMoved(CargoOf(m), {"LOADED"}, "DEPARTED_ORIGIN")
    BY <1>6 DEF ItemsMoved, Depart, CanDepart, AllCargo, CargoOf, Listed, Aboard
  <2>2. /\ s \notin ShipmentsOf(CargoOf(m)) => shipmentStatus'[s] = shipmentStatus[s]
        /\ s \in ShipmentsOf(CargoOf(m)) =>
             shipmentStatus'[s] = RollupDeparture(shipmentStatus[s], now)
    BY <1>6 DEF Depart, Rollup
  <2>3. ASSUME s \in ShipmentsOf(CargoOf(m)),
               Abreast(shipmentStatus[s], StatusesIn(itemStatus, s)),
               StepsTo(StatusesIn(itemStatus, s), now, {"LOADED"}, "DEPARTED_ORIGIN")
        PROVE  Abreast(shipmentStatus'[s], now)
    BY <1>0, <2>2, <2>3, AbreastDeparture
  <2> QED
    BY <1>0, <2>1, <2>2, <2>3, AbreastAfter
<1>7. ASSUME NEW m \in Manifests, Arrive(m)
      PROVE  Abreast(shipmentStatus'[s], now)
  <2>1. ItemsMoved(CargoOf(m), {"DEPARTED_ORIGIN"}, "ARRIVED_DESTINATION")
    <3>1. CASE ModeOf[m] = "AIR"
      BY <1>7, <3>1 DEF ItemsMoved, Arrive, CanArrive, AllCargo, CargoOf, Listed
    <3>2. CASE ModeOf[m] # "AIR"
      <4>1. ASSUME NEW i \in CargoOf(m) PROVE i \in Items /\ itemStatus[i] = "DEPARTED_ORIGIN"
        <5>1. PICK c \in Containers : i \in Aboard(c) /\ containerStatus[c] = "DEPARTED"
          BY <1>7, <3>2, <4>1 DEF Arrive, CanArrive, CargoOf, ContainersOn
        <5> QED
          BY <5>1, OpenContainer DEF Aboard, ContainerItemStatus
      <4> QED
        BY <1>7, <4>1 DEF ItemsMoved, Arrive
    <3> QED
      BY <3>1, <3>2
  <2>2. /\ s \notin ShipmentsOf(CargoOf(m)) => shipmentStatus'[s] = shipmentStatus[s]
        /\ s \in ShipmentsOf(CargoOf(m)) =>
             shipmentStatus'[s] = RollupArrival(shipmentStatus[s], now)
    BY <1>7 DEF Arrive, Rollup
  <2>3. ASSUME s \in ShipmentsOf(CargoOf(m)),
               Abreast(shipmentStatus[s], StatusesIn(itemStatus, s)),
               StepsTo(StatusesIn(itemStatus, s), now, {"DEPARTED_ORIGIN"}, "ARRIVED_DESTINATION")
        PROVE  Abreast(shipmentStatus'[s], now)
    BY <1>0, <2>2, <2>3, AbreastArrival
  <2> QED
    BY <1>0, <2>1, <2>2, <2>3, AbreastAfter
<1> QED
  BY <1>2, <1>3, <1>4, <1>5, <1>6, <1>7 DEF ManifestStep, CreateManifest, AssignContainer,
     UnassignContainer, itemVars, shipmentVars

-----------------------------------------------------------------------------
LEMMA AbreastInit == Init => ShipmentsAbreast
BY DEF Init, ShipmentsAbreast, StatusesIn, ItemsOf, Stages

LEMMA AbreastStep ==
  ASSUME NoCorrections, Journey, ShipmentsAbreast, [Next]_vars
  PROVE  ShipmentsAbreast'
<1>1. CASE Next
  <2> SUFFICES ASSUME NEW s \in Shipments
               PROVE  /\ shipmentStatus'[s] \in Stages
                      /\ StatusesIn(itemStatus', s) # {}
                           => Abreast(shipmentStatus'[s], StatusesIn(itemStatus', s))
    BY DEF ShipmentsAbreast
  <2>1. shipmentStatus'[s] \in Stages
    BY <1>1, EveryStepMoves, MovesForward DEF Journey, Transport, ShipmentsAbreast
  <2>2. ASSUME StatusesIn(itemStatus', s) # {}
        PROVE  Abreast(shipmentStatus'[s], StatusesIn(itemStatus', s))
    BY <1>1, <2>2, AbreastShipment, AbreastWarehouse, AbreastContainer, AbreastManifest DEF Next
  <2> QED
    BY <2>1, <2>2
<1>2. CASE UNCHANGED vars
  BY <1>2 DEF vars, shipmentVars, itemVars, ShipmentsAbreast
<1> QED
  BY <1>1, <1>2

\* No shipment ever falls behind its items: whatever the order in which they are
\* received, processed, split over transports, held and returned, a shipment has
\* reached each stage that all of its items have.
THEOREM AbreastInvariant ==
  ASSUME NoCorrections
  PROVE  Spec => []ShipmentsAbreast
<1>1. Init => Journey /\ ShipmentsAbreast
  BY JourneyInit, AbreastInit
<1>2. Journey /\ ShipmentsAbreast /\ [Next]_vars => (Journey /\ ShipmentsAbreast)'
  BY JourneyStep, AbreastStep
<1> QED
  BY <1>1, <1>2, PTL DEF Spec

\* So a shipment whose items were all handed over is COMPLETED or cancelled.
THEOREM CompletedInTheEnd ==
  ASSUME NoCorrections
  PROVE  Spec => []CompletedWithItsItems
<1>1. ShipmentsAbreast => CompletedWithItsItems
  BY DEF ShipmentsAbreast, CompletedWithItsItems, Abreast, AtEnd
<1> QED
  BY <1>1, AbreastInvariant, PTL

\* Which rollup takes a shipment back to PROCESSING, and what it read.
LEMMA RollupHolds ==
  ASSUME TypeOK, NEW S, NEW s \in Shipments,
         shipmentStatus[s] = "READY_FOR_CONSOLIDATION", shipmentStatus'[s] = "PROCESSING"
  PROVE  /\ Rollup(S, RollupProcessing) =>
              ~ StatusesIn(itemStatus', s) \subseteq ProcessedOrLater
         /\ ~ Rollup(S, RollupByContainers) /\ ~ Rollup(S, RollupByManifests)
         /\ ~ Rollup(S, RollupDeparture) /\ ~ Rollup(S, RollupArrival)
         /\ ~ Rollup(S, RollupReadyForPickup) /\ ~ Rollup(S, RollupOutForDelivery)
         /\ ~ Rollup(S, RollupCompletion) /\ ~ Rollup(S, RollupDeliver)
<1> USE DEF TypeOK, Rollup, Advance, AdvanceIgnoringCancelled
<1>1. Rollup(S, RollupProcessing) => ~ StatusesIn(itemStatus', s) \subseteq ProcessedOrLater
  BY DEF RollupProcessing, SettleProcessing, StartProcessing
<1>2. ~ Rollup(S, RollupByContainers) /\ ~ Rollup(S, RollupByManifests)
  BY DEF RollupByContainers, SealByContainers, CommitByContainers, RollupByManifests,
         SealByManifests, CommitByManifests, Commit
<1>3. ~ Rollup(S, RollupDeparture) /\ ~ Rollup(S, RollupArrival)
  BY DEF RollupDeparture, RollupArrival
<1>4. ~ Rollup(S, RollupReadyForPickup) /\ ~ Rollup(S, RollupOutForDelivery)
  BY DEF RollupReadyForPickup, RollupOutForDelivery
<1>5. ~ Rollup(S, RollupCompletion) /\ ~ Rollup(S, RollupDeliver)
  BY DEF RollupDeliver, RollupCompletion, RollupDelivered
<1> QED
  BY <1>1, <1>2, <1>3, <1>4, <1>5

LEMMA HeldBack ==
  ASSUME NoCorrections, TypeOK, Next, NEW s \in Shipments,
         shipmentStatus[s] = "READY_FOR_CONSOLIDATION", shipmentStatus'[s] = "PROCESSING"
  PROVE  BackToProcessing(s)
<1>1. SUFFICES ~ StatusesIn(itemStatus', s) \subseteq ProcessedOrLater
  BY DEF BackToProcessing, StatusesIn, ItemsOf
<1>2. ~ ShipmentStep
  BY DEF ShipmentStep, CreateShipment, AddItem, ManualTrackingEvent, NoCorrections, TypeOK,
         shipmentVars, NotCreated
<1>3. CASE WarehouseStep
  <2>1. ASSUME NEW i \in Items, NEW w \in Warehouses, ReceiveItem(i, w) PROVE FALSE
    BY <2>1 DEF ReceiveItem, RollupReceived, Advance, TypeOK
  <2> QED
    BY <1>3, <2>1, RollupHolds
       DEF WarehouseStep, ProcessItem, DestinationReceiveItem, PickupItem, DispatchItem,
           DeliverItem, ReturnItem, shipmentVars
<1>4. ~ ContainerStep
  BY RollupHolds DEF ContainerStep, CreateContainer, LoadItem, UnloadItem, FinalizeContainer,
     OpenForUnloading, CloseUnloading, shipmentVars
<1>5. ~ ManifestStep
  BY RollupHolds DEF ManifestStep, CreateManifest, FinalizeManifest, Depart, Arrive,
     AssignContainer, UnassignContainer, AssignItem, UnassignItem, shipmentVars
<1> QED
  BY <1>2, <1>3, <1>4, <1>5 DEF Next

\* Which rollup takes a shipment back to READY_FOR_CONSOLIDATION, and what it read.
LEMMA RollupReleases ==
  ASSUME TypeOK, NEW S, NEW s \in Shipments,
         shipmentStatus[s] = "CONSOLIDATED", shipmentStatus'[s] = "READY_FOR_CONSOLIDATION"
  PROVE  /\ Rollup(S, RollupByContainers) \/ Rollup(S, RollupByManifests) =>
              s \in S /\ StatusesIn(itemStatus', s) \cap ContainerCommitted = {}
         /\ Rollup(S, RollupByManifests) =>
              StatusesIn(itemStatus', s) \cap CommittedOrLater = {}
         /\ ~ Rollup(S, RollupProcessing)
         /\ ~ Rollup(S, RollupDeparture) /\ ~ Rollup(S, RollupArrival)
         /\ ~ Rollup(S, RollupReadyForPickup) /\ ~ Rollup(S, RollupOutForDelivery)
         /\ ~ Rollup(S, RollupCompletion) /\ ~ Rollup(S, RollupDeliver)
<1> USE DEF TypeOK, Rollup, Advance, AdvanceIgnoringCancelled
<1>1. Rollup(S, RollupByContainers) =>
        s \in S /\ StatusesIn(itemStatus', s) \cap ContainerCommitted = {}
  BY DEF RollupByContainers, SealByContainers, CommitByContainers, Commit
<1>2. Rollup(S, RollupByManifests) =>
        s \in S /\ StatusesIn(itemStatus', s) \cap CommittedOrLater = {}
  BY DEF RollupByManifests, SealByManifests, CommitByManifests, Commit
<1>3. ContainerCommitted \subseteq CommittedOrLater
  BY DEF ContainerCommitted, CommittedOrLater, LoadedOrLater
<1>4. ~ Rollup(S, RollupProcessing)
  BY DEF RollupProcessing, SettleProcessing, StartProcessing
<1>5. ~ Rollup(S, RollupDeparture) /\ ~ Rollup(S, RollupArrival)
  BY DEF RollupDeparture, RollupArrival
<1>6. ~ Rollup(S, RollupReadyForPickup) /\ ~ Rollup(S, RollupOutForDelivery)
  BY DEF RollupReadyForPickup, RollupOutForDelivery
<1>7. ~ Rollup(S, RollupCompletion) /\ ~ Rollup(S, RollupDeliver)
  BY DEF RollupDeliver, RollupCompletion, RollupDelivered
<1> QED
  BY <1>1, <1>2, <1>3, <1>4, <1>5, <1>6, <1>7

\* It is the taking off of an item that does, never the putting on or sealing.
LEMMA TakenOff ==
  ASSUME NoCorrections, Journey, Next, NEW s \in Shipments,
         shipmentStatus[s] = "CONSOLIDATED", shipmentStatus'[s] = "READY_FOR_CONSOLIDATION"
  PROVE  /\ StatusesIn(itemStatus', s) \cap ContainerCommitted = {}
         /\ \E i \in ItemsOf(s) :
              /\ itemStatus[i] \in {"ASSIGNED_TO_CONTAINER", "ASSIGNED_TO_MANIFEST"}
              /\ itemStatus'[i] = "PROCESSED"
<1> DEFINE Off(i) == /\ itemStatus[i] \in {"ASSIGNED_TO_CONTAINER", "ASSIGNED_TO_MANIFEST"}
                     /\ itemStatus'[i] = "PROCESSED"
<1>0. TypeOK
  BY DEF Journey, Transport
<1>1. ~ ShipmentStep
  BY <1>0 DEF ShipmentStep, CreateShipment, AddItem, ManualTrackingEvent, NoCorrections, TypeOK,
         shipmentVars, NotCreated
<1>2. ~ WarehouseStep
  <2>1. ASSUME NEW i \in Items, NEW w \in Warehouses, ReceiveItem(i, w) PROVE FALSE
    BY <1>0, <2>1 DEF ReceiveItem, RollupReceived, Advance, TypeOK
  <2> QED
    BY <1>0, <2>1, RollupReleases
       DEF WarehouseStep, ProcessItem, DestinationReceiveItem, PickupItem, DispatchItem,
           DeliverItem, ReturnItem, shipmentVars
<1>3. ASSUME NEW i \in Items, ShipmentOf[i] = s,
             itemStatus'[i] \in ContainerCommitted
      PROVE  StatusesIn(itemStatus', s) \cap ContainerCommitted # {}
  BY <1>3 DEF StatusesIn, ItemsOf, ContainerCommitted, NotCreated
<1>4. CASE ContainerStep
  <2>1. ASSUME NEW c \in Containers, NEW i \in Items, LoadItem(c, i) PROVE FALSE
    <3>1. itemStatus'[i] = "ASSIGNED_TO_CONTAINER"
      BY <1>0, <2>1 DEF LoadItem, SetItem, TypeOK
    <3>2. s = ShipmentOf[i] /\ StatusesIn(itemStatus', s) \cap ContainerCommitted = {}
      BY <1>0, <2>1, RollupReleases DEF LoadItem
    <3> QED
      BY <1>3, <3>1, <3>2 DEF ContainerCommitted
  <2>2. ASSUME NEW c \in Containers, FinalizeContainer(c) PROVE FALSE
    <3>1. \A i \in Aboard(c) : i \in Items /\ itemStatus'[i] = "LOADED"
      BY <1>0, <2>2 DEF FinalizeContainer, SetItems, TypeOK, Aboard
    <3>2. /\ s \in ShipmentsOf(Aboard(c))
          /\ StatusesIn(itemStatus', s) \cap ContainerCommitted = {}
      BY <1>0, <2>2, RollupReleases DEF FinalizeContainer
    <3> QED
      BY <1>3, <3>1, <3>2 DEF ContainerCommitted, ShipmentsOf
  <2>3. ASSUME NEW c \in Containers, NEW i \in Items, UnloadItem(c, i)
        PROVE  /\ StatusesIn(itemStatus', s) \cap ContainerCommitted = {}
               /\ \E j \in ItemsOf(s) : Off(j)
    <3>1. s = ShipmentOf[i] /\ StatusesIn(itemStatus', s) \cap ContainerCommitted = {}
      BY <1>0, <2>3, RollupReleases DEF UnloadItem
    <3>2. itemStatus[i] = "ASSIGNED_TO_CONTAINER"
      BY <1>0, <2>3, OpenContainer DEF UnloadItem, CanUnload, ContainerItemStatus, TypeOK
    <3>3. itemStatus'[i] = "PROCESSED"
      BY <1>0, <2>3 DEF UnloadItem, SetItem, TypeOK
    <3> QED
      BY <3>1, <3>2, <3>3 DEF ItemsOf
  <2> QED
    BY <1>4, <2>1, <2>2, <2>3 DEF ContainerStep, CreateContainer, OpenForUnloading,
       CloseUnloading, shipmentVars
<1>5. CASE ManifestStep
  <2>1. ASSUME NEW m \in Manifests, NEW i \in Items, AssignItem(m, i) PROVE FALSE
    <3>1. itemStatus'[i] = "ASSIGNED_TO_MANIFEST"
      BY <1>0, <2>1 DEF AssignItem, SetItem, TypeOK
    <3>2. s = ShipmentOf[i] /\ StatusesIn(itemStatus', s) \cap CommittedOrLater = {}
      BY <1>0, <2>1, RollupReleases DEF AssignItem
    <3> QED
      BY <3>1, <3>2 DEF StatusesIn, ItemsOf, CommittedOrLater, NotCreated
  <2>2. ASSUME NEW m \in Manifests, FinalizeManifest(m) PROVE FALSE
    <3>1. s \in ShipmentsOf(Listed(m)) /\ ModeOf[m] = "AIR"
      BY <1>0, <2>2, RollupReleases DEF FinalizeManifest
    <3>2. \A i \in Listed(m) : i \in Items /\ itemStatus'[i] = "LOADED"
      BY <1>0, <2>2, <3>1 DEF FinalizeManifest, SetItems, TypeOK, Listed, CargoOf
    <3>3. StatusesIn(itemStatus', s) \cap ContainerCommitted = {}
      BY <1>0, <2>2, RollupReleases DEF FinalizeManifest
    <3> QED
      BY <1>3, <3>1, <3>2, <3>3 DEF ContainerCommitted, ShipmentsOf
  <2>3. ASSUME NEW m \in Manifests, NEW i \in Items, UnassignItem(m, i)
        PROVE  /\ StatusesIn(itemStatus', s) \cap ContainerCommitted = {}
               /\ \E j \in ItemsOf(s) : Off(j)
    <3>1. s = ShipmentOf[i] /\ StatusesIn(itemStatus', s) \cap ContainerCommitted = {}
      BY <1>0, <2>3, RollupReleases DEF UnassignItem
    <3>2. itemStatus[i] = "ASSIGNED_TO_MANIFEST"
      BY <1>0, <2>3, OpenManifest DEF UnassignItem, CanUnassignItem, ManifestItemStatus
    <3>3. itemStatus'[i] = "PROCESSED"
      BY <1>0, <2>3 DEF UnassignItem, SetItem, TypeOK
    <3> QED
      BY <3>1, <3>2, <3>3 DEF ItemsOf
  <2>4. ASSUME NEW m \in Manifests, Depart(m) \/ Arrive(m) PROVE FALSE
    BY <1>0, <2>4, RollupReleases DEF Depart, Arrive
  <2> QED
    BY <1>5, <2>1, <2>2, <2>3, <2>4 DEF ManifestStep, CreateManifest, AssignContainer,
       UnassignContainer, shipmentVars
<1> QED
  BY <1>1, <1>2, <1>4, <1>5 DEF Next

\* After a step, an item whose status is neither ASSIGNED_TO_CONTAINER nor LOADED
\* is in no container at origin, nor on a finalized manifest.
LEMMA NoneHeld ==
  ASSUME Journey', NEW i \in Items, itemStatus'[i] \notin ContainerCommitted
  PROVE  HeldAtOrigin(i)' = {}
<1>0. StatusMatchesTransport'
  BY DEF Journey, ItemsAgree
<1>1. ASSUME NEW c \in Containers, containerItems'[c][i] > 0,
             containerStatus'[c] \in {"LOADING", "LOADED"}
      PROVE  FALSE
  <2>1. c \in OpenRows(i)'
    BY <1>1 DEF OpenRows
  <2> QED
    BY <1>0, <1>1, <2>1 DEF StatusMatchesTransport, ContainerItemStatus, ContainerCommitted
<1>2. ASSUME NEW m \in Manifests, manifestItems'[m][i] > 0, manifestStatus'[m] = "FINALIZED"
      PROVE  FALSE
  <2>1. m \in OpenRows(i)'
    BY <1>2 DEF OpenRows
  <2> QED
    BY <1>0, <1>2, <2>1 DEF StatusMatchesTransport, ManifestItemStatus, ContainerCommitted
<1> QED
  BY <1>1, <1>2 DEF HeldAtOrigin

LEMMA ReleasedBack ==
  ASSUME NoCorrections, Journey, Journey', Next, NEW s \in Shipments,
         shipmentStatus[s] = "CONSOLIDATED", shipmentStatus'[s] = "READY_FOR_CONSOLIDATION"
  PROVE  BackToReady(s)
<1>1. ASSUME NEW i \in ItemsOf(s) PROVE HeldAtOrigin(i)' = {}
  <2>1. itemStatus'[i] \notin ContainerCommitted
    BY <1>1, TakenOff DEF StatusesIn, ContainerCommitted, NotCreated
  <2>2. i \in Items
    BY <1>1 DEF ItemsOf
  <2> QED
    BY <2>1, <2>2, NoneHeld
<1> QED
  BY <1>1, TakenOff DEF BackToReady

\* A shipment moves backwards in two cases only: out of READY_FOR_CONSOLIDATION
\* while an item of it is on hold or unprocessed, and out of CONSOLIDATED when an
\* item was taken off a transport and no container or finalized manifest at origin
\* holds another; in particular a cancelled one stays cancelled. The comment of
\* the consolidation rollup asks for more than the second case does.
THEOREM OnlyForward ==
  ASSUME NoCorrections
  PROVE  Spec => ShipmentOnlyForward
<1>1. Journey /\ ShipmentsAbreast /\ Journey' /\ [Next]_vars =>
        [\A s \in Shipments :
           \/ Rank[shipmentStatus[s]] <= Rank[shipmentStatus'[s]]
           \/ BackToProcessing(s)
           \/ BackToReady(s)]_vars
  <2> SUFFICES ASSUME Journey, ShipmentsAbreast, Journey', Next, NEW s \in Shipments
               PROVE  \/ Rank[shipmentStatus[s]] <= Rank[shipmentStatus'[s]]
                      \/ BackToProcessing(s)
                      \/ BackToReady(s)
    OBVIOUS
  <2>1. Forward(shipmentStatus[s], shipmentStatus'[s])
    BY EveryStepMoves, MovesForward DEF Journey, Transport, ShipmentsAbreast
  <2>2. TypeOK
    BY DEF Journey, Transport
  <2> QED
    BY <2>1, <2>2, HeldBack, ReleasedBack DEF Forward
<1> QED
  BY <1>1, JourneyInvariant, AbreastInvariant, PTL DEF Spec, ShipmentOnlyForward

-----------------------------------------------------------------------------
(***************************************************************************)
(* The writes of a request (CargoRequests). A request checks, then writes, *)
(* a row at a time, and may be cut short after any of them, for good.      *)
(*                                                                         *)
(* Transport is not true in between: a container that was unloaded has no  *)
(* row left while it is still LOADING, and one that departs is ahead of    *)
(* its manifest. Tidy keeps what is true (Kept, SealedFull), and says of   *)
(* the writes still to come that they are of one of four sorts (Planned):  *)
(* of items and shipments only; of the rows of one transport that still    *)
(* takes them; one write of a container or manifest first, that the checks *)
(* of its request found right; or a manifest that goes on its way after    *)
(* its containers.                                                         *)
(***************************************************************************)

\* No two requests are in progress at a time.
OneRequest == \A j, k \in Workers : j = k

Opened == {"BOOKED", "LOADING"}
Landed == {"ARRIVED", "UNLOADING", "CLOSED"}

\* What a container on a manifest with this status may be.
Keeps(status) ==
  CASE status = "DRAFT" -> {"LOADED"}
    [] status = "FINALIZED" -> {"LOADED", "DEPARTED"}
    [] status = "DEPARTED" -> Landed \cup {"DEPARTED"}
    [] status = "ARRIVED" -> Landed
    [] OTHER -> {}

\* A container on a manifest goes by ship, and is as far as the manifest is; when
\* the manifest leaves or comes in, the container does first.
Kept ==
  \A c \in Containers :
    manifestId[c] # None =>
      /\ ModeOf[manifestId[c]] = "OCEAN"
      /\ containerStatus[c] \in Keeps(manifestStatus[manifestId[c]])

\* Nothing empty was sealed.
SealedFull == \A c \in Containers : containerStatus[c] = "LOADED" => Aboard(c) # {}

\* The steps of requests: the name of every rollup, and the writes, by what of.
Rules ==
  {"received", "processing", "containers", "manifests", "departure", "arrival", "ready", "out",
   "delivered", "completion"}
Writes ==
  [op: {"item"}, item: Items, to: ItemValues]
    \cup [op: {"receive"}, item: Items, to: ItemValues, at: Warehouses]
    \cup [op: {"place"}, item: Items, at: Warehouses \cup {None}]
    \cup [op: {"handoff"}, item: Items]
    \cup [op: {"rollup"}, rule: Rules, shipment: Shipments]
    \cup [op: {"shipment"}, shipment: Shipments, to: ShipmentValues]
RowWrites == [op: {"add", "remove"}, to: Containers \cup Manifests, item: Items]
ContainerWrites ==
  [op: {"container"}, container: Containers, to: ContainerStatuses]
    \cup [op: {"manifestId"}, container: Containers, to: Manifests \cup {None}]
    \cup [op: {"count"}, container: Containers]
ManifestWrites ==
  [op: {"manifest"}, manifest: Manifests, to: ManifestStatuses]
    \cup [op: {"freeze"}, manifest: Manifests, items: SUBSET Items]
Steps == Writes \cup RowWrites \cup ContainerWrites \cup ManifestWrites

\* What becomes of items and shipments is no matter to containers and manifests.
Light(st) == st \in Writes

\* Rows of a transport that still takes them are written, or its container booked.
TakesRows(t) ==
  \/ t \in Containers /\ containerStatus[t] \in Opened
  \/ t \in Manifests /\ manifestStatus[t] = "DRAFT"
About(t, st) ==
  \/ st \in RowWrites /\ st.to = t
  \/ t \in Containers /\ st = CountRows(t)
  \/ \E to \in Opened : t \in Containers /\ st = SetContainer(t, to)
Stows(q) ==
  \E t \in Containers \cup Manifests :
    TakesRows(t) /\ \A n \in DOMAIN q : Light(q[n]) \/ About(t, q[n])

\* One write of a container or a manifest, which the check found right.
Right(st) ==
  \/ \E c \in Containers :
       \/ st = SetContainer(c, "LOADED") /\ containerStatus[c] = "LOADING" /\ Aboard(c) # {}
       \/ st = SetContainer(c, "UNLOADING") /\ containerStatus[c] = "ARRIVED"
       \/ st = SetContainer(c, "CLOSED") /\ containerStatus[c] = "UNLOADING"
       \/ \E m \in Manifests :
            /\ manifestStatus[m] = "DRAFT" /\ ModeOf[m] = "OCEAN"
            /\ \/ st = SetManifestId(c, m) /\ containerStatus[c] = "LOADED" /\ manifestId[c] = None
               \/ st = SetManifestId(c, None) /\ manifestId[c] = m
  \/ \E m \in Manifests :
       st = Freeze(m, CargoOf(m)) /\ manifestStatus[m] = "DRAFT" /\ CargoOf(m) # {}
Once(q) == q # <<>> /\ Right(q[1]) /\ \A n \in DOMAIN q : n # 1 => Light(q[n])

\* Depart, or arrive: each of the manifest's containers is moved or will be
\* before the manifest, at p.
Move(m, from, to, q, p) ==
  /\ q[p] = SetManifest(m, to)
  /\ manifestStatus[m] = from
  /\ \A n \in DOMAIN q :
       Light(q[n]) \/ n = p
         \/ (n < p /\ \E c \in ContainersOn(m) : q[n] = SetContainer(c, to))
  /\ \A c \in ContainersOn(m) :
       containerStatus[c] = to \/ \E n \in DOMAIN q : n < p /\ q[n] = SetContainer(c, to)
Moving(q) ==
  \E m \in Manifests, p \in DOMAIN q :
    Move(m, "FINALIZED", "DEPARTED", q, p) \/ Move(m, "DEPARTED", "ARRIVED", q, p)

\* A row is removed by the first write of its request, or of what is left of it.
RowsThere(q) ==
  \A n \in DOMAIN q :
    q[n] \in RowWrites /\ q[n].op = "remove" =>
      /\ n = 1
      /\ q[n].to \in Containers => containerItems[q[n].to][q[n].item] > 0
      /\ q[n].to \in Manifests => manifestItems[q[n].to][q[n].item] > 0

\* What a request may have left to write.
Planned(q) ==
  /\ q \in Seq(Steps)
  /\ RowsThere(q)
  /\ (\A n \in DOMAIN q : Light(q[n])) \/ Stows(q) \/ Once(q) \/ Moving(q)

\* The inductive invariant.
Tidy ==
  /\ RequestsTypeOK
  /\ SnapshotIsCargo
  /\ Kept
  /\ SealedFull
  /\ todo \in [Workers -> Seq(Steps)]
  /\ \A k \in Workers : Planned(todo[k])

-----------------------------------------------------------------------------
\* Sequences.

\* A set of naturals that is not empty has a least element.
LEMMA LeastNat ==
  ASSUME NEW S \in SUBSET Nat, S # {}
  PROVE  \E n \in S : \A m \in S : n <= m
<1> DEFINE R == {ss \in Nat \X Nat : ss[1] < ss[2]}
<1>1. IsWellFoundedOn(R, Nat)
  BY NatLessThanWellFounded DEF OpToRel
<1>2. \A m, n \in Nat : m < n => <<m, n>> \in R
  OBVIOUS
<1> HIDE DEF R
<1>3. PICK n \in S : \A m \in S : ~ (<<m, n>> \in R)
  BY <1>1, WFMin
<1>4. ASSUME NEW m \in S PROVE n <= m
  <2>1. m \in Nat /\ n \in Nat /\ ~ (<<m, n>> \in R)
    BY <1>3
  <2>2. ~ (m < n)
    BY <1>2, <2>1
  <2> QED
    BY <2>1, <2>2
<1> QED
  BY <1>4

\* Every member of a finite set is in the sequence made of it.
LEMMA InSomeOrder ==
  ASSUME NEW S, IsFiniteSet(S)
  PROVE  /\ SetToSeq(S) \in Seq(S)
         /\ \A x \in S : \E n \in DOMAIN SetToSeq(S) : SetToSeq(S)[n] = x
<1> DEFINE N == Cardinality(S)
<1>1. N \in Nat /\ ExistsBijection(1..N, S)
  BY FS_CardinalityType
<1>2. PICK f \in Bijection(1..N, S) : TRUE
  BY <1>1 DEF ExistsBijection
<1>3. f \in [1..N -> S] /\ IsInjective(f)
  BY <1>2 DEF Bijection, Injection, IsInjective
<1>4. PICK g \in [1..N -> S] : g = SetToSeq(S) /\ IsInjective(g)
  BY <1>3 DEF SetToSeq
<1>5. g \in Injection(1..N, S)
  BY <1>4 DEF Injection, IsInjective
<1>6. IsFiniteSet(1..N) /\ Cardinality(1..N) = N
  <2>1. 1 \in Int /\ N \in Int
    BY <1>1
  <2>2. IsFiniteSet(1..N) /\ Cardinality(1..N) = IF 1 > N THEN 0 ELSE N - 1 + 1
    BY <2>1, FS_Interval, Zenon
  <2> QED
    BY <1>1, <2>2
<1>7. g \in Surjection(1..N, S)
  BY <1>5, <1>6, FS_Injection
<1>8. g \in Seq(S)
  BY <1>1, <1>4
<1>9. \A x \in S : \E n \in DOMAIN g : g[n] = x
  BY <1>4, <1>7 DEF Surjection
<1> QED
  BY <1>4, <1>8, <1>9

\* The sequence that FlattenSeq builds: up to each position, what was there.
Flat(s, f, n) == f = [i \in 1..n |-> IF i = 1 THEN s[i] ELSE f[i - 1] \o s[i]]

LEMMA FlatExists ==
  ASSUME NEW s, NEW n \in Nat
  PROVE  \E f : Flat(s, f, n)
<1> DEFINE Bad == {m \in Nat : ~ \E f : Flat(s, f, m)}
<1>1. ASSUME Bad # {} PROVE FALSE
  <2>1. PICK m \in Bad : \A l \in Bad : m <= l
    BY <1>1, LeastNat
  <2>2. CASE m = 0
    <3>1. Flat(s, [i \in 1..0 |-> 0], 0)
      BY DEF Flat
    <3> QED
      BY <2>1, <2>2, <3>1
  <2>3. CASE m # 0
    <3>1. m - 1 \in Nat /\ m - 1 \notin Bad /\ m \in Nat
      BY <2>1, <2>3
    <3>2. PICK f : Flat(s, f, m - 1)
      BY <3>1
    <3> DEFINE g == [i \in 1..m |-> IF i \in 1 .. m - 1 THEN f[i]
                                    ELSE IF i = 1 THEN s[i] ELSE f[i - 1] \o s[i]]
    <3>3. ASSUME NEW i \in 1..m
          PROVE  g[i] = IF i = 1 THEN s[i] ELSE g[i - 1] \o s[i]
      <4>1. i # 1 => g[i - 1] = f[i - 1]
        BY <3>1
      <4>2. i \in 1 .. m - 1 => f[i] = IF i = 1 THEN s[i] ELSE f[i - 1] \o s[i]
        BY <3>1, <3>2 DEF Flat
      <4>3. g[i] = IF i \in 1 .. m - 1 THEN f[i]
                   ELSE IF i = 1 THEN s[i] ELSE f[i - 1] \o s[i]
        OBVIOUS
      <4> HIDE DEF g
      <4> QED
        BY <4>1, <4>2, <4>3
    <3>4. g = [i \in 1..m |-> IF i = 1 THEN s[i] ELSE g[i - 1] \o s[i]]
      <4> DEFINE h == [i \in 1..m |-> IF i = 1 THEN s[i] ELSE g[i - 1] \o s[i]]
      <4>1. g = [i \in 1..m |-> g[i]]
        OBVIOUS
      <4>2. \A i \in 1..m : h[i] = g[i]
        <5> HIDE DEF g
        <5> QED
          BY <3>3
      <4>3. h = [i \in 1..m |-> h[i]]
        OBVIOUS
      <4> HIDE DEF g, h
      <4>4. g = h
        BY <4>1, <4>2, <4>3
      <4> QED
        BY <4>4 DEF h
    <3> HIDE DEF g
    <3>5. Flat(s, g, m)
      BY <3>4 DEF Flat
    <3> QED
      BY <2>1, <3>5
  <2> QED
    BY <2>2, <2>3
<1> QED
  BY <1>1

\* FlattenSeq keeps what is in each of the sequences, and nothing else.
LEMMA Flattened ==
  ASSUME NEW T, NEW s \in Seq(Seq(T)), NEW x, x = FlattenSeq(s)
  PROVE  /\ x \in Seq(T)
         /\ \A n \in DOMAIN s : \A j \in DOMAIN s[n] : \E p \in DOMAIN x : x[p] = s[n][j]
<1> DEFINE N == Len(s)
<1>0. N \in Nat /\ DOMAIN s = 1..N
  OBVIOUS
<1>1. CASE N = 0
  <2>1. FlattenSeq(s) = s /\ s = <<>>
    BY <1>1 DEF FlattenSeq
  <2> QED
    BY <2>1
<1>2. CASE N # 0
  <2>1. PICK f : Flat(s, f, N) /\ FlattenSeq(s) = f[N]
    <3>1. \E f : Flat(s, f, N)
      BY <1>0, FlatExists
    <3>2. FlattenSeq(s) = (CHOOSE f : Flat(s, f, N))[N]
      BY <1>2 DEF FlattenSeq, Flat
    <3> QED
      BY <3>1, <3>2
  <2>2. \A i \in 1..N : f[i] = IF i = 1 THEN s[i] ELSE f[i - 1] \o s[i]
    BY <2>1 DEF Flat
  <2> DEFINE Good(i) == /\ f[i] \in Seq(T)
                        /\ \A n \in 1..i : \A j \in DOMAIN s[n] :
                             \E p \in DOMAIN f[i] : f[i][p] = s[n][j]
             Bad == {i \in Nat : i \in 1..N /\ ~ Good(i)}
  <2>3. ASSUME Bad # {} PROVE FALSE
    <3>1. PICK i \in Bad : \A l \in Bad : i <= l
      BY <2>3, LeastNat
    <3>2. i \in 1..N /\ ~ Good(i) /\ s[i] \in Seq(T)
      BY <3>1
    <3>3. CASE i = 1
      <4>1. f[i] = s[i]
        BY <2>2, <3>2, <3>3
      <4> QED
        BY <3>2, <3>3, <4>1
    <3>4. CASE i # 1
      <4>0. i - 1 \in 1..N /\ i - 1 \in Nat /\ i - 1 < i
        BY <1>0, <3>2, <3>4
      <4>1. Good(i - 1)
        <5> HIDE DEF Good
        <5> QED
          BY <3>1, <4>0
      <4>2. PICK h \in Seq(T) : h = f[i - 1]
        BY <4>1
      <4>3. \A n \in 1 .. i - 1 : \A j \in DOMAIN s[n] : \E p \in DOMAIN h : h[p] = s[n][j]
        BY <4>1, <4>2
      <4>4. PICK t \in Seq(T) : t = s[i]
        BY <3>2
      <4>5. f[i] = h \o t
        BY <2>2, <3>2, <3>4, <4>2, <4>4
      <4>6. h \o t \in Seq(T)
        OBVIOUS
      <4>7. \A p \in DOMAIN h : p \in DOMAIN (h \o t) /\ (h \o t)[p] = h[p]
        OBVIOUS
      <4>8. \A j \in DOMAIN t : Len(h) + j \in DOMAIN (h \o t) /\ (h \o t)[Len(h) + j] = t[j]
        OBVIOUS
      <4>9. ASSUME NEW n \in 1..i, NEW j \in DOMAIN s[n]
            PROVE  \E p \in DOMAIN f[i] : f[i][p] = s[n][j]
        <5>1. CASE n = i
          BY <4>4, <4>5, <4>8, <4>9, <5>1
        <5>2. CASE n # i
          <6>1. n \in 1 .. i - 1
            BY <3>2, <5>2
          <6>2. PICK p \in DOMAIN h : h[p] = s[n][j]
            BY <4>3, <6>1
          <6> QED
            BY <4>5, <4>7, <6>2
        <5> QED
          BY <5>1, <5>2
      <4> QED
        BY <3>2, <4>5, <4>6, <4>9
    <3> QED
      BY <3>3, <3>4
  <2>4. N \in 1..N /\ Good(N)
    <3> HIDE DEF Good
    <3> QED
      BY <1>0, <1>2, <2>3
  <2> QED
    BY <1>0, <2>1, <2>4
<1> QED
  BY <1>1, <1>2

-----------------------------------------------------------------------------
\* The steps of a request, as it begins.

\* Steps are told apart by their names.
LEMMA Apart ==
  ASSUME NEW st
  PROVE  /\ Light(st) => st.op \in {"item", "receive", "place", "handoff", "rollup", "shipment"}
         /\ st \in RowWrites => st.op \in {"add", "remove"}
         /\ \A t : About(t, st) => st.op \in {"add", "remove", "count", "container"}
         /\ Right(st) => st.op \in {"container", "manifestId", "freeze"}
<1>1. Light(st) => st.op \in {"item", "receive", "place", "handoff", "rollup", "shipment"}
  BY DEF Light, Writes
<1>2. st \in RowWrites => st.op \in {"add", "remove"}
  BY DEF RowWrites
<1>3. \A t : About(t, st) => st.op \in {"add", "remove", "count", "container"}
  BY <1>2 DEF About, CountRows, SetContainer
<1>4. Right(st) => st.op \in {"container", "manifestId", "freeze"}
  BY DEF Right, SetContainer, SetManifestId, Freeze
<1> QED
  BY <1>1, <1>2, <1>3, <1>4

LEMMA StepTypes ==
  /\ \A i \in Items, to \in ItemValues : SetStatus(i, to) \in Writes
  /\ \A i \in Items, to \in ItemValues, w \in Warehouses : Receiving(i, to, w) \in Writes
  /\ \A i \in Items, w \in Warehouses \cup {None} : Place(i, w) \in Writes
  /\ \A i \in Items : Record(i) \in Writes
  /\ \A rule \in Rules, s \in Shipments : RollUp(rule, s) \in Writes
  /\ \A s \in Shipments, to \in ShipmentValues : SetShipment(s, to) \in Writes
  /\ \A t \in Containers \cup Manifests, i \in Items :
       AddRow(t, i) \in RowWrites /\ RemoveRow(t, i) \in RowWrites
  /\ \A c \in Containers, to \in ContainerStatuses : SetContainer(c, to) \in Steps
  /\ \A c \in Containers, m \in Manifests \cup {None} : SetManifestId(c, m) \in Steps
  /\ \A c \in Containers : CountRows(c) \in Steps
  /\ \A m \in Manifests, to \in ManifestStatuses : SetManifest(m, to) \in Steps
  /\ \A m \in Manifests, I \in SUBSET Items : Freeze(m, I) \in Steps
<1>1. \A i \in Items, to \in ItemValues : SetStatus(i, to) \in Writes
  BY DEF SetStatus, Writes
<1>2. \A i \in Items, to \in ItemValues, w \in Warehouses : Receiving(i, to, w) \in Writes
  BY DEF Receiving, Writes
<1>3. \A i \in Items, w \in Warehouses \cup {None} : Place(i, w) \in Writes
  BY DEF Place, Writes
<1>4. \A i \in Items : Record(i) \in Writes
  BY DEF Record, Writes
<1>5. \A rule \in Rules, s \in Shipments : RollUp(rule, s) \in Writes
  BY DEF RollUp, Writes
<1>6. \A s \in Shipments, to \in ShipmentValues : SetShipment(s, to) \in Writes
  BY DEF SetShipment, Writes
<1>7. \A t \in Containers \cup Manifests, i \in Items :
        AddRow(t, i) \in RowWrites /\ RemoveRow(t, i) \in RowWrites
  BY DEF AddRow, RemoveRow, RowWrites
<1>8. \A c \in Containers, to \in ContainerStatuses : SetContainer(c, to) \in Steps
  BY DEF SetContainer, Steps, ContainerWrites
<1>9. \A c \in Containers, m \in Manifests \cup {None} : SetManifestId(c, m) \in Steps
  BY DEF SetManifestId, Steps, ContainerWrites
<1>10. \A c \in Containers : CountRows(c) \in Steps
  BY DEF CountRows, Steps, ContainerWrites
<1>11. \A m \in Manifests, to \in ManifestStatuses : SetManifest(m, to) \in Steps
  BY DEF SetManifest, Steps, ManifestWrites
<1>12. \A m \in Manifests, I \in SUBSET Items : Freeze(m, I) \in Steps
  BY DEF Freeze, Steps, ManifestWrites
<1> QED
  BY <1>1, <1>2, <1>3, <1>4, <1>5, <1>6, <1>7, <1>8, <1>9, <1>10, <1>11, <1>12

\* Requests that touch items and shipments only.
LEMMA LightPlan ==
  ASSUME NEW q \in Seq(Writes)
  PROVE  Planned(q)
<1>1. q \in Seq(Steps)
  BY DEF Steps
<1>2. \A n \in DOMAIN q : Light(q[n])
  BY DEF Light
<1>3. RowsThere(q)
  BY <1>2, Apart DEF RowsThere
<1> QED
  BY <1>1, <1>2, <1>3 DEF Planned

\* Requests that write one container or manifest first, then items and shipments.
LEMMA OncePlan ==
  ASSUME NEW st \in Steps, Right(st), NEW w \in Seq(Writes)
  PROVE  Planned(<<st>> \o w)
<1>1. PICK q : q = <<st>> \o w
  OBVIOUS
<1>2. q \in Seq(Steps) /\ q # <<>> /\ q[1] = st
  BY <1>1 DEF Steps
<1>3. \A n \in DOMAIN q : n # 1 => q[n] \in Writes
  BY <1>1
<1>4. \A n \in DOMAIN q : n # 1 => Light(q[n])
  BY <1>3 DEF Light
<1>5. RowsThere(q)
  BY <1>2, <1>4, Apart DEF RowsThere
<1> QED
  BY <1>1, <1>2, <1>4, <1>5 DEF Planned, Once

\* Requests that load, unload, assign and unassign an item.
LEMMA StowPlan ==
  ASSUME NEW t \in Containers \cup Manifests, TakesRows(t), NEW q \in Seq(Steps),
         \A n \in DOMAIN q : Light(q[n]) \/ About(t, q[n]), RowsThere(q)
  PROVE  Planned(q)
BY DEF Planned, Stows

\* Requests that move a manifest: its containers first.
LEMMA MovePlan ==
  ASSUME NEW m \in Manifests, NEW from, NEW to,
         <<from, to>> \in {<<"FINALIZED", "DEPARTED">>, <<"DEPARTED", "ARRIVED">>},
         manifestStatus[m] = from,
         NEW x \in Seq(Writes \cup {SetContainer(c, to) : c \in ContainersOn(m)}),
         \A c \in ContainersOn(m) : \E n \in DOMAIN x : x[n] = SetContainer(c, to),
         NEW w \in Seq(Writes)
  PROVE  Planned(x \o <<SetManifest(m, to)>> \o w)
<1>1. PICK p : p = Len(x) + 1
  OBVIOUS
<1>2. PICK st : st = SetManifest(m, to)
  OBVIOUS
<1>3. PICK q : q = x \o <<st>> \o w
  OBVIOUS
<1>4. /\ DOMAIN q = 1 .. Len(x) + 1 + Len(w)
      /\ \A n \in DOMAIN x : q[n] = x[n]
      /\ q[p] = st
      /\ \A n \in DOMAIN q : n > p => q[n] = w[n - p] /\ n - p \in DOMAIN w
  BY <1>1, <1>3
<1>5. p \in DOMAIN q /\ \A n \in DOMAIN q : n < p <=> n \in DOMAIN x
  BY <1>1, <1>4
<1>6. \A c \in ContainersOn(m) : SetContainer(c, to) \in Steps
  BY StepTypes DEF ContainersOn, ContainerStatuses
<1>7. st \in Steps
  BY <1>2, StepTypes DEF ManifestStatuses
<1>8. q \in Seq(Steps)
  <2>1. Writes \cup {SetContainer(c, to) : c \in ContainersOn(m)} \subseteq Steps
    BY <1>6 DEF Steps
  <2>2. x \in Seq(Steps) /\ w \in Seq(Steps)
    BY <2>1 DEF Steps
  <2> QED
    BY <1>3, <1>7, <2>2
<1>9. \A n \in DOMAIN q :
        Light(q[n]) \/ n = p \/ (n < p /\ \E c \in ContainersOn(m) : q[n] = SetContainer(c, to))
  <2> TAKE n \in DOMAIN q
  <2>1. CASE n < p
    <3>1. q[n] \in Writes \cup {SetContainer(c, to) : c \in ContainersOn(m)}
      BY <1>4, <1>5, <2>1
    <3> QED
      BY <2>1, <3>1 DEF Light
  <2>2. CASE n > p
    BY <1>4, <2>2 DEF Light
  <2> QED
    BY <1>1, <1>4, <2>1, <2>2
<1>10. Move(m, from, to, q, p)
  BY <1>2, <1>4, <1>5, <1>9 DEF Move
<1>11. RowsThere(q)
  <2> SUFFICES ASSUME NEW n \in DOMAIN q, q[n] \in RowWrites PROVE FALSE
    BY DEF RowsThere
  <2> QED
    BY <1>2, <1>4, <1>9, Apart DEF SetManifest, SetContainer
<1> QED
  BY <1>2, <1>3, <1>5, <1>8, <1>10, <1>11 DEF Planned, Moving

\* The items of a set, one after the other; so their shipments.
LEMMA InTurn ==
  ASSUME NEW I \in SUBSET Items
  PROVE  /\ \A to \in ItemValues : Each(I, LAMBDA i : SetStatus(i, to)) \in Seq(Writes)
         /\ \A rule \in Rules : RollUpEach(rule, I) \in Seq(Writes)
<1>1. IsFiniteSet(I)
  BY TablesAssumption, FS_Subset
<1>2. ASSUME NEW to \in ItemValues
      PROVE  Each(I, LAMBDA i : SetStatus(i, to)) \in Seq(Writes)
  <2> DEFINE S == {SetStatus(i, to) : i \in I}
             f == [i \in I |-> SetStatus(i, to)]
  <2>1. f \in Surjection(I, S)
    BY DEF Surjection
  <2>2. IsFiniteSet(S)
    BY <1>1, <2>1, FS_Surjection
  <2>3. SetToSeq(S) \in Seq(S)
    BY <2>2, InSomeOrder
  <2>4. S \subseteq Writes
    BY StepTypes
  <2>5. SetToSeq(S) \in Seq(Writes)
    BY <2>3, <2>4
  <2> QED
    BY <2>5 DEF Each
<1>3. ASSUME NEW rule \in Rules
      PROVE  RollUpEach(rule, I) \in Seq(Writes)
  <2> DEFINE S == {RollUp(rule, s) : s \in ShipmentsOf(I)}
             f == [i \in I |-> RollUp(rule, ShipmentOf[i])]
  <2>1. f \in Surjection(I, S)
    BY DEF Surjection, ShipmentsOf
  <2>2. IsFiniteSet(S)
    BY <1>1, <2>1, FS_Surjection
  <2>3. SetToSeq(S) \in Seq(S)
    BY <2>2, InSomeOrder
  <2>4. S \subseteq Writes
    BY StepTypes, ShipmentOfAssumption DEF ShipmentsOf
  <2>5. SetToSeq(S) \in Seq(Writes)
    BY <2>3, <2>4
  <2> QED
    BY <2>5 DEF RollUpEach, Each
<1> QED
  BY <1>2, <1>3

\* What is written for container c of a manifest that moves, and for all of them.
Leg(c, item, to) == Each(Aboard(c), LAMBDA i : SetStatus(i, item)) \o <<SetContainer(c, to)>>
Legs(m, item, to) == SetToSeq({Leg(c, item, to) : c \in ContainersOn(m)})
LegWrites(m, to) == Writes \cup {SetContainer(c, to) : c \in ContainersOn(m)}

LEMMA LegIs ==
  ASSUME NEW m \in Manifests, NEW item \in ItemValues, NEW to, NEW c \in ContainersOn(m)
  PROVE  /\ Leg(c, item, to) \in Seq(LegWrites(m, to))
         /\ \E j \in DOMAIN Leg(c, item, to) : Leg(c, item, to)[j] = SetContainer(c, to)
<1>1. Aboard(c) \in SUBSET Items
  BY DEF Aboard
<1>2. PICK e : e = Each(Aboard(c), LAMBDA i : SetStatus(i, item))
  OBVIOUS
<1>3. e \in Seq(Writes)
  BY <1>1, <1>2, InTurn
<1>4. PICK st \in LegWrites(m, to) : st = SetContainer(c, to)
  BY DEF LegWrites
<1>5. e \in Seq(LegWrites(m, to))
  BY <1>3 DEF LegWrites
<1>6. PICK l : l = e \o <<st>>
  OBVIOUS
<1>7. l \in Seq(LegWrites(m, to)) /\ Len(e) + 1 \in DOMAIN l /\ l[Len(e) + 1] = st
  BY <1>5, <1>6
<1>8. l = Leg(c, item, to)
  BY <1>2, <1>4, <1>6 DEF Leg
<1> QED
  BY <1>4, <1>7, <1>8

LEMMA LegsAre ==
  ASSUME NEW m \in Manifests, NEW item \in ItemValues, NEW to, NEW s, s = Legs(m, item, to)
  PROVE  /\ s \in Seq(Seq(LegWrites(m, to)))
         /\ \A c \in ContainersOn(m) :
              \E n \in DOMAIN s : \E j \in DOMAIN s[n] : s[n][j] = SetContainer(c, to)
<1> DEFINE S == {Leg(c, item, to) : c \in ContainersOn(m)}
           f == [c \in ContainersOn(m) |-> Leg(c, item, to)]
<1>1. IsFiniteSet(ContainersOn(m))
  BY TablesAssumption, FS_Subset DEF ContainersOn
<1>2. f \in Surjection(ContainersOn(m), S)
  BY DEF Surjection
<1>3. IsFiniteSet(S)
  BY <1>1, <1>2, FS_Surjection
<1>4. s \in Seq(S) /\ \A l \in S : \E n \in DOMAIN s : s[n] = l
  BY <1>3, InSomeOrder DEF Legs
<1>5. S \subseteq Seq(LegWrites(m, to))
  BY LegIs
<1>6. s \in Seq(Seq(LegWrites(m, to)))
  BY <1>4, <1>5
<1>7. ASSUME NEW c \in ContainersOn(m)
      PROVE  \E n \in DOMAIN s : \E j \in DOMAIN s[n] : s[n][j] = SetContainer(c, to)
  <2>1. PICK n \in DOMAIN s : s[n] = Leg(c, item, to)
    BY <1>4
  <2>2. \E j \in DOMAIN Leg(c, item, to) : Leg(c, item, to)[j] = SetContainer(c, to)
    BY LegIs
  <2> QED
    BY <2>1, <2>2
<1> QED
  BY <1>6, <1>7

\* A manifest's containers, one after the other, each after its items.
LEMMA ContainersInTurn ==
  ASSUME NEW m \in Manifests, NEW item \in ItemValues, NEW to,
         NEW x, x = FlattenSeq(Legs(m, item, to))
  PROVE  /\ x \in Seq(LegWrites(m, to))
         /\ \A c \in ContainersOn(m) : \E n \in DOMAIN x : x[n] = SetContainer(c, to)
<1>1. PICK s : s = Legs(m, item, to)
  OBVIOUS
<1>2. /\ s \in Seq(Seq(LegWrites(m, to)))
      /\ \A c \in ContainersOn(m) :
           \E n \in DOMAIN s : \E j \in DOMAIN s[n] : s[n][j] = SetContainer(c, to)
  BY <1>1, LegsAre
<1>3. x = FlattenSeq(s)
  BY <1>1
<1>4. x \in Seq(LegWrites(m, to))
  BY <1>2, <1>3, Flattened
<1>5. \A n \in DOMAIN s : \A j \in DOMAIN s[n] : \E p \in DOMAIN x : x[p] = s[n][j]
  BY <1>2, <1>3, Flattened
<1> QED
  BY <1>2, <1>4, <1>5

-----------------------------------------------------------------------------
\* Requests begin.

\* As long as containers and manifests stay as they are, so does what is right.
LEMMA StayRight ==
  ASSUME UNCHANGED <<containerVars, manifestVars>>
  PROVE  /\ Kept => Kept'
         /\ SealedFull => SealedFull'
         /\ SnapshotIsCargo => SnapshotIsCargo'
         /\ \A q : Planned(q) => Planned(q)'
<1> USE DEF containerVars, manifestVars
<1>1. /\ \A c : Aboard(c)' = Aboard(c)
      /\ \A m : Listed(m)' = Listed(m) /\ ContainersOn(m)' = ContainersOn(m)
  BY DEF Aboard, Listed, ContainersOn
<1>2. \A m : CargoOf(m)' = CargoOf(m)
  BY <1>1 DEF CargoOf
<1>3. Kept => Kept'
  BY DEF Kept
<1>4. SealedFull => SealedFull'
  BY <1>1 DEF SealedFull
<1>5. SnapshotIsCargo => SnapshotIsCargo'
  BY <1>2 DEF SnapshotIsCargo
<1>6. ASSUME NEW q, Planned(q) PROVE Planned(q)'
  <2>1. RowsThere(q)'
    BY <1>6 DEF Planned, RowsThere
  <2>2. Stows(q) => Stows(q)'
    BY DEF Stows, TakesRows
  <2>3. Once(q) => Once(q)'
    BY <1>1, <1>2 DEF Once, Right
  <2>4. Moving(q) => Moving(q)'
    BY <1>1 DEF Moving, Move
  <2> QED
    BY <1>6, <2>1, <2>2, <2>3, <2>4 DEF Planned
<1> QED
  BY <1>3, <1>4, <1>5, <1>6

LEMMA Begun ==
  ASSUME Tidy, OneRequest, NEW k \in Workers, NEW q, Planned(q), Begin(k, q)
  PROVE  Tidy'
<1>1. todo' = [todo EXCEPT ![k] = q] /\ UNCHANGED <<vars, failures>>
  BY DEF Begin
<1>2. UNCHANGED <<containerVars, manifestVars>>
  BY <1>1 DEF vars
<1>3. TypeOK' /\ failures' \in 0..MaxFailures
  BY <1>1 DEF Tidy, RequestsTypeOK, TypeOK, vars, shipmentVars, itemVars, containerVars,
       manifestVars
<1>4. todo' \in [Workers -> Seq(Steps)]
  BY <1>1 DEF Tidy, Planned
<1>5. \A j \in Workers : todo'[j] = q
  BY <1>1 DEF OneRequest, Tidy
<1>6. \A j \in Workers : Planned(todo[j])'
  BY <1>2, <1>5, StayRight
<1> QED
  BY <1>2, <1>3, <1>4, <1>6, StayRight DEF Tidy, RequestsTypeOK

LEMMA WarehouseBegins ==
  ASSUME NEW k \in Workers, BeginWarehouse(k)
  PROVE  \E q : Planned(q) /\ Begin(k, q)
<1> USE StepTypes DEF ItemValues, ItemStatuses, Rules
<1>1. PICK i \in Items : \/ BeginDeliver(k, i)
                         \/ \E w \in Warehouses :
                              \/ BeginReceive(k, i, w) \/ BeginPickup(k, i, w)
                              \/ BeginDispatch(k, i, w)
                              \/ \E good \in BOOLEAN :
                                   \/ BeginProcess(k, i, w, good)
                                   \/ BeginDestinationReceive(k, i, w, good)
                                   \/ BeginReturn(k, i, w, good)
  BY DEF BeginWarehouse
<1>2. PICK s \in Shipments : s = ShipmentOf[i]
  BY ShipmentOfAssumption
<1>3. ASSUME NEW a \in Writes, NEW b \in Writes, Begin(k, <<a, b>>)
      PROVE  \E q : Planned(q) /\ Begin(k, q)
  <2>1. <<a, b>> \in Seq(Writes)
    OBVIOUS
  <2> QED
    BY <1>3, <2>1, LightPlan
<1>4. ASSUME NEW a \in Writes, NEW b \in Writes, NEW c \in Writes, Begin(k, <<a, b, c>>)
      PROVE  \E q : Planned(q) /\ Begin(k, q)
  <2>1. <<a, b, c>> \in Seq(Writes)
    OBVIOUS
  <2> QED
    BY <1>4, <2>1, LightPlan
<1>5. ASSUME NEW a \in Writes, NEW b \in Writes, NEW c \in Writes, NEW d \in Writes,
             Begin(k, <<a, b, c, d>>)
      PROVE  \E q : Planned(q) /\ Begin(k, q)
  <2>1. <<a, b, c, d>> \in Seq(Writes)
    OBVIOUS
  <2> QED
    BY <1>5, <2>1, LightPlan
<1>6. CASE BeginDeliver(k, i)
  <2>1. /\ SetStatus(i, "DELIVERED") \in Writes /\ Record(i) \in Writes
        /\ RollUp("delivered", s) \in Writes /\ RollUp("completion", s) \in Writes
    OBVIOUS
  <2>2. Begin(k, <<SetStatus(i, "DELIVERED"), Record(i), RollUp("delivered", s),
                   RollUp("completion", s)>>)
    BY <1>2, <1>6 DEF BeginDeliver
  <2> QED
    BY <1>5, <2>1, <2>2
<1>7. ASSUME NEW w \in Warehouses, BeginReceive(k, i, w)
      PROVE  \E q : Planned(q) /\ Begin(k, q)
  <2>1. /\ Receiving(i, "RECEIVED_ORIGIN_WAREHOUSE", w) \in Writes
        /\ RollUp("received", s) \in Writes
    OBVIOUS
  <2>2. Begin(k, <<Receiving(i, "RECEIVED_ORIGIN_WAREHOUSE", w), RollUp("received", s)>>)
    BY <1>2, <1>7 DEF BeginReceive
  <2> QED
    BY <1>3, <2>1, <2>2
<1>8. ASSUME NEW w \in Warehouses, BeginPickup(k, i, w)
      PROVE  \E q : Planned(q) /\ Begin(k, q)
  <2>1. /\ SetStatus(i, "PICKED_UP") \in Writes /\ Place(i, None) \in Writes
        /\ Record(i) \in Writes /\ RollUp("completion", s) \in Writes
    OBVIOUS
  <2>2. Begin(k, <<SetStatus(i, "PICKED_UP"), Place(i, None), Record(i), RollUp("completion", s)>>)
    BY <1>2, <1>8 DEF BeginPickup
  <2> QED
    BY <1>5, <2>1, <2>2
<1>9. ASSUME NEW w \in Warehouses, BeginDispatch(k, i, w)
      PROVE  \E q : Planned(q) /\ Begin(k, q)
  <2>1. /\ SetStatus(i, "OUT_FOR_DELIVERY") \in Writes /\ Place(i, None) \in Writes
        /\ RollUp("out", s) \in Writes
    OBVIOUS
  <2>2. Begin(k, <<SetStatus(i, "OUT_FOR_DELIVERY"), Place(i, None), RollUp("out", s)>>)
    BY <1>2, <1>9 DEF BeginDispatch
  <2> QED
    BY <1>4, <2>1, <2>2
<1>10. ASSUME NEW w \in Warehouses, NEW good \in BOOLEAN, BeginProcess(k, i, w, good)
       PROVE  \E q : Planned(q) /\ Begin(k, q)
  <2>1. PICK to \in ItemValues : to = IF good THEN "PROCESSED" ELSE "EXCEPTION"
    OBVIOUS
  <2>2. SetStatus(i, to) \in Writes /\ RollUp("processing", s) \in Writes
    OBVIOUS
  <2>3. Begin(k, <<SetStatus(i, to), RollUp("processing", s)>>)
    BY <1>2, <1>10, <2>1 DEF BeginProcess
  <2> QED
    BY <1>3, <2>2, <2>3
<1>11. ASSUME NEW w \in Warehouses, NEW good \in BOOLEAN, BeginDestinationReceive(k, i, w, good)
       PROVE  \E q : Planned(q) /\ Begin(k, q)
  <2>1. PICK st \in Writes : st = IF good THEN Receiving(i, "RECEIVED_DESTINATION_WAREHOUSE", w)
                                  ELSE SetStatus(i, "EXCEPTION")
    OBVIOUS
  <2>2. RollUp("ready", s) \in Writes
    OBVIOUS
  <2>3. Begin(k, <<st, RollUp("ready", s)>>)
    BY <1>2, <1>11, <2>1 DEF BeginDestinationReceive
  <2> QED
    BY <1>3, <2>2, <2>3
<1>12. ASSUME NEW w \in Warehouses, NEW good \in BOOLEAN, BeginReturn(k, i, w, good)
       PROVE  \E q : Planned(q) /\ Begin(k, q)
  <2>1. PICK to \in ItemValues : to = IF good THEN "RECEIVED_DESTINATION_WAREHOUSE"
                                      ELSE "EXCEPTION"
    OBVIOUS
  <2>2. SetStatus(i, to) \in Writes /\ Place(i, w) \in Writes
    OBVIOUS
  <2>3. Begin(k, <<SetStatus(i, to), Place(i, w)>>)
    BY <1>12, <2>1 DEF BeginReturn
  <2> QED
    BY <1>3, <2>2, <2>3
<1> QED
  BY <1>1, <1>6, <1>7, <1>8, <1>9, <1>10, <1>11, <1>12

\* Sequences of the same members are the same.
LEMMA SameString ==
  ASSUME NEW S, NEW s \in Seq(S), NEW t \in Seq(S), Len(s) = Len(t),
         \A n \in 1 .. Len(s) : s[n] = t[n]
  PROVE  s = t
OBVIOUS

\* Short sequences.
LEMMA Strung ==
  ASSUME NEW a, NEW b, NEW c, NEW d
  PROVE  /\ <<a, b>> \o <<>> \o <<c>> = <<a, b, c>>
         /\ <<a, b>> \o <<c>> \o <<d>> = <<a, b, c, d>>
         /\ <<a>> \o <<>> = <<a>>
<1> DEFINE T == {a, b, c, d}
<1> HIDE DEF T
<1>2. a \in T /\ b \in T /\ c \in T /\ d \in T
  BY DEF T
<1>3. <<a>> \o <<>> = <<a>>
  <2>1. <<a>> \in Seq(T) /\ <<>> \in Seq(T)
    BY <1>2
  <2>2. <<a>> \o <<>> \in Seq(T) /\ Len(<<a>> \o <<>>) = 1 /\ (<<a>> \o <<>>)[1] = a
    BY <2>1
  <2>3. Len(<<a>>) = 1 /\ <<a>>[1] = a
    OBVIOUS
  <2>5. PICK s \in Seq(T) : s = <<a>> \o <<>>
    BY <2>2
  <2>6. PICK t \in Seq(T) : t = <<a>>
    BY <2>1
  <2>7. Len(s) = 1 /\ Len(t) = 1
    BY <2>2, <2>3, <2>5, <2>6
  <2>8. \A n \in 1 .. Len(s) : s[n] = t[n]
    BY <2>2, <2>3, <2>5, <2>6, <2>7
  <2> QED
    BY <2>5, <2>6, <2>7, <2>8, SameString
<1>4. <<a, b>> \o <<>> = <<a, b>>
  <2>1. <<a, b>> \in Seq(T) /\ <<>> \in Seq(T)
    BY <1>2
  <2>2. /\ <<a, b>> \o <<>> \in Seq(T) /\ Len(<<a, b>> \o <<>>) = 2
        /\ (<<a, b>> \o <<>>)[1] = a /\ (<<a, b>> \o <<>>)[2] = b
    BY <2>1
  <2>3. Len(<<a, b>>) = 2 /\ <<a, b>>[1] = a /\ <<a, b>>[2] = b
    OBVIOUS
  <2>5. PICK s \in Seq(T) : s = <<a, b>> \o <<>>
    BY <2>2
  <2>6. PICK t \in Seq(T) : t = <<a, b>>
    BY <2>1
  <2>7. Len(s) = 2 /\ Len(t) = 2
    BY <2>2, <2>3, <2>5, <2>6
  <2>8. \A n \in 1 .. Len(s) : s[n] = t[n]
    BY <2>2, <2>3, <2>5, <2>6, <2>7
  <2> QED
    BY <2>5, <2>6, <2>7, <2>8, SameString
<1>5. <<a, b>> \o <<c>> = <<a, b, c>>
  <2>1. <<a, b>> \in Seq(T) /\ <<c>> \in Seq(T) /\ <<a, b, c>> \in Seq(T)
    BY <1>2
  <2>2. /\ <<a, b>> \o <<c>> \in Seq(T) /\ Len(<<a, b>> \o <<c>>) = 3
        /\ (<<a, b>> \o <<c>>)[1] = a /\ (<<a, b>> \o <<c>>)[2] = b
        /\ (<<a, b>> \o <<c>>)[3] = c
    BY <2>1
  <2>4. \A n \in 1..3 : n = 1 \/ n = 2 \/ n = 3
    OBVIOUS
  <2>3. Len(<<a, b, c>>) = 3 /\ <<a, b, c>>[1] = a /\ <<a, b, c>>[2] = b /\ <<a, b, c>>[3] = c
    OBVIOUS
  <2>5. PICK s \in Seq(T) : s = <<a, b>> \o <<c>>
    BY <2>2
  <2>6. PICK t \in Seq(T) : t = <<a, b, c>>
    BY <2>1
  <2>7. Len(s) = 3 /\ Len(t) = 3
    BY <2>2, <2>3, <2>5, <2>6
  <2>8. \A n \in 1 .. Len(s) : s[n] = t[n]
    BY <2>2, <2>3, <2>4, <2>5, <2>6, <2>7
  <2> QED
    BY <2>5, <2>6, <2>7, <2>8, SameString
<1>6. <<a, b, c>> \o <<d>> = <<a, b, c, d>>
  <2>1. <<a, b, c>> \in Seq(T) /\ <<d>> \in Seq(T) /\ <<a, b, c, d>> \in Seq(T)
    BY <1>2
  <2>2. /\ <<a, b, c>> \o <<d>> \in Seq(T) /\ Len(<<a, b, c>> \o <<d>>) = 4
        /\ (<<a, b, c>> \o <<d>>)[1] = a /\ (<<a, b, c>> \o <<d>>)[2] = b
        /\ (<<a, b, c>> \o <<d>>)[3] = c /\ (<<a, b, c>> \o <<d>>)[4] = d
    BY <2>1
  <2>4. \A n \in 1..4 : n = 1 \/ n = 2 \/ n = 3 \/ n = 4
    OBVIOUS
  <2>3. /\ Len(<<a, b, c, d>>) = 4 /\ <<a, b, c, d>>[1] = a /\ <<a, b, c, d>>[2] = b
        /\ <<a, b, c, d>>[3] = c /\ <<a, b, c, d>>[4] = d
    OBVIOUS
  <2>5. PICK s \in Seq(T) : s = <<a, b, c>> \o <<d>>
    BY <2>2
  <2>6. PICK t \in Seq(T) : t = <<a, b, c, d>>
    BY <2>1
  <2>7. Len(s) = 4 /\ Len(t) = 4
    BY <2>2, <2>3, <2>5, <2>6
  <2>8. \A n \in 1 .. Len(s) : s[n] = t[n]
    BY <2>2, <2>3, <2>4, <2>5, <2>6, <2>7
  <2> QED
    BY <2>5, <2>6, <2>7, <2>8, SameString
<1> QED
  BY <1>3, <1>4, <1>5, <1>6

\* A status for each item of a set, one after the other.
EachStatus(I, to) == Each(I, LAMBDA i : SetStatus(i, to))

LEMMA EachIs ==
  ASSUME NEW I \in SUBSET Items, NEW to \in ItemValues
  PROVE  EachStatus(I, to) \in Seq(Writes)
BY InTurn DEF EachStatus

\* A row more or a row less, with what goes before and after it.
LEMMA RowPlan ==
  ASSUME NEW t \in Containers \cup Manifests, TakesRows(t), NEW i \in Items, NEW s \in Shipments,
         NEW to \in ItemValues, NEW rule \in Rules,
         NEW mid,
         mid = <<>> \/ \E st \in Steps : mid = <<st>> /\ About(t, st) /\ st \notin RowWrites
  PROVE  /\ Planned(<<SetStatus(i, to), AddRow(t, i)>> \o mid \o <<RollUp(rule, s)>>)
         /\ (/\ t \in Containers => containerItems[t][i] > 0
             /\ t \in Manifests => manifestItems[t][i] > 0)
              => Planned(<<RemoveRow(t, i), SetStatus(i, to)>> \o mid \o <<RollUp(rule, s)>>)
<1>1. PICK a \in Writes : a = SetStatus(i, to)
  BY StepTypes
<1>2. PICK z \in Writes : z = RollUp(rule, s)
  BY StepTypes
<1>3. PICK b \in RowWrites : b = AddRow(t, i)
  BY StepTypes
<1>4. PICK r \in RowWrites : r = RemoveRow(t, i)
  BY StepTypes
<1>5. About(t, b) /\ About(t, r)
  BY <1>3, <1>4 DEF About, AddRow, RemoveRow
<1>6. a \in Steps /\ b \in Steps /\ r \in Steps /\ z \in Steps
  BY DEF Steps
<1>7. b.op = "add" /\ r.to = t /\ r.item = i
  BY <1>3, <1>4 DEF AddRow, RemoveRow
<1>8. a \notin RowWrites /\ z \notin RowWrites
  BY Apart DEF Light
<1>9. Planned(<<a, b>> \o mid \o <<z>>)
  <2>1. PICK q : q = <<a, b>> \o mid \o <<z>>
    OBVIOUS
  <2>2. q \in Seq(Steps) /\ \A n \in DOMAIN q : q[n] \in {a, z} \/ q[n] = b
                             \/ (About(t, q[n]) /\ q[n] \notin RowWrites)
    <3>1. CASE mid = <<>>
      <4>1. q = <<a, b, z>> /\ q \in Seq(Steps)
        BY <1>6, <2>1, <3>1, Strung
      <4> QED
        BY <4>1
    <3>2. CASE mid # <<>>
      <4>1. PICK st \in Steps : mid = <<st>> /\ About(t, st) /\ st \notin RowWrites
        BY <3>2
      <4>2. q = <<a, b, st, z>> /\ q \in Seq(Steps)
        BY <1>6, <2>1, <4>1, Strung
      <4> QED
        BY <4>1, <4>2
    <3> QED
      BY <3>1, <3>2
  <2>3. \A n \in DOMAIN q : Light(q[n]) \/ About(t, q[n])
    BY <1>5, <2>2 DEF Light
  <2>4. RowsThere(q)
    BY <1>7, <1>8, <2>2 DEF RowsThere
  <2> QED
    BY <2>1, <2>2, <2>3, <2>4, StowPlan
<1>10. ASSUME t \in Containers => containerItems[t][i] > 0,
              t \in Manifests => manifestItems[t][i] > 0
       PROVE  Planned(<<r, a>> \o mid \o <<z>>)
  <2>1. PICK q : q = <<r, a>> \o mid \o <<z>>
    OBVIOUS
  <2>2. /\ q \in Seq(Steps) /\ q[1] = r
        /\ \A n \in DOMAIN q : q[n] \in {a, z} \/ n = 1
                             \/ (About(t, q[n]) /\ q[n] \notin RowWrites)
    <3>1. CASE mid = <<>>
      <4>1. q = <<r, a, z>> /\ q \in Seq(Steps)
        BY <1>6, <2>1, <3>1, Strung
      <4> QED
        BY <4>1
    <3>2. CASE mid # <<>>
      <4>1. PICK st \in Steps : mid = <<st>> /\ About(t, st) /\ st \notin RowWrites
        BY <3>2
      <4>2. q = <<r, a, st, z>> /\ q \in Seq(Steps)
        BY <1>6, <2>1, <4>1, Strung
      <4> QED
        BY <4>1, <4>2
    <3> QED
      BY <3>1, <3>2
  <2>3. \A n \in DOMAIN q : Light(q[n]) \/ About(t, q[n])
    BY <1>5, <2>2 DEF Light
  <2>4. RowsThere(q)
    BY <1>7, <1>8, <1>10, <2>2 DEF RowsThere
  <2> QED
    BY <2>1, <2>2, <2>3, <2>4, StowPlan
<1> QED
  BY <1>1, <1>2, <1>3, <1>4, <1>9, <1>10

LEMMA ContainerBegins ==
  ASSUME Tidy, NEW k \in Workers, BeginContainer(k)
  PROVE  \E q : Planned(q) /\ Begin(k, q)
<1> USE DEF ItemValues, ItemStatuses, Rules
<1>1. PICK c \in Containers : \/ BeginSeal(k, c) \/ BeginOpen(k, c) \/ BeginClose(k, c)
                              \/ \E i \in Items : BeginLoad(k, c, i) \/ BeginUnload(k, c, i)
  BY DEF BeginContainer
<1>2. /\ "LOADED" \in ContainerStatuses /\ "UNLOADING" \in ContainerStatuses
      /\ "CLOSED" \in ContainerStatuses /\ "LOADING" \in ContainerStatuses
  BY DEF ContainerStatuses
<1>3. CASE BeginSeal(k, c)
  <2>1. PICK st : st = SetContainer(c, "LOADED")
    OBVIOUS
  <2>2. st \in Steps /\ Right(st)
    BY <1>2, <1>3, <2>1, StepTypes DEF BeginSeal, CanSeal, Right
  <2>3. Aboard(c) \in SUBSET Items
    BY DEF Aboard
  <2>4. PICK e \in Seq(Writes) : e = EachStatus(Aboard(c), "LOADED")
    BY <2>3, EachIs
  <2>5. PICK r \in Seq(Writes) : r = RollUpEach("containers", Aboard(c))
    BY <2>3, InTurn
  <2>6. Begin(k, <<st>> \o e \o r)
    BY <1>3, <2>1, <2>4, <2>5 DEF BeginSeal, EachStatus
  <2>7. e \o r \in Seq(Writes) /\ <<st>> \o e \o r = <<st>> \o (e \o r)
    <3>1. <<st>> \in Seq(Steps) /\ e \in Seq(Steps) /\ r \in Seq(Steps)
      BY <2>2, <2>4, <2>5 DEF Steps
    <3> QED
      BY <2>4, <2>5, <3>1
  <2>8. Planned(<<st>> \o (e \o r))
    BY <2>2, <2>7, OncePlan
  <2> QED
    BY <2>6, <2>7, <2>8
<1>4. ASSUME NEW st \in Steps, Right(st), Begin(k, <<st>>)
      PROVE  \E q : Planned(q) /\ Begin(k, q)
  <2>1. <<>> \in Seq(Writes) /\ <<st>> \o <<>> = <<st>>
    BY Strung
  <2> QED
    BY <1>4, <2>1, OncePlan
<1>5. CASE BeginOpen(k, c)
  <2>1. PICK st : st = SetContainer(c, "UNLOADING")
    OBVIOUS
  <2>2. st \in Steps /\ Right(st)
    BY <1>2, <1>5, <2>1, StepTypes DEF BeginOpen, Right
  <2> QED
    BY <1>4, <1>5, <2>1, <2>2 DEF BeginOpen
<1>6. CASE BeginClose(k, c)
  <2>1. PICK st : st = SetContainer(c, "CLOSED")
    OBVIOUS
  <2>2. st \in Steps /\ Right(st)
    BY <1>2, <1>6, <2>1, StepTypes DEF BeginClose, Right
  <2> QED
    BY <1>4, <1>6, <2>1, <2>2 DEF BeginClose
<1>7. ASSUME NEW i \in Items PROVE ShipmentOf[i] \in Shipments
  BY ShipmentOfAssumption
<1>8. ASSUME NEW i \in Items, BeginLoad(k, c, i)
      PROVE  \E q : Planned(q) /\ Begin(k, q)
  <2>1. TakesRows(c)
    BY <1>8 DEF BeginLoad, CanLoad, TakesRows, Opened
  <2>2. PICK mid : mid = IF containerStatus[c] = "BOOKED" THEN <<SetContainer(c, "LOADING")>>
                         ELSE <<>>
    OBVIOUS
  <2>3. PICK st \in Steps : st = SetContainer(c, "LOADING")
    BY <1>2, StepTypes
  <2>4. About(c, st) /\ st \notin RowWrites
    BY <2>3 DEF About, Opened, RowWrites, SetContainer
  <2>5. mid = <<>> \/ \E x \in Steps : mid = <<x>> /\ About(c, x) /\ x \notin RowWrites
    BY <2>2, <2>3, <2>4
  <2>6. Planned(<<SetStatus(i, "ASSIGNED_TO_CONTAINER"), AddRow(c, i)>> \o mid
                  \o <<RollUp("containers", ShipmentOf[i])>>)
    BY <1>7, <2>1, <2>5, RowPlan
  <2> QED
    BY <1>8, <2>2, <2>6 DEF BeginLoad
<1>9. ASSUME NEW i \in Items, BeginUnload(k, c, i)
      PROVE  \E q : Planned(q) /\ Begin(k, q)
  <2>1. TakesRows(c) /\ containerItems[c][i] > 0 /\ c \notin Manifests
    BY <1>9, TransportAssumption DEF BeginUnload, CanUnload, TakesRows, Opened
  <2>2. PICK mid : mid = IF containerStatus[c] = "LOADING" THEN <<CountRows(c)>> ELSE <<>>
    OBVIOUS
  <2>3. PICK st \in Steps : st = CountRows(c)
    BY StepTypes
  <2>4. About(c, st) /\ st \notin RowWrites
    BY <2>3 DEF About, RowWrites, CountRows
  <2>5. mid = <<>> \/ \E x \in Steps : mid = <<x>> /\ About(c, x) /\ x \notin RowWrites
    BY <2>2, <2>3, <2>4
  <2>6. Planned(<<RemoveRow(c, i), SetStatus(i, "PROCESSED")>> \o mid
                  \o <<RollUp("containers", ShipmentOf[i])>>)
    BY <1>7, <2>1, <2>5, RowPlan
  <2> QED
    BY <1>9, <2>2, <2>6 DEF BeginUnload
<1> QED
  BY <1>1, <1>3, <1>5, <1>6, <1>8, <1>9

LEMMA ManifestBegins ==
  ASSUME Tidy, NEW k \in Workers, BeginManifest(k)
  PROVE  \E q : Planned(q) /\ Begin(k, q)
<1>1. PICK m \in Manifests :
        \/ BeginFinalize(k, m) \/ BeginDepart(k, m) \/ BeginArrive(k, m)
        \/ \E c \in Containers : BeginAssignContainer(k, m, c) \/ BeginUnassignContainer(k, m, c)
        \/ \E i \in Items : BeginAssignItem(k, m, i) \/ BeginUnassignItem(k, m, i)
  BY DEF BeginManifest
<1>2. m \notin Containers /\ ModeOf[m] \in {"AIR", "OCEAN"} /\ Kept /\ SealedFull
  BY TransportAssumption, ModeAssumption DEF Tidy
<1>3. ASSUME NEW st \in Steps, Right(st), Begin(k, <<st>>)
      PROVE  \E q : Planned(q) /\ Begin(k, q)
  <2>1. <<>> \in Seq(Writes) /\ <<st>> \o <<>> = <<st>>
    BY Strung
  <2> QED
    BY <1>3, <2>1, OncePlan
<1>4. ASSUME NEW c \in Containers, BeginAssignContainer(k, m, c)
      PROVE  \E q : Planned(q) /\ Begin(k, q)
  <2>1. PICK st : st = SetManifestId(c, m)
    OBVIOUS
  <2>2. st \in Steps /\ Right(st)
    BY <1>4, <2>1, StepTypes DEF BeginAssignContainer, CanAssignContainer, Right
  <2> QED
    BY <1>3, <1>4, <2>1, <2>2 DEF BeginAssignContainer
<1>5. ASSUME NEW c \in Containers, BeginUnassignContainer(k, m, c)
      PROVE  \E q : Planned(q) /\ Begin(k, q)
  <2>1. PICK st : st = SetManifestId(c, None)
    OBVIOUS
  <2>2. manifestStatus[m] = "DRAFT" /\ ModeOf[m] = "OCEAN" /\ manifestId[c] = m
    BY <1>2, <1>5, NoneAssumption DEF BeginUnassignContainer, CanUnassignContainer, Kept
  <2>3. st \in Steps /\ Right(st)
    BY <2>1, <2>2, StepTypes DEF Right
  <2> QED
    BY <1>3, <1>5, <2>1, <2>3 DEF BeginUnassignContainer
<1>6. ASSUME NEW i \in Items, BeginAssignItem(k, m, i)
      PROVE  \E q : Planned(q) /\ Begin(k, q)
  <2>1. TakesRows(m)
    BY <1>6 DEF BeginAssignItem, CanAssignItem, TakesRows
  <2>2. PICK mid : mid = <<>>
    OBVIOUS
  <2>3. Planned(<<SetStatus(i, "ASSIGNED_TO_MANIFEST"), AddRow(m, i)>> \o mid
                  \o <<RollUp("manifests", ShipmentOf[i])>>)
    BY <2>1, <2>2, RowPlan, ShipmentOfAssumption DEF ItemValues, ItemStatuses, Rules
  <2>4. PICK a, b, z : a = SetStatus(i, "ASSIGNED_TO_MANIFEST") /\ b = AddRow(m, i)
                         /\ z = RollUp("manifests", ShipmentOf[i])
    OBVIOUS
  <2>5. <<a, b>> \o mid \o <<z>> = <<a, b, z>>
    BY <2>2, Strung
  <2> QED
    BY <1>6, <2>3, <2>4, <2>5 DEF BeginAssignItem
<1>7. ASSUME NEW i \in Items, BeginUnassignItem(k, m, i)
      PROVE  \E q : Planned(q) /\ Begin(k, q)
  <2>1. TakesRows(m) /\ manifestItems[m][i] > 0
    BY <1>7 DEF BeginUnassignItem, CanUnassignItem, TakesRows
  <2>2. PICK mid : mid = <<>>
    OBVIOUS
  <2>3. Planned(<<RemoveRow(m, i), SetStatus(i, "PROCESSED")>> \o mid
                  \o <<RollUp("manifests", ShipmentOf[i])>>)
    BY <1>2, <2>1, <2>2, RowPlan, ShipmentOfAssumption DEF ItemValues, ItemStatuses, Rules
  <2>4. PICK a, b, z : a = RemoveRow(m, i) /\ b = SetStatus(i, "PROCESSED")
                         /\ z = RollUp("manifests", ShipmentOf[i])
    OBVIOUS
  <2>5. <<a, b>> \o mid \o <<z>> = <<a, b, z>>
    BY <2>2, Strung
  <2> QED
    BY <1>7, <2>3, <2>4, <2>5 DEF BeginUnassignItem
<1>8. CargoOf(m) \in SUBSET Items /\ Listed(m) \in SUBSET Items
  BY DEF CargoOf, Listed, Aboard
<1>9. CASE BeginFinalize(k, m)
  <2>1. CanFinalize(m)
    BY <1>9 DEF BeginFinalize
  <2>2. CargoOf(m) # {}
    <3>1. CASE ModeOf[m] = "AIR"
      BY <2>1, <3>1 DEF CanFinalize, AllCargo, CargoOf
    <3>2. CASE ModeOf[m] # "AIR"
      <4>1. PICK c \in ContainersOn(m) : containerStatus[c] = "LOADED"
        BY <2>1, <3>2 DEF CanFinalize, AllCargo
      <4>2. Aboard(c) # {}
        BY <1>2, <4>1 DEF SealedFull, ContainersOn
      <4> QED
        BY <3>2, <4>1, <4>2 DEF CargoOf
    <3> QED
      BY <3>1, <3>2
  <2>3. PICK st : st = Freeze(m, CargoOf(m))
    OBVIOUS
  <2>4. st \in Steps /\ Right(st)
    BY <1>8, <2>1, <2>2, <2>3, StepTypes DEF CanFinalize, Right
  <2>5. PICK e \in Seq(Writes) : e = EachStatus(Listed(m), "LOADED")
    BY <1>8, EachIs DEF ItemValues, ItemStatuses
  <2>6. PICK r \in Seq(Writes) : r = RollUpEach("manifests", Listed(m))
    BY <1>8, InTurn DEF Rules
  <2>7. PICK w \in Seq(Writes) : w = IF ModeOf[m] = "AIR" THEN e \o r ELSE <<>>
    <3>1. e \o r \in Seq(Writes) /\ <<>> \in Seq(Writes)
      BY <2>5, <2>6
    <3> QED
      BY <3>1
  <2>8. Begin(k, <<st>> \o w)
    BY <1>9, <2>3, <2>5, <2>6, <2>7 DEF BeginFinalize, EachStatus
  <2> QED
    BY <2>4, <2>8, OncePlan
<1>10. ASSUME NEW item \in ItemValues, NEW from, NEW to, NEW rule \in Rules,
              <<from, to>> \in {<<"FINALIZED", "DEPARTED">>, <<"DEPARTED", "ARRIVED">>},
              manifestStatus[m] = from,
              Begin(k, MoveSteps(m, item, to, to, rule))
       PROVE  \E q : Planned(q) /\ Begin(k, q)
  <2>1. PICK x : x = IF ModeOf[m] = "AIR" THEN Each(Listed(m), LAMBDA i : SetStatus(i, item))
                     ELSE FlattenSeq(Legs(m, item, to))
    OBVIOUS
  <2>2. PICK w \in Seq(Writes) : w = RollUpEach(rule, CargoOf(m))
    BY <1>8, InTurn
  <2>3. MoveSteps(m, item, to, to, rule) = x \o <<SetManifest(m, to)>> \o w
    BY <2>1, <2>2 DEF MoveSteps, Legs, Leg
  <2>4. /\ x \in Seq(LegWrites(m, to))
        /\ \A c \in ContainersOn(m) : \E n \in DOMAIN x : x[n] = SetContainer(c, to)
    <3>1. CASE ModeOf[m] = "AIR"
      <4>1. x \in Seq(Writes)
        BY <1>8, <2>1, <3>1, InTurn
      <4>2. ContainersOn(m) = {}
        BY <1>2, <3>1, NoneAssumption DEF ContainersOn, Kept
      <4> QED
        BY <4>1, <4>2 DEF LegWrites
    <3>2. CASE ModeOf[m] # "AIR"
      BY <2>1, <3>2, ContainersInTurn
    <3> QED
      BY <3>1, <3>2
  <2>5. x \in Seq(Writes \cup {SetContainer(c, to) : c \in ContainersOn(m)})
    BY <2>4 DEF LegWrites
  <2>6. Planned(x \o <<SetManifest(m, to)>> \o w)
    BY <1>10, <2>2, <2>4, <2>5, MovePlan
  <2> QED
    BY <1>10, <2>3, <2>6
<1>11. CASE BeginDepart(k, m)
  <2>1. manifestStatus[m] = "FINALIZED"
    BY <1>11 DEF BeginDepart, CanDepart
  <2>2. Begin(k, MoveSteps(m, "DEPARTED_ORIGIN", "DEPARTED", "DEPARTED", "departure"))
    BY <1>11 DEF BeginDepart
  <2>3. "DEPARTED_ORIGIN" \in ItemValues /\ "departure" \in Rules
    BY DEF ItemValues, ItemStatuses, Rules
  <2> QED
    BY <1>10, <2>1, <2>2, <2>3
<1>12. CASE BeginArrive(k, m)
  <2>1. manifestStatus[m] = "DEPARTED"
    BY <1>12 DEF BeginArrive, CanArrive
  <2>2. Begin(k, MoveSteps(m, "ARRIVED_DESTINATION", "ARRIVED", "ARRIVED", "arrival"))
    BY <1>12 DEF BeginArrive
  <2>3. "ARRIVED_DESTINATION" \in ItemValues /\ "arrival" \in Rules
    BY DEF ItemValues, ItemStatuses, Rules
  <2> QED
    BY <1>10, <2>1, <2>2, <2>3
<1> QED
  BY <1>1, <1>4, <1>5, <1>6, <1>7, <1>9, <1>11, <1>12

-----------------------------------------------------------------------------
\* A request takes a step.

\* What a step with this name is about.
LEMMA ByName ==
  ASSUME NEW st \in Steps
  PROVE  /\ st.op = "item" => st \in Writes /\ st.item \in Items /\ st.to \in ItemValues
         /\ st.op = "receive" =>
              st \in Writes /\ st.item \in Items /\ st.to \in ItemValues /\ st.at \in Warehouses
         /\ st.op = "place" =>
              st \in Writes /\ st.item \in Items /\ st.at \in Warehouses \cup {None}
         /\ st.op = "handoff" => st \in Writes /\ st.item \in Items
         /\ st.op = "rollup" => st \in Writes /\ st.rule \in Rules /\ st.shipment \in Shipments
         /\ st.op = "shipment" =>
              st \in Writes /\ st.shipment \in Shipments /\ st.to \in ShipmentValues
         /\ st.op \in {"add", "remove"} =>
              st \in RowWrites /\ st.to \in Containers \cup Manifests /\ st.item \in Items
         /\ st.op \in {"container", "manifestId", "count"} => st \in ContainerWrites
         /\ st.op \in {"manifest", "freeze"} => st \in ManifestWrites
<1>1. CASE st \in Writes
  BY <1>1 DEF Writes
<1>2. CASE st \in RowWrites
  BY <1>2 DEF RowWrites
<1>3. CASE st \in ContainerWrites
  BY <1>3 DEF ContainerWrites
<1>4. CASE st \in ManifestWrites
  BY <1>4 DEF ManifestWrites
<1> QED
  BY <1>1, <1>2, <1>3, <1>4 DEF Steps

\* The steps that are left once the first is done and w is put in its place.
LEMMA Rest ==
  ASSUME NEW T, NEW q \in Seq(T), q # <<>>, NEW w \in Seq(T), NEW r, r = w \o Tail(q)
  PROVE  /\ r \in Seq(T)
         /\ Len(q) \in Nat /\ DOMAIN q = 1 .. Len(q) /\ 1 \in DOMAIN q
         /\ Len(w) \in Nat /\ DOMAIN w = 1 .. Len(w)
         /\ DOMAIN r = 1 .. Len(w) + Len(q) - 1
         /\ \A n \in DOMAIN w : n \in DOMAIN r /\ r[n] = w[n]
         /\ \A n \in DOMAIN q : n # 1 => Len(w) + n - 1 \in DOMAIN r /\ r[Len(w) + n - 1] = q[n]
         /\ \A n \in DOMAIN r : n \in DOMAIN w
              \/ (n > Len(w) /\ n - Len(w) + 1 \in DOMAIN q /\ n - Len(w) + 1 # 1
                  /\ r[n] = q[n - Len(w) + 1])
<1>1. PICK t \in Seq(T) : t = Tail(q)
  <2>1. Tail(q) \in Seq(T)
    OBVIOUS
  <2> QED
    BY <2>1
<1>2. Len(t) = Len(q) - 1 /\ \A n \in 1 .. Len(q) - 1 : t[n] = q[n + 1]
  BY <1>1
<1>3. r = w \o t
  BY <1>1
<1>4. Len(q) \in Nat /\ DOMAIN q = 1 .. Len(q) /\ 1 \in DOMAIN q
  OBVIOUS
<1>5. Len(w) \in Nat /\ DOMAIN w = 1 .. Len(w)
  OBVIOUS
<1>6. r \in Seq(T) /\ Len(r) = Len(w) + Len(q) - 1 /\ DOMAIN r = 1 .. Len(w) + Len(q) - 1
  BY <1>2, <1>3, <1>4, <1>5
<1>7. \A n \in DOMAIN w : n \in DOMAIN r /\ r[n] = w[n]
  BY <1>3, <1>4, <1>5, <1>6
<1>8. ASSUME NEW n \in DOMAIN q, n # 1
      PROVE  Len(w) + n - 1 \in DOMAIN r /\ r[Len(w) + n - 1] = q[n]
  <2>1. PICK j \in 1 .. Len(t) : j + 1 = n
    <3>1. n - 1 \in 1 .. Len(t) /\ (n - 1) + 1 = n
      BY <1>2, <1>4, <1>8
    <3> QED
      BY <3>1
  <2>2. Len(w) + j \in DOMAIN r /\ r[Len(w) + j] = t[j]
    <3>1. PICK p : p = Len(w) + j
      OBVIOUS
    <3>2. p \in 1 .. Len(w) + Len(t) /\ p > Len(w) /\ p - Len(w) = j
      BY <1>2, <1>4, <1>5, <3>1
    <3>3. (w \o t)[p] = t[p - Len(w)]
      BY <3>2
    <3> QED
      BY <1>2, <1>3, <1>4, <1>5, <1>6, <3>1, <3>2, <3>3
  <2>3. t[j] = q[n]
    <3>1. j \in 1 .. Len(q) - 1
      BY <1>2, <2>1
    <3>2. t[j] = q[j + 1]
      BY <1>2, <3>1
    <3> QED
      BY <2>1, <3>2
  <2>4. Len(w) + j = Len(w) + n - 1
    <3>1. j \in Int /\ Len(w) \in Int
      BY <1>2, <1>4, <1>5
    <3> QED
      BY <2>1, <3>1
  <2> QED
    BY <2>2, <2>3, <2>4
<1>9. ASSUME NEW n \in DOMAIN r, n \notin DOMAIN w
      PROVE  n > Len(w) /\ n - Len(w) + 1 \in DOMAIN q /\ n - Len(w) + 1 # 1
               /\ r[n] = q[n - Len(w) + 1]
  <2>1. n > Len(w) /\ n \in Nat /\ n - Len(w) + 1 \in DOMAIN q /\ n - Len(w) + 1 # 1
    BY <1>4, <1>5, <1>6, <1>9
  <2>2. PICK m \in DOMAIN q : m = n - Len(w) + 1
    BY <2>1
  <2>3. Len(w) + m - 1 = n
    BY <1>5, <2>1, <2>2
  <2> QED
    BY <1>8, <2>1, <2>2, <2>3
<1> QED
  BY <1>4, <1>5, <1>6, <1>7, <1>8, <1>9

\* Requests with nothing but items and shipments left to write may go on, whatever
\* was just written.
LEMMA OnlyLight ==
  ASSUME NEW q \in Seq(Steps), \A n \in DOMAIN q : Light(q[n])
  PROVE  Planned(q) /\ Planned(q)'
<1>1. \A n \in DOMAIN q : q[n] \notin RowWrites
  BY Apart
<1> QED
  BY <1>1 DEF Planned, RowsThere

\* Rows are removed first, so not by what is left.
LEMMA RowsGone ==
  ASSUME NEW q, Planned(q), q # <<>>, NEW w \in Seq(Steps), NEW r, r = w \o Tail(q),
         \A n \in DOMAIN w : w[n] \notin RowWrites
  PROVE  \A n \in DOMAIN r : ~ (r[n] \in RowWrites /\ r[n].op = "remove")
<1>1. q \in Seq(Steps) /\ RowsThere(q)
  BY DEF Planned
<1> SUFFICES ASSUME NEW n \in DOMAIN r, r[n] \in RowWrites, r[n].op = "remove"
             PROVE  FALSE
  OBVIOUS
<1>2. n \notin DOMAIN w
  BY <1>1, Rest
<1>3. PICK m \in DOMAIN q : m # 1 /\ r[n] = q[m]
  BY <1>1, <1>2, Rest
<1> QED
  BY <1>1, <1>3 DEF RowsThere

\* The first step is about items or shipments, or a rollup that decides on more.
LEMMA LightFirst ==
  ASSUME NEW q, Planned(q), q # <<>>, Light(q[1]), NEW w \in Seq(Writes), NEW r, r = w \o Tail(q)
  PROVE  Planned(r)
<1>1. q \in Seq(Steps) /\ w \in Seq(Steps) /\ \A n \in DOMAIN w : Light(w[n])
  BY DEF Planned, Steps, Light
<1>2. r \in Seq(Steps)
  BY <1>1, Rest
<1>9. \A n \in DOMAIN w : w[n] \notin RowWrites
  BY <1>1, Apart
<1>3. RowsThere(r)
  <2>1. \A n \in DOMAIN r : ~ (r[n] \in RowWrites /\ r[n].op = "remove")
    BY <1>1, <1>9, RowsGone
  <2> QED
    BY <2>1 DEF RowsThere
<1>10. \A n \in DOMAIN q : n # 1 => Len(w) + n - 1 \in DOMAIN r /\ r[Len(w) + n - 1] = q[n]
  BY <1>1, Rest
<1>4. \A n \in DOMAIN r : Light(r[n]) \/ \E m \in DOMAIN q : r[n] = q[m]
  BY <1>1, Rest
<1>5. CASE \A n \in DOMAIN q : Light(q[n])
  BY <1>2, <1>3, <1>4, <1>5 DEF Planned
<1>6. CASE Stows(q)
  <2>1. Stows(r)
    BY <1>4, <1>6 DEF Stows
  <2> QED
    BY <1>2, <1>3, <2>1 DEF Planned
<1>7. ~ Once(q)
  BY Apart DEF Once
<1>8. CASE Moving(q)
  <2>1. PICK m \in Manifests, p \in DOMAIN q :
          Move(m, "FINALIZED", "DEPARTED", q, p) \/ Move(m, "DEPARTED", "ARRIVED", q, p)
    BY <1>8 DEF Moving
  <2>2. ASSUME NEW from, NEW to, Move(m, from, to, q, p)
        PROVE  \E o \in DOMAIN r : Move(m, from, to, r, o)
    <3>1. p # 1
      BY <2>2, Apart DEF Move, SetManifest
    <3>2. PICK o : o = Len(w) + p - 1
      OBVIOUS
    <3>3. /\ Len(q) \in Nat /\ DOMAIN q = 1 .. Len(q) /\ Len(w) \in Nat
          /\ DOMAIN w = 1 .. Len(w) /\ DOMAIN r = 1 .. Len(w) + Len(q) - 1
      BY <1>1, Rest
    <3>4. o \in DOMAIN r /\ r[o] = SetManifest(m, to)
      BY <1>10, <2>2, <3>1, <3>2 DEF Move
    <3>5. ASSUME NEW n \in DOMAIN r
          PROVE  Light(r[n]) \/ n = o
                   \/ (n < o /\ \E c \in ContainersOn(m) : r[n] = SetContainer(c, to))
      <4>1. CASE n \in DOMAIN w
        BY <1>1, <4>1, Rest
      <4>2. CASE n \notin DOMAIN w
        <5>1. PICK l \in DOMAIN q : l = n - Len(w) + 1 /\ r[n] = q[l]
          BY <1>1, <4>2, Rest
        <5>3. p \in Nat /\ n \in Nat /\ Len(w) \in Nat
          BY <3>3
        <5>2. (l = p => n = o) /\ (l < p => n < o)
          BY <3>2, <5>1, <5>3
        <5> QED
          BY <2>2, <5>1, <5>2 DEF Move
      <4> QED
        BY <4>1, <4>2
    <3>6. ASSUME NEW c \in ContainersOn(m), containerStatus[c] # to
          PROVE  \E n \in DOMAIN r : n < o /\ r[n] = SetContainer(c, to)
      <4>1. PICK l \in DOMAIN q : l < p /\ q[l] = SetContainer(c, to)
        BY <2>2, <3>6 DEF Move
      <4>2. l # 1
        BY <4>1, Apart DEF SetContainer
      <4>3. Len(w) + l - 1 \in DOMAIN r /\ r[Len(w) + l - 1] = q[l]
        BY <1>10, <4>2
      <4>4. Len(w) + l - 1 < o
        BY <3>2, <3>3, <4>1
      <4> QED
        BY <4>1, <4>3, <4>4
    <3>7. manifestStatus[m] = from
      BY <2>2 DEF Move
    <3> QED
      BY <3>4, <3>5, <3>6, <3>7 DEF Move
  <2>3. Moving(r)
    BY <2>1, <2>2 DEF Moving
  <2> QED
    BY <1>2, <1>3, <2>3 DEF Planned
<1> QED
  BY <1>5, <1>6, <1>7, <1>8 DEF Planned

\* The writes of a rollup.
LEMMA RollupTypes ==
  ASSUME NEW rule \in Rules, NEW s \in Shipments,
         shipmentStatus \in [Shipments -> ShipmentValues]
  PROVE  RollupWrites(rule, s) \in Seq(Writes)
<1>1. PICK sh \in ShipmentValues : sh = shipmentStatus[s]
  OBVIOUS
<1>2. PICK its : its = StatusesIn(itemStatus, s)
  OBVIOUS
<1>3. PICK got : got = ReceivedIn(received, s)
  OBVIOUS
<1>4. PICK ph : ph = Phases(rule, sh, its, got)
  OBVIOUS
<1>5. ph[1] \in ShipmentValues /\ ph[2] \in ShipmentValues
  <2>1. /\ StartProcessing(sh, its) \in ShipmentValues
        /\ CommitByContainers(sh, its) \in ShipmentValues
        /\ CommitByManifests(sh, its) \in ShipmentValues
    BY DEF StartProcessing, CommitByContainers, CommitByManifests, Commit, ShipmentValues,
         ShipmentStatuses
  <2>2. /\ RollupReceived(sh, got) \in ShipmentValues
        /\ RollupProcessing(sh, its) \in ShipmentValues
        /\ RollupByContainers(sh, its) \in ShipmentValues
        /\ RollupByManifests(sh, its) \in ShipmentValues
        /\ RollupDeparture(sh, its) \in ShipmentValues
        /\ RollupArrival(sh, its) \in ShipmentValues
        /\ RollupReadyForPickup(sh, its) \in ShipmentValues
        /\ RollupOutForDelivery(sh, its) \in ShipmentValues
        /\ RollupDelivered(sh, its) \in ShipmentValues
        /\ RollupCompletion(sh, its) \in ShipmentValues
    BY RollupValues
  <2> QED
    BY <1>4, <2>1, <2>2 DEF Phases, Rules
<1>6. PICK a : a = IF ph[1] # sh THEN <<SetShipment(s, ph[1])>> ELSE <<>>
  OBVIOUS
<1>7. PICK b : b = IF ph[2] # ph[1] THEN <<SetShipment(s, ph[2])>> ELSE <<>>
  OBVIOUS
<1>8. ASSUME NEW to \in ShipmentValues
      PROVE  <<SetShipment(s, to)>> \in Seq(Writes) /\ <<>> \in Seq(Writes)
  <2>1. SetShipment(s, to) \in Writes
    BY StepTypes
  <2> QED
    BY <2>1
<1>9. a \in Seq(Writes)
  BY <1>5, <1>6, <1>8
<1>10. b \in Seq(Writes)
  BY <1>5, <1>7, <1>8
<1>11. RollupWrites(rule, s) = a \o b
  BY <1>1, <1>2, <1>3, <1>4, <1>6, <1>7 DEF RollupWrites
<1> QED
  BY <1>9, <1>10, <1>11

-----------------------------------------------------------------------------
\* Each of the writes, by the worker that is at it.

\* The request goes on with q.
LEMMA GoesOn ==
  ASSUME Tidy, OneRequest, NEW k \in Workers, NEW w, Then(k, w),
         NEW r, r = w \o Tail(todo[k]), Planned(r)',
         TypeOK', Kept', SealedFull', SnapshotIsCargo'
  PROVE  Tidy'
<1>1. todo' = [todo EXCEPT ![k] = r] /\ failures' = failures
  BY DEF Then, Tidy
<1>2. r \in Seq(Steps)
  BY DEF Planned
<1>3. todo' \in [Workers -> Seq(Steps)] /\ \A j \in Workers : todo'[j] = r
  BY <1>1, <1>2 DEF Tidy, OneRequest
<1>4. \A j \in Workers : Planned(todo[j])'
  BY <1>3
<1> QED
  BY <1>1, <1>3, <1>4 DEF Tidy, RequestsTypeOK

\* The first step of a worker at work.
LEMMA AtWork ==
  ASSUME Tidy, NEW k \in Workers, NEW op, Step(k, op), NEW q, q = todo[k]
  PROVE  /\ q \in Seq(Steps) /\ q # <<>> /\ Planned(q) /\ 1 \in DOMAIN q
         /\ Head(q) = q[1] /\ q[1] \in Steps /\ q[1].op = op
<1>1. q \in Seq(Steps) /\ q # <<>> /\ Planned(q) /\ Head(q).op = op
  BY DEF Tidy, Step
<1>2. 1 \in DOMAIN q /\ Head(q) = q[1] /\ q[1] \in Steps
  BY <1>1
<1> QED
  BY <1>1, <1>2

\* Writes of items and shipments, and rollups.
LEMMA LightStep ==
  ASSUME Tidy, OneRequest, NEW k \in Workers, NEW q, q = todo[k], q # <<>>, Light(q[1]),
         NEW w \in Seq(Writes), Then(k, w), TypeOK', UNCHANGED <<containerVars, manifestVars>>
  PROVE  Tidy'
<1>1. Planned(q)
  BY DEF Tidy
<1>2. PICK r : r = w \o Tail(q)
  OBVIOUS
<1>3. Planned(r)
  BY <1>1, <1>2, LightFirst
<1>4. Planned(r)' /\ Kept' /\ SealedFull' /\ SnapshotIsCargo'
  BY <1>3, StayRight DEF Tidy
<1> QED
  BY <1>2, <1>4, GoesOn

LEMMA ItemStep ==
  ASSUME Tidy, OneRequest, NEW k \in Workers,
         DoItem(k) \/ DoReceive(k) \/ DoPlace(k) \/ DoRecord(k)
  PROVE  Tidy'
<1>1. TypeOK
  BY DEF Tidy, RequestsTypeOK
<1>2. PICK op \in {"item", "receive", "place", "handoff"} : Step(k, op)
  BY DEF DoItem, DoReceive, DoPlace, DoRecord
<1>3. PICK q : q = todo[k]
  OBVIOUS
<1>4. PICK st \in Steps : st = q[1] /\ st.op = op /\ Head(q) = st /\ q # <<>>
  BY <1>2, <1>3, AtWork
<1>5. /\ st \in Writes /\ st.item \in Items
      /\ op = "item" => st.to \in ItemValues
      /\ op = "receive" => st.to \in ItemValues /\ st.at \in Warehouses
      /\ op = "place" => st.at \in Warehouses \cup {None}
  BY <1>4, ByName
<1>6. Light(q[1])
  BY <1>4, <1>5 DEF Light
<1>7. Then(k, <<>>) /\ UNCHANGED <<containerVars, manifestVars, shipmentVars>>
  BY DEF DoItem, DoReceive, DoPlace, DoRecord
<1>8. TypeOK'
  <2> USE <1>1, <1>5 DEF TypeOK, containerVars, manifestVars, shipmentVars, ItemValues
  <2>1. CASE DoItem(k)
    <3>1. op = "item"
      BY <1>3, <1>4, <2>1 DEF DoItem, Step
    <3>2. itemStatus' = [itemStatus EXCEPT ![st.item] = st.to]
      BY <1>3, <1>4, <2>1 DEF DoItem, SetItem
    <3>3. UNCHANGED <<currentWarehouse, received, handoffs>>
      BY <2>1 DEF DoItem
    <3> QED
      BY <1>7, <3>1, <3>2, <3>3
  <2>2. CASE DoReceive(k)
    <3>1. op = "receive"
      BY <1>3, <1>4, <2>2 DEF DoReceive, Step
    <3>2. /\ itemStatus' = [itemStatus EXCEPT ![st.item] = st.to]
          /\ received' = [received EXCEPT ![st.item] = TRUE]
          /\ currentWarehouse' = [currentWarehouse EXCEPT ![st.item] = st.at]
      BY <1>3, <1>4, <2>2 DEF DoReceive, SetItem
    <3>3. UNCHANGED handoffs
      BY <2>2 DEF DoReceive
    <3> QED
      BY <1>7, <3>1, <3>2, <3>3
  <2>3. CASE DoPlace(k)
    <3>1. op = "place"
      BY <1>3, <1>4, <2>3 DEF DoPlace, Step
    <3>2. currentWarehouse' = [currentWarehouse EXCEPT ![st.item] = st.at]
      BY <1>3, <1>4, <2>3 DEF DoPlace
    <3>3. UNCHANGED <<itemStatus, received, handoffs>>
      BY <2>3 DEF DoPlace
    <3> QED
      BY <1>7, <3>1, <3>2, <3>3
  <2>4. CASE DoRecord(k)
    <3>1. handoffs' = [handoffs EXCEPT ![st.item] = @ + 1]
      BY <1>3, <1>4, <2>4 DEF DoRecord
    <3>2. UNCHANGED <<itemStatus, received, currentWarehouse>>
      BY <2>4 DEF DoRecord
    <3> QED
      BY <1>7, <3>1, <3>2
  <2> QED
    BY <2>1, <2>2, <2>3, <2>4
<1>9. <<>> \in Seq(Writes)
  OBVIOUS
<1> QED
  BY <1>3, <1>4, <1>6, <1>7, <1>8, <1>9, LightStep

LEMMA ShipmentWrite ==
  ASSUME Tidy, OneRequest, NEW k \in Workers, DoRollup(k) \/ DoShipment(k)
  PROVE  Tidy'
<1>1. TypeOK
  BY DEF Tidy, RequestsTypeOK
<1>2. PICK op \in {"rollup", "shipment"} : Step(k, op)
  BY DEF DoRollup, DoShipment
<1>3. PICK q : q = todo[k]
  OBVIOUS
<1>4. PICK st \in Steps : st = q[1] /\ st.op = op /\ Head(q) = st /\ q # <<>>
  BY <1>2, <1>3, AtWork
<1>5. st \in Writes /\ st.shipment \in Shipments /\ (op = "rollup" => st.rule \in Rules)
        /\ (op = "shipment" => st.to \in ShipmentValues)
  BY <1>4, ByName
<1>6. Light(q[1])
  BY <1>4, <1>5 DEF Light
<1>7. CASE DoRollup(k)
  <2>1. op = "rollup"
    BY <1>3, <1>4, <1>7 DEF DoRollup, Step
  <2>2. PICK w : w = RollupWrites(st.rule, st.shipment)
    OBVIOUS
  <2>3. PICK rule \in Rules, s \in Shipments : rule = st.rule /\ s = st.shipment
    BY <1>5, <2>1
  <2>4. shipmentStatus \in [Shipments -> ShipmentValues]
    BY <1>1 DEF TypeOK, ShipmentValues
  <2>5. w \in Seq(Writes)
    BY <2>2, <2>3, <2>4, RollupTypes
  <2>6. Then(k, w) /\ UNCHANGED vars
    BY <1>3, <1>4, <1>7, <2>2 DEF DoRollup
  <2>7. TypeOK' /\ UNCHANGED <<containerVars, manifestVars>>
    BY <1>1, <2>6 DEF TypeOK, vars, shipmentVars, itemVars, containerVars, manifestVars
  <2> QED
    BY <1>3, <1>4, <1>6, <2>5, <2>6, <2>7, LightStep
<1>8. CASE DoShipment(k)
  <2>1. op = "shipment"
    BY <1>3, <1>4, <1>8 DEF DoShipment, Step
  <2>2. shipmentStatus' = [shipmentStatus EXCEPT ![st.shipment] = st.to]
    BY <1>3, <1>4, <1>8 DEF DoShipment
  <2>3. Then(k, <<>>) /\ UNCHANGED <<itemVars, containerVars, manifestVars>>
    BY <1>8 DEF DoShipment
  <2>4. TypeOK'
    BY <1>1, <1>5, <2>1, <2>2, <2>3 DEF TypeOK, itemVars, containerVars, manifestVars,
         ShipmentValues
  <2>5. <<>> \in Seq(Writes)
    OBVIOUS
  <2> QED
    BY <1>3, <1>4, <1>6, <2>3, <2>4, <2>5, LightStep
<1> QED
  BY <1>7, <1>8

\* The cargo of a manifest is what the rows of its own and of its containers say.
LEMMA SameCargo ==
  ASSUME NEW m \in Manifests, manifestItems'[m] = manifestItems[m],
         ContainersOn(m)' = ContainersOn(m),
         \A c \in ContainersOn(m) : containerItems'[c] = containerItems[c]
  PROVE  CargoOf(m)' = CargoOf(m)
<1>1. Listed(m)' = Listed(m)
  BY DEF Listed
<1>2. {Aboard(c) : c \in ContainersOn(m)}' = {Aboard(c) : c \in ContainersOn(m)}
  BY DEF Aboard
<1> QED
  BY <1>1, <1>2 DEF CargoOf

\* A row of an open container, or of a draft.
LEMMA RowStep ==
  ASSUME Tidy, OneRequest, NEW k \in Workers, DoRow(k)
  PROVE  Tidy'
<1>1. TypeOK /\ SnapshotIsCargo /\ Kept /\ SealedFull
  BY DEF Tidy, RequestsTypeOK
<1>2. PICK op \in {"add", "remove"} : Step(k, op)
  BY DEF DoRow
<1>3. PICK q : q = todo[k]
  OBVIOUS
<1>4. q \in Seq(Steps) /\ q # <<>> /\ Planned(q) /\ 1 \in DOMAIN q
  BY <1>2, <1>3, AtWork
<1>5. PICK st \in Steps : st = q[1] /\ st.op = op /\ Head(q) = st
  BY <1>2, <1>3, AtWork
<1>6. st \in RowWrites /\ st.to \in Containers \cup Manifests /\ st.item \in Items
  BY <1>5, ByName
<1>7. Stows(q)
  <2>1. ~ Light(st) /\ ~ Right(st)
    BY <1>5, Apart
  <2>2. ~ Moving(q)
    <3> SUFFICES ASSUME NEW m \in Manifests, NEW from, NEW to, NEW p \in DOMAIN q,
                        Move(m, from, to, q, p)
                 PROVE  FALSE
      BY DEF Moving
    <3>1. st = SetManifest(m, to) \/ \E c \in ContainersOn(m) : st = SetContainer(c, to)
      BY <1>4, <1>5, <2>1 DEF Move
    <3>2. SetManifest(m, to).op = "manifest" /\ \A c : SetContainer(c, to).op = "container"
      BY DEF SetManifest, SetContainer
    <3>3. st.op \in {"manifest", "container"}
      BY <3>1, <3>2
    <3> QED
      BY <1>5, <3>3
  <2> QED
    BY <1>4, <1>5, <2>1, <2>2 DEF Planned, Once
<1>8. PICK t \in Containers \cup Manifests :
        TakesRows(t) /\ \A n \in DOMAIN q : Light(q[n]) \/ About(t, q[n])
  BY <1>7 DEF Stows
<1>9. st.to = t
  <2>1. About(t, st)
    BY <1>4, <1>5, <1>8, Apart
  <2>2. CountRows(t).op = "count" /\ \A to : SetContainer(t, to).op = "container"
    BY DEF CountRows, SetContainer
  <2>3. st # CountRows(t) /\ \A to : st # SetContainer(t, to)
    BY <1>5, <2>2
  <2> QED
    BY <2>1, <2>3 DEF About
<1>10. PICK i \in Items : i = st.item
  BY <1>6
<1>11. /\ Then(k, <<>>)
       /\ UNCHANGED <<shipmentVars, itemVars, containerStatus, manifestId>>
       /\ UNCHANGED <<manifestStatus, snapshot>>
  BY DEF DoRow
<1>12. PICK d \in Int : /\ d = (IF op = "add" THEN 1 ELSE -1)
                        /\ t \in Containers => containerItems[t][i] + d \in Nat
                        /\ t \in Manifests => manifestItems[t][i] + d \in Nat
  <2>1. /\ t \in Containers => containerItems[t][i] \in Nat
        /\ t \in Manifests => manifestItems[t][i] \in Nat
    BY <1>1 DEF TypeOK
  <2>2. CASE op = "add"
    BY <2>1, <2>2
  <2>3. CASE op = "remove"
    <3>1. /\ t \in Containers => containerItems[t][i] > 0
          /\ t \in Manifests => manifestItems[t][i] > 0
      BY <1>4, <1>5, <1>6, <1>9, <1>10, <2>3 DEF Planned, RowsThere
    <3> QED
      BY <2>1, <2>3, <3>1
  <2> QED
    BY <2>2, <2>3
<1>13. ASSUME t \in Containers
       PROVE  TypeOK' /\ Kept' /\ SealedFull' /\ SnapshotIsCargo'
  <2>1. /\ containerItems' = [containerItems EXCEPT ![t][i] = containerItems[t][i] + d]
        /\ UNCHANGED manifestItems
    <3>1. IF op = "add" THEN containerItems' = [containerItems EXCEPT ![t][i] = @ + 1]
          ELSE containerItems' = [containerItems EXCEPT ![t][i] = @ - 1]
      BY <1>3, <1>5, <1>9, <1>10, <1>13 DEF DoRow
    <3>2. UNCHANGED manifestItems
      BY <1>3, <1>5, <1>9, <1>13 DEF DoRow
    <3>3. containerItems[t][i] \in Nat
      BY <1>1, <1>13 DEF TypeOK
    <3> QED
      BY <1>2, <1>12, <3>1, <3>2, <3>3
  <2>2. containerStatus[t] \in Opened /\ t \notin Manifests
    BY <1>8, <1>13, TransportAssumption DEF TakesRows
  <2>3. TypeOK'
    BY <1>1, <1>11, <1>12, <1>13, <2>1 DEF TypeOK, shipmentVars, itemVars
  <2>4. \A c \in Containers : c # t => containerItems'[c] = containerItems[c]
    BY <2>1, <1>1 DEF TypeOK
  <2>5. Kept'
    BY <1>1, <1>11 DEF Kept
  <2>6. SealedFull'
    <3>1. ASSUME NEW c \in Containers, containerStatus'[c] = "LOADED" PROVE Aboard(c)' # {}
      <4>1. c # t /\ containerStatus[c] = "LOADED"
        BY <1>11, <2>2, <3>1 DEF Opened
      <4> QED
        BY <1>1, <2>4, <4>1 DEF SealedFull, Aboard
    <3> QED
      BY <3>1 DEF SealedFull
  <2>7. manifestId[t] = None
    BY <1>1, <1>13, <2>2 DEF Kept, Keeps, Opened, Landed
  <2>8. SnapshotIsCargo'
    <3>1. ASSUME NEW m \in Manifests PROVE CargoOf(m)' = CargoOf(m)
      <4>1. ContainersOn(m)' = ContainersOn(m)
        BY <1>11 DEF ContainersOn
      <4>2. \A c \in ContainersOn(m) : c # t
        BY <2>7, NoneAssumption DEF ContainersOn
      <4> QED
        BY <2>1, <2>4, <4>1, <4>2, SameCargo DEF ContainersOn
    <3> QED
      BY <1>1, <1>11, <3>1 DEF SnapshotIsCargo
  <2> QED
    BY <2>3, <2>5, <2>6, <2>8
<1>14. ASSUME t \notin Containers
       PROVE  TypeOK' /\ Kept' /\ SealedFull' /\ SnapshotIsCargo'
  <2>0. t \in Manifests
    BY <1>8, <1>14
  <2>1. /\ manifestItems' = [manifestItems EXCEPT ![t][i] = manifestItems[t][i] + d]
        /\ UNCHANGED containerItems
    <3>1. IF op = "add" THEN manifestItems' = [manifestItems EXCEPT ![t][i] = @ + 1]
          ELSE manifestItems' = [manifestItems EXCEPT ![t][i] = @ - 1]
      BY <1>3, <1>5, <1>9, <1>10, <1>14 DEF DoRow
    <3>2. UNCHANGED containerItems
      BY <1>3, <1>5, <1>9, <1>14 DEF DoRow
    <3>3. manifestItems[t][i] \in Nat
      BY <1>1, <2>0 DEF TypeOK
    <3> QED
      BY <1>2, <1>12, <3>1, <3>2, <3>3
  <2>2. manifestStatus[t] = "DRAFT"
    BY <1>8, <1>14 DEF TakesRows
  <2>3. TypeOK'
    BY <1>1, <1>11, <1>12, <2>0, <2>1 DEF TypeOK, shipmentVars, itemVars
  <2>4. \A m \in Manifests : m # t => manifestItems'[m] = manifestItems[m]
    BY <2>1, <1>1 DEF TypeOK
  <2>5. Kept'
    BY <1>1, <1>11 DEF Kept
  <2>6. SealedFull'
    BY <1>1, <1>11, <2>1 DEF SealedFull, Aboard
  <2>7. SnapshotIsCargo'
    <3>1. ASSUME NEW m \in Manifests, m # t PROVE CargoOf(m)' = CargoOf(m)
      <4>1. ContainersOn(m)' = ContainersOn(m)
        BY <1>11 DEF ContainersOn
      <4> QED
        BY <2>1, <2>4, <3>1, <4>1, SameCargo
    <3> QED
      BY <1>1, <1>11, <2>2, <3>1 DEF SnapshotIsCargo
  <2> QED
    BY <2>3, <2>5, <2>6, <2>7
<1>15. PICK r : r = <<>> \o Tail(q)
  OBVIOUS
<1>16. Planned(r)'
  <2>0. PICK w \in Seq(Steps) : w = <<>>
    <3>1. <<>> \in Seq(Steps)
      OBVIOUS
    <3> QED
      BY <3>1
  <2>1. r \in Seq(Steps)
    BY <1>4, <1>15, <2>0, Rest
  <2>2. \A n \in DOMAIN r : ~ (r[n] \in RowWrites /\ r[n].op = "remove")
    <3>1. \A n \in DOMAIN w : w[n] \notin RowWrites
      BY <2>0
    <3> QED
      BY <1>4, <1>15, <2>0, <3>1, RowsGone
  <2>3. \A n \in DOMAIN r : \E l \in DOMAIN q : r[n] = q[l]
    BY <1>4, <1>15, <2>0, Rest
  <2>4. Stows(r)'
    <3>1. TakesRows(t)'
      BY <1>8, <1>11 DEF TakesRows
    <3>2. \A n \in DOMAIN r : Light(r[n]) \/ About(t, r[n])
      BY <1>8, <2>3
    <3> QED
      BY <1>8, <3>1, <3>2 DEF Stows
  <2> QED
    BY <2>1, <2>2, <2>4 DEF Planned, RowsThere
<1> QED
  BY <1>3, <1>11, <1>13, <1>14, <1>15, <1>16, GoesOn

\* What was right to write first, and nothing but items and shipments after it.
LEMMA OnceThen ==
  ASSUME NEW q \in Seq(Steps), q # <<>>, Once(q), NEW r, r = <<>> \o Tail(q)
  PROVE  Planned(r)'
<1>1. <<>> \in Seq(Steps)
  OBVIOUS
<1>2. PICK w \in Seq(Steps) : w = <<>>
  BY <1>1
<1>3. DOMAIN w = {}
  BY <1>2
<1>4. r = w \o Tail(q)
  BY <1>2
<1>5. r \in Seq(Steps) /\ \A n \in DOMAIN r : \E l \in DOMAIN q : l # 1 /\ r[n] = q[l]
  BY <1>3, <1>4, Rest
<1>6. \A n \in DOMAIN r : Light(r[n])
  BY <1>5 DEF Once
<1> QED
  BY <1>5, <1>6, OnlyLight

LEMMA CountStep ==
  ASSUME Tidy, OneRequest, NEW k \in Workers, DoCount(k)
  PROVE  Tidy'
<1>1. Step(k, "count")
  BY DEF DoCount
<1>2. PICK q : q = todo[k]
  OBVIOUS
<1>3. q \in Seq(Steps) /\ q # <<>> /\ Planned(q) /\ 1 \in DOMAIN q
  BY <1>1, <1>2, AtWork
<1>4. PICK st \in Steps : st = q[1] /\ st.op = "count" /\ Head(q) = st
  BY <1>1, <1>2, AtWork
<1>5. ~ Light(st) /\ ~ Right(st)
  BY <1>4, Apart
<1>6. ~ Moving(q)
  <2> SUFFICES ASSUME NEW m \in Manifests, NEW from, NEW to, NEW p \in DOMAIN q,
                      Move(m, from, to, q, p)
               PROVE  FALSE
    BY DEF Moving
  <2>1. st = SetManifest(m, to) \/ \E c \in ContainersOn(m) : st = SetContainer(c, to)
    BY <1>3, <1>4, <1>5 DEF Move
  <2>2. SetManifest(m, to).op = "manifest" /\ \A c : SetContainer(c, to).op = "container"
    BY DEF SetManifest, SetContainer
  <2>3. st.op \in {"manifest", "container"}
    BY <2>1, <2>2
  <2> QED
    BY <1>4, <2>3
<1>7. Stows(q)
  BY <1>3, <1>4, <1>5, <1>6 DEF Planned, Once
<1>8. PICK t \in Containers \cup Manifests :
        TakesRows(t) /\ \A n \in DOMAIN q : Light(q[n]) \/ About(t, q[n])
  BY <1>7 DEF Stows
<1>9. t \in Containers /\ st = CountRows(t)
  <2>1. About(t, st)
    BY <1>3, <1>4, <1>5, <1>8
  <2>2. \A to : SetContainer(t, to).op = "container"
    BY DEF SetContainer
  <2>3. st \notin RowWrites /\ \A to : st # SetContainer(t, to)
    BY <1>4, <2>2, Apart
  <2> QED
    BY <2>1, <2>3 DEF About
<1>10. PICK b \in Steps : b = SetContainer(t, "BOOKED")
  BY <1>9, StepTypes DEF ContainerStatuses
<1>11. <<b>> \in Seq(Steps) /\ <<>> \in Seq(Steps)
  OBVIOUS
<1>12. PICK w \in Seq(Steps) : w = IF Aboard(t) = {} THEN <<b>> ELSE <<>>
  BY <1>11
<1>13. Then(k, w) /\ UNCHANGED vars
  <2>1. st.container = t
    BY <1>9 DEF CountRows
  <2> QED
    BY <1>2, <1>4, <1>10, <1>12, <2>1 DEF DoCount
<1>14. PICK r : r = w \o Tail(q)
  OBVIOUS
<1>15. \A n \in DOMAIN w : w[n] = b
  BY <1>12
<1>16. About(t, b) /\ b \notin RowWrites
  <2>1. b.op = "container"
    BY <1>10 DEF SetContainer
  <2>2. b \notin RowWrites
    BY <2>1, Apart
  <2> QED
    BY <1>9, <1>10, <2>2 DEF About, Opened
<1>17. r \in Seq(Steps) /\ \A n \in DOMAIN r : r[n] = b \/ \E l \in DOMAIN q : r[n] = q[l]
  BY <1>3, <1>14, <1>15, Rest
<1>18. \A n \in DOMAIN r : ~ (r[n] \in RowWrites /\ r[n].op = "remove")
  <2>1. \A n \in DOMAIN w : w[n] \notin RowWrites
    BY <1>15, <1>16
  <2> QED
    BY <1>3, <1>14, <2>1, RowsGone
<1>19. Stows(r)
  <2>1. \A n \in DOMAIN r : Light(r[n]) \/ About(t, r[n])
    BY <1>8, <1>16, <1>17
  <2> QED
    BY <1>8, <2>1 DEF Stows
<1>20. Planned(r)
  BY <1>17, <1>18, <1>19 DEF Planned, RowsThere
<1>21. TypeOK' /\ UNCHANGED <<containerVars, manifestVars>>
  BY <1>13 DEF Tidy, RequestsTypeOK, TypeOK, vars, shipmentVars, itemVars, containerVars,
       manifestVars
<1>22. Planned(r)' /\ Kept' /\ SealedFull' /\ SnapshotIsCargo'
  BY <1>20, <1>21, StayRight DEF Tidy
<1> QED
  BY <1>2, <1>13, <1>14, <1>21, <1>22, GoesOn

\* A container's status, or the manifest it is on.
LEMMA ContainerWritten ==
  ASSUME Tidy, OneRequest, NEW k \in Workers, DoContainer(k)
  PROVE  Tidy'
<1>1. TypeOK /\ SnapshotIsCargo /\ Kept /\ SealedFull
  BY DEF Tidy, RequestsTypeOK
<1>2. PICK op \in {"container", "manifestId"} : Step(k, op)
  BY DEF DoContainer
<1>3. PICK q : q = todo[k]
  OBVIOUS
<1>4. q \in Seq(Steps) /\ q # <<>> /\ Planned(q) /\ 1 \in DOMAIN q
  BY <1>2, <1>3, AtWork
<1>5. PICK st \in Steps : st = q[1] /\ st.op = op /\ Head(q) = st
  BY <1>2, <1>3, AtWork
<1>6. /\ Then(k, <<>>)
      /\ UNCHANGED <<shipmentVars, itemVars, containerItems, manifestVars>>
  BY DEF DoContainer
<1>7. PICK r : r = <<>> \o Tail(q)
  OBVIOUS
<1>8. ASSUME NEW c \in Containers, NEW to, st = SetContainer(c, to)
      PROVE  containerStatus' = [containerStatus EXCEPT ![c] = to] /\ UNCHANGED manifestId
  <2>1. st.op = "container" /\ st.container = c /\ st.to = to
    BY <1>8 DEF SetContainer
  <2> QED
    BY <1>3, <1>5, <2>1 DEF DoContainer
<1>9. ASSUME NEW c \in Containers, NEW to, st = SetManifestId(c, to)
      PROVE  manifestId' = [manifestId EXCEPT ![c] = to] /\ UNCHANGED containerStatus
  <2>1. st.op = "manifestId" /\ st.container = c /\ st.to = to
    BY <1>9 DEF SetManifestId
  <2> QED
    BY <1>3, <1>5, <2>1 DEF DoContainer
<1>10. ~ Light(st)
  BY <1>5, Apart
<1>11. \A c \in Containers : Aboard(c)' = Aboard(c)
  BY <1>6 DEF Aboard
\* While the containers of what was finalized stay on it, its cargo is the same.
<1>12. ASSUME UNCHANGED manifestId PROVE SnapshotIsCargo'
  <2>1. \A m \in Manifests : CargoOf(m)' = CargoOf(m)
    BY <1>6, <1>12, SameCargo DEF ContainersOn, manifestVars
  <2> QED
    BY <1>1, <1>6, <2>1 DEF SnapshotIsCargo, manifestVars
<1>13. ASSUME NEW c \in Containers, NEW to \in ContainerStatuses, st = SetContainer(c, to),
              to = "LOADED" => Aboard(c) # {},
              manifestId[c] # None => to \in Keeps(manifestStatus[manifestId[c]])
       PROVE  TypeOK' /\ Kept' /\ SealedFull' /\ SnapshotIsCargo'
  <2>1. containerStatus' = [containerStatus EXCEPT ![c] = to] /\ UNCHANGED manifestId
    BY <1>8, <1>13
  <2>2. TypeOK'
    BY <1>1, <1>6, <2>1 DEF TypeOK, shipmentVars, itemVars, manifestVars
  <2>3. /\ containerStatus'[c] = to
        /\ \A d \in Containers \ {c} : containerStatus'[d] = containerStatus[d]
    BY <1>1, <2>1 DEF TypeOK
  <2>4. Kept'
    <3> SUFFICES ASSUME NEW d \in Containers, manifestId[d] # None
                 PROVE  /\ ModeOf[manifestId[d]] = "OCEAN"
                        /\ containerStatus'[d] \in Keeps(manifestStatus[manifestId[d]])
      BY <1>6, <2>1 DEF Kept, Keeps, manifestVars
    <3> QED
      BY <1>1, <1>13, <2>3 DEF Kept
  <2>5. SealedFull'
    BY <1>1, <1>11, <1>13, <2>3 DEF SealedFull
  <2> QED
    BY <1>12, <2>1, <2>2, <2>4, <2>5
<1>14. ASSUME NEW c \in Containers, NEW to \in Manifests \cup {None}, st = SetManifestId(c, to),
              to # None => /\ ModeOf[to] = "OCEAN" /\ manifestStatus[to] = "DRAFT"
                           /\ containerStatus[c] = "LOADED",
              manifestId[c] = None \/ manifestStatus[manifestId[c]] = "DRAFT"
       PROVE  TypeOK' /\ Kept' /\ SealedFull' /\ SnapshotIsCargo'
  <2>1. manifestId' = [manifestId EXCEPT ![c] = to] /\ UNCHANGED containerStatus
    BY <1>9, <1>14
  <2>2. TypeOK'
    BY <1>1, <1>6, <2>1 DEF TypeOK, shipmentVars, itemVars, manifestVars
  <2>3. manifestId'[c] = to /\ \A d \in Containers \ {c} : manifestId'[d] = manifestId[d]
    BY <1>1, <2>1 DEF TypeOK
  <2>4. Kept'
    <3> SUFFICES ASSUME NEW d \in Containers, manifestId'[d] # None
                 PROVE  /\ ModeOf[manifestId'[d]] = "OCEAN"
                        /\ containerStatus[d] \in Keeps(manifestStatus[manifestId'[d]])
      BY <1>6, <2>1 DEF Kept, Keeps, manifestVars
    <3>1. CASE d = c
      BY <1>14, <2>3, <3>1 DEF Keeps
    <3>2. CASE d # c
      BY <1>1, <2>3, <3>2 DEF Kept
    <3> QED
      BY <3>1, <3>2
  <2>5. SealedFull'
    BY <1>1, <1>11, <2>1 DEF SealedFull
  <2>6. SnapshotIsCargo'
    <3>1. ASSUME NEW m \in Manifests, manifestStatus[m] \in {"FINALIZED", "DEPARTED", "ARRIVED"}
          PROVE  CargoOf(m)' = CargoOf(m)
      <4>1. m # None
        BY NoneAssumption
      <4>2. manifestId[c] # m /\ manifestId'[c] # m
        BY <1>14, <2>3, <3>1, <4>1
      <4>3. ContainersOn(m)' = ContainersOn(m)
        BY <2>3, <4>2 DEF ContainersOn
      <4> QED
        BY <1>6, <4>3, SameCargo DEF manifestVars
    <3> QED
      BY <1>1, <1>6, <3>1 DEF SnapshotIsCargo, manifestVars
  <2> QED
    BY <2>2, <2>4, <2>5, <2>6
<1>15. CASE Stows(q)
  <2>1. PICK t \in Containers \cup Manifests :
          TakesRows(t) /\ \A n \in DOMAIN q : Light(q[n]) \/ About(t, q[n])
    BY <1>15 DEF Stows
  <2>2. PICK to \in Opened : t \in Containers /\ st = SetContainer(t, to)
    <3>1. About(t, st)
      BY <1>4, <1>5, <1>10, <2>1
    <3>2. st \notin RowWrites
      BY <1>5, Apart
    <3>3. CountRows(t).op = "count"
      BY DEF CountRows
    <3>4. st # CountRows(t)
      BY <1>5, <3>3
    <3> QED
      BY <3>1, <3>2, <3>4 DEF About
  <2>3. t \notin Manifests /\ containerStatus[t] \in Opened
    BY <2>1, <2>2, TransportAssumption DEF TakesRows
  <2>4. manifestId[t] = None
    BY <1>1, <2>2, <2>3 DEF Kept, Keeps, Opened, Landed
  <2>5. to \in ContainerStatuses /\ to # "LOADED"
    BY DEF Opened, ContainerStatuses
  <2>6. TypeOK' /\ Kept' /\ SealedFull' /\ SnapshotIsCargo'
    BY <1>13, <2>2, <2>4, <2>5
  <2>7. TakesRows(t)'
    BY <1>1, <1>8, <2>2 DEF TakesRows, TypeOK
  <2>8. <<>> \in Seq(Steps)
    OBVIOUS
  <2>9. PICK w \in Seq(Steps) : w = <<>>
    BY <2>8
  <2>10. r = w \o Tail(q) /\ DOMAIN w = {}
    BY <1>7, <2>9
  <2>11. r \in Seq(Steps) /\ \A n \in DOMAIN r : \E l \in DOMAIN q : r[n] = q[l]
    BY <1>4, <2>10, Rest
  <2>12. \A n \in DOMAIN r : ~ (r[n] \in RowWrites /\ r[n].op = "remove")
    <3>1. \A n \in DOMAIN w : w[n] \notin RowWrites
      BY <2>10
    <3> QED
      BY <1>4, <2>10, <3>1, RowsGone
  <2>13. \A n \in DOMAIN r : Light(r[n]) \/ About(t, r[n])
    BY <2>1, <2>11
  <2>14. Planned(r)'
    BY <2>1, <2>7, <2>11, <2>12, <2>13 DEF Planned, RowsThere, Stows
  <2> QED
    BY <1>3, <1>6, <1>7, <2>6, <2>14, GoesOn
<1>16. CASE Once(q)
  <2>1. Right(st)
    BY <1>5, <1>16 DEF Once
  <2>2. Planned(r)'
    BY <1>4, <1>7, <1>16, OnceThen
  <2>3. TypeOK' /\ Kept' /\ SealedFull' /\ SnapshotIsCargo'
    <3>1. ASSUME NEW c \in Containers, st = SetContainer(c, "LOADED"),
                 containerStatus[c] = "LOADING", Aboard(c) # {}
          PROVE  TypeOK' /\ Kept' /\ SealedFull' /\ SnapshotIsCargo'
      <4>1. manifestId[c] = None
        BY <1>1, <3>1 DEF Kept, Keeps, Landed
      <4>2. PICK to \in ContainerStatuses : to = "LOADED"
        BY DEF ContainerStatuses
      <4> QED
        BY <1>13, <3>1, <4>1, <4>2
    <3>2. ASSUME NEW c \in Containers, NEW to \in {"UNLOADING", "CLOSED"},
                 st = SetContainer(c, to),
                 containerStatus[c] \in {"ARRIVED", "UNLOADING"}
          PROVE  TypeOK' /\ Kept' /\ SealedFull' /\ SnapshotIsCargo'
      <4>1. manifestId[c] # None => to \in Keeps(manifestStatus[manifestId[c]])
        BY <1>1, <3>2 DEF Kept, Keeps, Landed
      <4>2. to \in ContainerStatuses /\ to # "LOADED"
        BY DEF ContainerStatuses
      <4> QED
        BY <1>13, <3>2, <4>1, <4>2
    <3>3. ASSUME NEW c \in Containers, NEW m \in Manifests,
                 manifestStatus[m] = "DRAFT", ModeOf[m] = "OCEAN",
                 \/ /\ st = SetManifestId(c, m)
                    /\ containerStatus[c] = "LOADED" /\ manifestId[c] = None
                 \/ st = SetManifestId(c, None) /\ manifestId[c] = m
          PROVE  TypeOK' /\ Kept' /\ SealedFull' /\ SnapshotIsCargo'
      <4>1. PICK to \in Manifests \cup {None} :
              st = SetManifestId(c, to)
                /\ ((to = m /\ containerStatus[c] = "LOADED") \/ to = None)
        BY <3>3
      <4> QED
        BY <1>14, <3>3, <4>1
    <3>4. \A m : st # Freeze(m, CargoOf(m))
      <4>1. \A m, I : Freeze(m, I).op = "freeze"
        BY DEF Freeze
      <4> QED
        BY <1>5, <4>1
    <3> QED
      BY <2>1, <3>1, <3>2, <3>3, <3>4 DEF Right
  <2> QED
    BY <1>3, <1>6, <1>7, <2>2, <2>3, GoesOn
<1>17. CASE Moving(q)
  <2>0. PICK m \in Manifests, p \in DOMAIN q :
          \E from, to : /\ <<from, to>> \in {<<"FINALIZED", "DEPARTED">>, <<"DEPARTED", "ARRIVED">>}
                        /\ Move(m, from, to, q, p)
    <3>1. PICK m \in Manifests, p \in DOMAIN q :
            Move(m, "FINALIZED", "DEPARTED", q, p) \/ Move(m, "DEPARTED", "ARRIVED", q, p)
      BY <1>17 DEF Moving
    <3>2. CASE Move(m, "FINALIZED", "DEPARTED", q, p)
      <4>1. PICK from, to : from = "FINALIZED" /\ to = "DEPARTED"
        OBVIOUS
      <4>2. <<from, to>> \in {<<"FINALIZED", "DEPARTED">>, <<"DEPARTED", "ARRIVED">>}
        BY <4>1
      <4>3. Move(m, from, to, q, p)
        BY <3>2, <4>1
      <4> QED
        BY <4>2, <4>3
    <3>3. CASE Move(m, "DEPARTED", "ARRIVED", q, p)
      <4>1. PICK from, to : from = "DEPARTED" /\ to = "ARRIVED"
        OBVIOUS
      <4>2. <<from, to>> \in {<<"FINALIZED", "DEPARTED">>, <<"DEPARTED", "ARRIVED">>}
        BY <4>1
      <4>3. Move(m, from, to, q, p)
        BY <3>3, <4>1
      <4> QED
        BY <4>2, <4>3
    <3> QED
      BY <3>1, <3>2, <3>3
  <2>1. PICK from, to :
          /\ <<from, to>> \in {<<"FINALIZED", "DEPARTED">>, <<"DEPARTED", "ARRIVED">>}
          /\ Move(m, from, to, q, p)
    BY <2>0
  <2>2. st # SetManifest(m, to)
    <3>1. SetManifest(m, to).op = "manifest"
      BY DEF SetManifest
    <3> QED
      BY <1>5, <3>1
  <2>3. p # 1
    BY <1>5, <2>1, <2>2 DEF Move
  <2>4. PICK c \in ContainersOn(m) : st = SetContainer(c, to)
    BY <1>4, <1>5, <1>10, <2>1, <2>3 DEF Move
  <2>5. c \in Containers /\ manifestId[c] = m /\ manifestStatus[m] = from
    BY <2>1, <2>4 DEF ContainersOn, Move
  <2>6. to \in ContainerStatuses /\ to # "LOADED" /\ to \in Keeps(from)
    BY <2>1 DEF ContainerStatuses, Keeps, Landed
  <2>7. TypeOK' /\ Kept' /\ SealedFull' /\ SnapshotIsCargo'
    BY <1>13, <2>4, <2>5, <2>6
  <2>8. containerStatus' = [containerStatus EXCEPT ![c] = to] /\ UNCHANGED manifestId
    BY <1>8, <2>4, <2>5
  <2>9. /\ ContainersOn(m)' = ContainersOn(m) /\ manifestStatus' = manifestStatus
        /\ containerStatus'[c] = to
        /\ \A d \in Containers \ {c} : containerStatus'[d] = containerStatus[d]
    BY <1>1, <1>6, <2>5, <2>8 DEF ContainersOn, manifestVars, TypeOK
  <2>10. <<>> \in Seq(Steps)
    OBVIOUS
  <2>11. PICK w \in Seq(Steps) : w = <<>>
    BY <2>10
  <2>12. r = w \o Tail(q) /\ DOMAIN w = {} /\ Len(w) = 0
    BY <1>7, <2>11
  <2>13. /\ r \in Seq(Steps) /\ Len(q) \in Nat /\ DOMAIN q = 1 .. Len(q)
         /\ \A n \in DOMAIN q : n # 1 => 0 + n - 1 \in DOMAIN r /\ r[0 + n - 1] = q[n]
         /\ \A n \in DOMAIN r : n - 0 + 1 \in DOMAIN q /\ n - 0 + 1 # 1 /\ r[n] = q[n - 0 + 1]
         /\ DOMAIN r = 1 .. 0 + Len(q) - 1
    BY <1>4, <2>12, Rest
  <2>14. \A n \in DOMAIN r : ~ (r[n] \in RowWrites /\ r[n].op = "remove")
    <3>1. \A n \in DOMAIN w : w[n] \notin RowWrites
      BY <2>12
    <3> QED
      BY <1>4, <2>12, <3>1, RowsGone
  <2>15. PICK o : o = p - 1
    OBVIOUS
  <2>16. o \in DOMAIN r /\ r[o] = SetManifest(m, to) /\ p \in Nat /\ o + 1 = p
    <3>1. p \in Nat /\ 0 + p - 1 = o /\ o + 1 = p
      BY <2>13, <2>15
    <3>2. 0 + p - 1 \in DOMAIN r /\ r[0 + p - 1] = q[p]
      BY <2>3, <2>13
    <3> QED
      BY <2>1, <3>1, <3>2 DEF Move
  <2>17. ASSUME NEW n \in DOMAIN r
         PROVE  Light(r[n]) \/ n = o
                  \/ (n < o /\ \E d \in ContainersOn(m) : r[n] = SetContainer(d, to))
    <3>1. PICK l \in DOMAIN q : l = n - 0 + 1 /\ r[n] = q[l]
      BY <2>13
    <3>2. n \in Nat /\ l = n + 1
      BY <2>13, <3>1
    <3>3. (l = p => n = o) /\ (l < p => n < o)
      BY <2>16, <3>2, <2>15
    <3> QED
      BY <2>1, <3>1, <3>3 DEF Move
  <2>18. ASSUME NEW d \in ContainersOn(m), containerStatus'[d] # to
         PROVE  \E n \in DOMAIN r : n < o /\ r[n] = SetContainer(d, to)
    <3>1. d # c /\ containerStatus[d] # to /\ d \in Containers
      BY <2>9, <2>18 DEF ContainersOn
    <3>2. PICK l \in DOMAIN q : l < p /\ q[l] = SetContainer(d, to)
      BY <2>1, <3>1 DEF Move
    <3>3. l # 1
      <4>1. SetContainer(d, to).container = d /\ SetContainer(c, to).container = c
        BY DEF SetContainer
      <4> QED
        BY <1>5, <2>4, <3>1, <3>2, <4>1
    <3>4. PICK n \in DOMAIN r : n = 0 + l - 1 /\ r[n] = q[l]
      BY <2>13, <3>3
    <3>5. n < o
      BY <2>13, <2>15, <2>16, <3>2, <3>4
    <3> QED
      BY <3>2, <3>4, <3>5
  <2>19. Move(m, from, to, r, o)'
    BY <2>5, <2>9, <2>16, <2>17, <2>18 DEF Move
  <2>20. Moving(r)'
    BY <2>1, <2>16, <2>19 DEF Moving
  <2>21. Planned(r)'
    BY <2>13, <2>14, <2>20 DEF Planned, RowsThere
  <2> QED
    BY <1>3, <1>6, <1>7, <2>7, <2>21, GoesOn
<1>18. ~ \A n \in DOMAIN q : Light(q[n])
  BY <1>4, <1>5, <1>10
<1> QED
  BY <1>4, <1>15, <1>16, <1>17, <1>18 DEF Planned

\* A manifest's status, when its containers are all where it says, or its snapshot.
LEMMA ManifestWritten ==
  ASSUME Tidy, OneRequest, NEW k \in Workers, DoManifest(k)
  PROVE  Tidy'
<1>1. TypeOK /\ SnapshotIsCargo /\ Kept /\ SealedFull
  BY DEF Tidy, RequestsTypeOK
<1>2. PICK op \in {"manifest", "freeze"} : Step(k, op)
  BY DEF DoManifest
<1>3. PICK q : q = todo[k]
  OBVIOUS
<1>4. q \in Seq(Steps) /\ q # <<>> /\ Planned(q) /\ 1 \in DOMAIN q
  BY <1>2, <1>3, AtWork
<1>5. PICK st \in Steps : st = q[1] /\ st.op = op /\ Head(q) = st
  BY <1>2, <1>3, AtWork
<1>6. /\ Then(k, <<>>)
      /\ UNCHANGED <<shipmentVars, itemVars, containerVars, manifestItems>>
  BY DEF DoManifest
<1>7. PICK r : r = <<>> \o Tail(q)
  OBVIOUS
<1>8. /\ manifestStatus' = [manifestStatus EXCEPT
                              ![st.manifest] = IF st.op = "freeze" THEN "FINALIZED" ELSE st.to]
      /\ snapshot' = [snapshot EXCEPT ![st.manifest] = IF st.op = "freeze" THEN st.items ELSE @]
  BY <1>3, <1>5 DEF DoManifest
<1>9. ~ Light(st) /\ \A t : ~ About(t, st)
  BY <1>5, Apart
<1>10. ~ Stows(q) /\ ~ \A n \in DOMAIN q : Light(q[n])
  BY <1>4, <1>5, <1>9 DEF Stows
<1>11. SealedFull' /\ \A m \in Manifests : CargoOf(m)' = CargoOf(m)
  <2>1. \A m \in Manifests : CargoOf(m)' = CargoOf(m)
    BY <1>6, SameCargo DEF ContainersOn, containerVars
  <2>2. SealedFull'
    BY <1>1, <1>6 DEF SealedFull, Aboard, containerVars
  <2> QED
    BY <2>1, <2>2
<1>12. ASSUME NEW m \in Manifests, NEW to \in ManifestStatuses, NEW I \in SUBSET Items,
              manifestStatus' = [manifestStatus EXCEPT ![m] = to],
              snapshot' = [snapshot EXCEPT ![m] = I],
              I = CargoOf(m), I # {},
              \A c \in ContainersOn(m) : containerStatus[c] \in Keeps(to)
       PROVE  TypeOK' /\ Kept' /\ SnapshotIsCargo'
  <2>1. TypeOK'
    BY <1>1, <1>6, <1>12 DEF TypeOK, shipmentVars, itemVars, containerVars
  <2>2. /\ manifestStatus'[m] = to /\ snapshot'[m] = I
        /\ \A o \in Manifests \ {m} :
             manifestStatus'[o] = manifestStatus[o] /\ snapshot'[o] = snapshot[o]
    BY <1>1, <1>12 DEF TypeOK
  <2>3. Kept'
    <3> SUFFICES ASSUME NEW c \in Containers, manifestId[c] # None
                 PROVE  /\ ModeOf[manifestId[c]] = "OCEAN"
                        /\ containerStatus[c] \in Keeps(manifestStatus'[manifestId[c]])
      BY <1>6 DEF Kept, Keeps, containerVars
    <3>1. manifestId[c] \in Manifests
      BY <1>1 DEF TypeOK
    <3>2. /\ ModeOf[manifestId[c]] = "OCEAN"
          /\ containerStatus[c] \in Keeps(manifestStatus[manifestId[c]])
      BY <1>1 DEF Kept
    <3>3. CASE manifestId[c] = m
      BY <1>12, <2>2, <3>2, <3>3 DEF ContainersOn
    <3>4. CASE manifestId[c] # m
      BY <2>2, <3>1, <3>2, <3>4
    <3> QED
      BY <3>3, <3>4
  <2>4. SnapshotIsCargo'
    BY <1>1, <1>11, <1>12, <2>2 DEF SnapshotIsCargo
  <2> QED
    BY <2>1, <2>3, <2>4
<1>13. CASE Once(q)
  <2>1. PICK m \in Manifests :
          st = Freeze(m, CargoOf(m)) /\ manifestStatus[m] = "DRAFT" /\ CargoOf(m) # {}
    <3>1. Right(st)
      BY <1>5, <1>13 DEF Once
    <3>2. \A c, to : SetContainer(c, to).op = "container" /\ SetManifestId(c, to).op = "manifestId"
      BY DEF SetContainer, SetManifestId
    <3>3. \A c, to : st # SetContainer(c, to) /\ st # SetManifestId(c, to)
      BY <1>5, <3>2
    <3> QED
      BY <3>1, <3>3 DEF Right
  <2>2. CargoOf(m) \in SUBSET Items
    BY DEF CargoOf, Listed, Aboard
  <2>3. PICK I \in SUBSET Items : I = CargoOf(m)
    BY <2>2
  <2>4. st.op = "freeze" /\ st.manifest = m /\ st.items = I
    BY <2>1, <2>3 DEF Freeze
  <2>5. PICK to \in ManifestStatuses : to = "FINALIZED"
    BY DEF ManifestStatuses
  <2>6. /\ manifestStatus' = [manifestStatus EXCEPT ![m] = to]
        /\ snapshot' = [snapshot EXCEPT ![m] = I]
    BY <1>8, <2>4, <2>5
  <2>7. \A c \in ContainersOn(m) : containerStatus[c] \in Keeps(to)
    BY <1>1, <2>1, <2>5, NoneAssumption DEF Kept, Keeps, ContainersOn
  <2>8. TypeOK' /\ Kept' /\ SnapshotIsCargo'
    BY <1>12, <2>1, <2>3, <2>6, <2>7
  <2>9. Planned(r)'
    BY <1>4, <1>7, <1>13, OnceThen
  <2> QED
    BY <1>3, <1>6, <1>7, <1>11, <2>8, <2>9, GoesOn
<1>14. CASE Moving(q)
  <2>0. PICK m \in Manifests, p \in DOMAIN q :
          \E from, to : /\ <<from, to>> \in {<<"FINALIZED", "DEPARTED">>, <<"DEPARTED", "ARRIVED">>}
                        /\ Move(m, from, to, q, p)
    <3>1. PICK m \in Manifests, p \in DOMAIN q :
            Move(m, "FINALIZED", "DEPARTED", q, p) \/ Move(m, "DEPARTED", "ARRIVED", q, p)
      BY <1>14 DEF Moving
    <3>2. CASE Move(m, "FINALIZED", "DEPARTED", q, p)
      <4>1. PICK from, to : from = "FINALIZED" /\ to = "DEPARTED"
        OBVIOUS
      <4>2. <<from, to>> \in {<<"FINALIZED", "DEPARTED">>, <<"DEPARTED", "ARRIVED">>}
        BY <4>1
      <4>3. Move(m, from, to, q, p)
        BY <3>2, <4>1
      <4> QED
        BY <4>2, <4>3
    <3>3. CASE Move(m, "DEPARTED", "ARRIVED", q, p)
      <4>1. PICK from, to : from = "DEPARTED" /\ to = "ARRIVED"
        OBVIOUS
      <4>2. <<from, to>> \in {<<"FINALIZED", "DEPARTED">>, <<"DEPARTED", "ARRIVED">>}
        BY <4>1
      <4>3. Move(m, from, to, q, p)
        BY <3>3, <4>1
      <4> QED
        BY <4>2, <4>3
    <3> QED
      BY <3>1, <3>2, <3>3
  <2>1. PICK from, to :
          /\ <<from, to>> \in {<<"FINALIZED", "DEPARTED">>, <<"DEPARTED", "ARRIVED">>}
          /\ Move(m, from, to, q, p)
    BY <2>0
  <2>2. \A c : st # SetContainer(c, to)
    <3>1. \A c : SetContainer(c, to).op = "container"
      BY DEF SetContainer
    <3> QED
      BY <1>5, <3>1
  <2>3. p = 1
    BY <1>4, <1>5, <1>9, <2>1, <2>2 DEF Move
  <2>4. \A n \in DOMAIN q : n \in Nat /\ n >= 1
    BY <1>4
  <2>5. st = SetManifest(m, to) /\ manifestStatus[m] = from
    BY <1>5, <2>1, <2>3 DEF Move
  <2>6. \A c \in ContainersOn(m) : containerStatus[c] = to
    BY <2>1, <2>3, <2>4 DEF Move
  <2>7. \A n \in DOMAIN q : n # 1 => Light(q[n])
    BY <2>1, <2>3, <2>4 DEF Move
  <2>8. snapshot[m] = CargoOf(m) /\ snapshot[m] # {} /\ snapshot[m] \in SUBSET Items
    BY <1>1, <2>1, <2>5 DEF SnapshotIsCargo, TypeOK
  <2>9. st.op = "manifest" /\ st.manifest = m /\ st.to = to
    BY <2>5 DEF SetManifest
  <2>10. manifestStatus' = [manifestStatus EXCEPT ![m] = to]
           /\ snapshot' = [snapshot EXCEPT ![m] = snapshot[m]]
    BY <1>8, <2>9
  <2>11. to \in ManifestStatuses /\ to \in Keeps(to)
    BY <2>1 DEF ManifestStatuses, Keeps, Landed
  <2>12. PICK I \in SUBSET Items : I = snapshot[m]
    BY <2>8
  <2>13. TypeOK' /\ Kept' /\ SnapshotIsCargo'
    BY <1>12, <2>6, <2>8, <2>10, <2>11, <2>12
  <2>14. <<>> \in Seq(Steps)
    OBVIOUS
  <2>15. PICK w \in Seq(Steps) : w = <<>>
    BY <2>14
  <2>16. r = w \o Tail(q) /\ DOMAIN w = {}
    BY <1>7, <2>15
  <2>17. r \in Seq(Steps) /\ \A n \in DOMAIN r : \E l \in DOMAIN q : l # 1 /\ r[n] = q[l]
    BY <1>4, <2>16, Rest
  <2>18. \A n \in DOMAIN r : Light(r[n])
    BY <2>7, <2>17
  <2>19. Planned(r)'
    BY <2>17, <2>18, OnlyLight
  <2> QED
    BY <1>3, <1>6, <1>7, <1>11, <2>13, <2>19, GoesOn
<1> QED
  BY <1>4, <1>10, <1>13, <1>14 DEF Planned

\* A request that ends early leaves nothing to do.
LEMMA CutShort ==
  ASSUME Tidy, OneRequest, NEW k \in Workers, Fail(k)
  PROVE  Tidy'
<1>1. todo' = [todo EXCEPT ![k] = <<>>] /\ UNCHANGED vars
  BY DEF Fail
<1>2. failures' \in 0..MaxFailures
  BY FailuresAssumption DEF Fail, Tidy, RequestsTypeOK
<1>3. TypeOK' /\ UNCHANGED <<containerVars, manifestVars>>
  BY <1>1 DEF Tidy, RequestsTypeOK, TypeOK, vars, shipmentVars, itemVars, containerVars,
       manifestVars
<1>4. <<>> \in Seq(Steps)
  OBVIOUS
<1>5. PICK r \in Seq(Steps) : r = <<>>
  BY <1>4
<1>6. Planned(r)'
  <2>1. DOMAIN r = {}
    BY <1>5
  <2> QED
    BY <2>1, OnlyLight
<1>7. todo' \in [Workers -> Seq(Steps)] /\ \A j \in Workers : todo'[j] = r
  BY <1>1, <1>5 DEF Tidy, OneRequest
<1>8. \A j \in Workers : Planned(todo[j])'
  BY <1>6, <1>7
<1> QED
  BY <1>2, <1>3, <1>7, <1>8, StayRight DEF Tidy, RequestsTypeOK

\* A handler that writes once, while the worker is free.
LEMMA WrittenOnce ==
  ASSUME Tidy, OneRequest, SingleWrite
  PROVE  Tidy'
<1>1. PICK k \in Workers : todo[k] = <<>>
  BY DEF SingleWrite
<1>2. UNCHANGED <<todo, failures>>
  BY DEF SingleWrite
<1>3. TypeOK /\ SnapshotIsCargo /\ Kept /\ SealedFull
  BY DEF Tidy, RequestsTypeOK
<1>4. \A j \in Workers : Planned(todo[j])'
  <2>1. <<>> \in Seq(Steps)
    OBVIOUS
  <2>2. PICK r \in Seq(Steps) : r = <<>>
    BY <2>1
  <2>3. Planned(r)'
    <3>1. DOMAIN r = {}
      BY <2>2
    <3> QED
      BY <3>1, OnlyLight
  <2>4. \A j \in Workers : todo'[j] = r
    BY <1>1, <1>2, <2>2 DEF OneRequest
  <2> QED
    BY <2>3, <2>4
<1>5. TypeOK' /\ Kept' /\ SealedFull' /\ SnapshotIsCargo'
  <2>1. CASE ShipmentStep
    BY <1>3, <2>1, TypeShipment, OthersLeaveTransport, StayRight
  <2>2. ASSUME NEW c \in Containers, CreateContainer(c)
        PROVE  TypeOK' /\ Kept' /\ SealedFull' /\ SnapshotIsCargo'
    <3>1. TypeOK'
      BY <1>3, <2>2, TypeContainer DEF ContainerStep
    <3>2. /\ containerStatus[c] = NotCreated /\ containerStatus'[c] = "BOOKED"
          /\ \A d \in Containers \ {c} : containerStatus'[d] = containerStatus[d]
      BY <1>3, <2>2 DEF CreateContainer, TypeOK
    <3>3. UNCHANGED <<manifestId, containerItems, manifestVars>>
      BY <2>2 DEF CreateContainer
    <3>4. manifestId[c] = None
      BY <1>3, <3>2 DEF Kept, Keeps, Landed, NotCreated
    <3>5. Kept'
      <4> SUFFICES ASSUME NEW d \in Containers, manifestId[d] # None
                   PROVE  /\ ModeOf[manifestId[d]] = "OCEAN"
                          /\ containerStatus'[d] \in Keeps(manifestStatus[manifestId[d]])
        BY <3>3 DEF Kept, Keeps, manifestVars
      <4> QED
        BY <1>3, <3>2, <3>4 DEF Kept
    <3>6. SealedFull'
      BY <1>3, <3>2, <3>3 DEF SealedFull, Aboard
    <3>7. SnapshotIsCargo'
      <4>1. \A m \in Manifests : CargoOf(m)' = CargoOf(m)
        BY <3>3, SameCargo DEF ContainersOn, manifestVars
      <4> QED
        BY <1>3, <3>3, <4>1 DEF SnapshotIsCargo, manifestVars
    <3> QED
      BY <3>1, <3>5, <3>6, <3>7
  <2>3. ASSUME NEW m \in Manifests, CreateManifest(m)
        PROVE  TypeOK' /\ Kept' /\ SealedFull' /\ SnapshotIsCargo'
    <3>1. TypeOK'
      BY <1>3, <2>3, TypeManifest DEF ManifestStep
    <3>2. /\ manifestStatus[m] = NotCreated /\ manifestStatus'[m] = "DRAFT"
          /\ \A o \in Manifests \ {m} : manifestStatus'[o] = manifestStatus[o]
      BY <1>3, <2>3 DEF CreateManifest, TypeOK
    <3>3. UNCHANGED <<containerVars, manifestItems, snapshot>>
      BY <2>3 DEF CreateManifest
    <3>4. \A c \in Containers : manifestId[c] # m
      BY <1>3, <3>2, NoneAssumption DEF Kept, Keeps, NotCreated
    <3>5. Kept'
      <4> SUFFICES ASSUME NEW d \in Containers, manifestId[d] # None
                   PROVE  /\ ModeOf[manifestId[d]] = "OCEAN"
                          /\ containerStatus[d] \in Keeps(manifestStatus'[manifestId[d]])
        BY <3>3 DEF Kept, Keeps, containerVars
      <4>1. manifestId[d] \in Manifests \ {m}
        BY <1>3, <3>4 DEF TypeOK
      <4> QED
        BY <1>3, <3>2, <4>1 DEF Kept
    <3>6. SealedFull'
      BY <1>3, <3>3 DEF SealedFull, Aboard, containerVars
    <3>7. SnapshotIsCargo'
      <4>1. \A o \in Manifests : CargoOf(o)' = CargoOf(o)
        BY <3>3, SameCargo DEF ContainersOn, containerVars
      <4> QED
        BY <1>3, <3>2, <3>3, <4>1 DEF SnapshotIsCargo
    <3> QED
      BY <3>1, <3>5, <3>6, <3>7
  <2> QED
    BY <2>1, <2>2, <2>3 DEF SingleWrite
<1>6. todo' \in [Workers -> Seq(Steps)] /\ failures' \in 0..MaxFailures
  BY <1>2 DEF Tidy, RequestsTypeOK
<1> QED
  BY <1>4, <1>5, <1>6 DEF Tidy, RequestsTypeOK

-----------------------------------------------------------------------------
\* The invariant.

LEMMA TidyInit ==
  RequestsInit => Tidy
<1> SUFFICES ASSUME RequestsInit PROVE Tidy
  OBVIOUS
<1>1. Init /\ failures = 0 /\ todo = [k \in Workers |-> <<>>]
  BY DEF RequestsInit
<1>2. RequestsTypeOK
  BY <1>1, TypeInit, FailuresAssumption DEF RequestsTypeOK
<1>3. Kept /\ SealedFull /\ SnapshotIsCargo
  BY <1>1 DEF Init, Kept, SealedFull, SnapshotIsCargo, NotCreated
<1>4. <<>> \in Seq(Steps)
  OBVIOUS
<1>5. PICK r \in Seq(Steps) : r = <<>>
  BY <1>4
<1>6. Planned(r)
  <2>1. DOMAIN r = {}
    BY <1>5
  <2> QED
    BY <2>1, OnlyLight
<1>7. todo \in [Workers -> Seq(Steps)] /\ \A k \in Workers : Planned(todo[k])
  BY <1>1, <1>5, <1>6
<1> QED
  BY <1>2, <1>3, <1>7 DEF Tidy

LEMMA TidyStep ==
  ASSUME Tidy, OneRequest, [RequestsNext]_allVars
  PROVE  Tidy'
<1>1. CASE SingleWrite
  BY <1>1, WrittenOnce
<1>2. ASSUME NEW k \in Workers, BeginWarehouse(k) PROVE Tidy'
  BY <1>2, WarehouseBegins, Begun
<1>3. ASSUME NEW k \in Workers, BeginContainer(k) PROVE Tidy'
  BY <1>3, ContainerBegins, Begun
<1>4. ASSUME NEW k \in Workers, BeginManifest(k) PROVE Tidy'
  BY <1>4, ManifestBegins, Begun
<1>5. ASSUME NEW k \in Workers, DatabaseStep(k) PROVE Tidy'
  BY <1>5, ItemStep, ShipmentWrite, RowStep, CountStep, ContainerWritten, ManifestWritten
     DEF DatabaseStep
<1>6. ASSUME NEW k \in Workers, Fail(k) PROVE Tidy'
  BY <1>6, CutShort
<1>7. CASE UNCHANGED allVars
  <2>1. /\ UNCHANGED <<containerVars, manifestVars>> /\ todo' = todo /\ failures' = failures
        /\ TypeOK'
    BY <1>7 DEF Tidy, RequestsTypeOK, TypeOK, allVars, vars, shipmentVars, itemVars,
         containerVars, manifestVars
  <2>2. \A k \in Workers : Planned(todo[k])'
    BY <2>1, StayRight DEF Tidy
  <2> QED
    BY <2>1, <2>2, StayRight DEF Tidy, RequestsTypeOK
<1> QED
  BY <1>1, <1>2, <1>3, <1>4, <1>5, <1>6, <1>7 DEF RequestsNext

LEMMA TidyIsSafe ==
  Tidy => SafeBetweenWrites
BY DEF Tidy, SafeBetweenWrites, ManifestMarkedLast, Kept, Keeps, Landed

\* The tables and what the request in progress has still to write fit together,
\* before and after every write and wherever a request ends.
THEOREM TidyInvariant ==
  ASSUME OneRequest PROVE RequestsSpec => []Tidy
<1>1. ASSUME Tidy, [RequestsNext]_allVars PROVE Tidy'
  BY <1>1, TidyStep
<1> QED
  BY <1>1, TidyInit, PTL DEF RequestsSpec

\* Between any two database writes of ContainersService and ManifestsService, and
\* after a request was cut short there, no manifest is marked as finalized,
\* departed or arrived ahead of its containers, and its snapshot is its cargo:
\* requests may fail any number of times, as long as one is served at a time.
THEOREM SafeBetweenAnyWrites ==
  ASSUME OneRequest PROVE RequestsSpec => []SafeBetweenWrites
<1>1. RequestsSpec => []Tidy
  BY TidyInvariant
<1> QED
  BY <1>1, TidyIsSafe, PTL
=============================================================================

----------------------------- MODULE CargoStatus -----------------------------
(***************************************************************************)
(* The status vocabulary of shipments, items, containers and manifests,    *)
(* and the shipment rollups: the decisions that move a shipment's own      *)
(* status after something happened to one of its items.                    *)
(*                                                                         *)
(* Every rollup of the code reads the shipment's status and its items and  *)
(* asks only whether some / every item has a status in a list, so it is a  *)
(* function of the shipment's status and of the SET of its items'          *)
(* statuses. The result is the status the rollup leaves.                   *)
(***************************************************************************)

NotCreated == "NOT_CREATED"   \* no row yet; not a status of the code

ShipmentStatuses ==
  {"DRAFT", "QUOTE_REQUESTED", "AWAITING_ITEMS", "WAREHOUSE_RECEIVED",
   "PROCESSING", "READY_FOR_CONSOLIDATION", "CONSOLIDATED", "BOOKED", "LOADED",
   "DEPARTED", "IN_TRANSIT", "ARRIVED_DESTINATION", "CUSTOMS_PROCESSING",
   "CUSTOMS_CLEARED", "READY_FOR_PICKUP", "OUT_FOR_DELIVERY", "DELIVERED",
   "COMPLETED", "CANCELLED"}

ItemStatuses ==
  {"REGISTERED", "RECEIVED_ORIGIN_WAREHOUSE", "MEASURED", "PROCESSED",
   "CONSOLIDATED", "ASSIGNED_TO_CONTAINER", "ASSIGNED_TO_MANIFEST", "LOADED",
   "DEPARTED_ORIGIN", "IN_TRANSIT", "ARRIVED_DESTINATION",
   "RECEIVED_DESTINATION_WAREHOUSE", "READY_FOR_PICKUP", "OUT_FOR_DELIVERY",
   "DELIVERED", "PICKED_UP", "EXCEPTION", "CANCELLED"}

ContainerStatuses ==
  {"BOOKED", "LOADING", "LOADED", "DEPARTED", "IN_TRANSIT", "ARRIVED",
   "CUSTOMS_HOLD", "UNLOADING", "CLOSED"}

ManifestStatuses ==
  {"DRAFT", "FINALIZED", "DEPARTED", "ARRIVED", "SUBMITTED", "ARCHIVED"}

-----------------------------------------------------------------------------
\* "Reached at least this stage": the lists of warehouse.service.ts and
\* manifests.service.ts, each built from the next one.

TerminalHandoff == {"PICKED_UP", "DELIVERED"}
OutForDeliveryOrLater == TerminalHandoff \cup {"OUT_FOR_DELIVERY"}
AtDestinationOrLater ==
  OutForDeliveryOrLater \cup {"RECEIVED_DESTINATION_WAREHOUSE"}
ArrivedOrLater ==
  AtDestinationOrLater \cup {"ARRIVED_DESTINATION", "READY_FOR_PICKUP"}
DepartedOrLater == ArrivedOrLater \cup {"DEPARTED_ORIGIN", "IN_TRANSIT"}
LoadedOrLater == DepartedOrLater \cup {"LOADED"}
CommittedOrLater ==
  LoadedOrLater \cup {"ASSIGNED_TO_CONTAINER", "ASSIGNED_TO_MANIFEST"}

\* Mistake for CompletedWithItsItems: an item counts as processed only while it
\* is exactly PROCESSED, so one loaded early holds its shipment at PROCESSING.
ProcessedExactly == {"PROCESSED"}
ProcessedOrLater == CommittedOrLater \cup {"PROCESSED", "CONSOLIDATED"}

-----------------------------------------------------------------------------
\* Rollups. sh is the shipment's status as read, its the set of its items'
\* statuses as read. A shipment without items is left alone.

\* A rollup that only moves forward: from one of the eligible statuses, when
\* every item is in the list.
Advance(sh, its, eligible, every, to) ==
  IF sh \in eligible /\ its # {} /\ its \subseteq every THEN to ELSE sh

\* The final-mile rollups leave cancelled items out of "every item".
AdvanceIgnoringCancelled(sh, its, eligible, every, to) ==
  Advance(sh, its \ {"CANCELLED"}, eligible, every, to)

\* maybeRollupShipmentStatus: got is the set of (receivedAt # null) over the items.
RollupReceived(sh, got) ==
  Advance(sh, got, {"DRAFT", "QUOTE_REQUESTED", "AWAITING_ITEMS"}, {TRUE},
          "WAREHOUSE_RECEIVED")

\* maybeRollupToReadyForConsolidation, in its two writes: the first processed
\* item starts PROCESSING; then PROCESSING and READY_FOR_CONSOLIDATION are
\* settled by whether every item is processed.
StartProcessing(sh, its) ==
  IF sh = "WAREHOUSE_RECEIVED" /\ its \cap (ProcessedOrLater \cup {"EXCEPTION"}) # {}
  THEN "PROCESSING" ELSE sh

SettleProcessing(sh, its) ==
  IF sh = "READY_FOR_CONSOLIDATION" /\ ~ its \subseteq ProcessedOrLater
  THEN "PROCESSING"
  ELSE Advance(sh, its, {"PROCESSING"}, ProcessedOrLater, "READY_FOR_CONSOLIDATION")

RollupProcessing(sh, its) == SettleProcessing(StartProcessing(sh, its), its)

\* maybeRollupShipmentConsolidation, in its two writes. The containers service
\* and the manifests service each have their own: they differ in which items
\* count as committed (exactly assigned or loaded, against "or later") and in
\* which count as loaded.
Commit(sh, its, committed) ==
  IF sh = "READY_FOR_CONSOLIDATION" /\ its \cap committed # {} THEN "CONSOLIDATED"
  ELSE IF sh = "CONSOLIDATED" /\ its # {} /\ its \cap committed = {}
       THEN "READY_FOR_CONSOLIDATION"
       ELSE sh

\* Mistake for ShipmentOnlyForward: sealed cargo no longer counts as committed.
ContainerAssigned == {"ASSIGNED_TO_CONTAINER"}
ContainerCommitted == {"ASSIGNED_TO_CONTAINER", "LOADED"}

CommitByContainers(sh, its) == Commit(sh, its, ContainerCommitted)
SealByContainers(sh, its) == Advance(sh, its, {"CONSOLIDATED"}, {"LOADED"}, "LOADED")
RollupByContainers(sh, its) == SealByContainers(CommitByContainers(sh, its), its)

CommitByManifests(sh, its) == Commit(sh, its, CommittedOrLater)
SealByManifests(sh, its) == Advance(sh, its, {"CONSOLIDATED"}, LoadedOrLater, "LOADED")
RollupByManifests(sh, its) == SealByManifests(CommitByManifests(sh, its), its)

\* maybeRollupShipmentDeparture, maybeRollupShipmentArrival.
RollupDeparture(sh, its) ==
  Advance(sh, its, {"CONSOLIDATED", "LOADED"}, DepartedOrLater, "DEPARTED")

RollupArrival(sh, its) ==
  Advance(sh, its, {"DEPARTED", "IN_TRANSIT"}, ArrivedOrLater, "ARRIVED_DESTINATION")

\* maybeRollupShipmentReadyForPickup, -OutForDelivery, -Delivered, -Completion.
RollupReadyForPickup(sh, its) ==
  AdvanceIgnoringCancelled(sh, its, {"ARRIVED_DESTINATION"}, AtDestinationOrLater,
                           "READY_FOR_PICKUP")

RollupOutForDelivery(sh, its) ==
  AdvanceIgnoringCancelled(sh, its, {"ARRIVED_DESTINATION", "READY_FOR_PICKUP"},
                           OutForDeliveryOrLater, "OUT_FOR_DELIVERY")

RollupDelivered(sh, its) ==
  AdvanceIgnoringCancelled(sh, its,
    {"ARRIVED_DESTINATION", "READY_FOR_PICKUP", "OUT_FOR_DELIVERY"},
    TerminalHandoff, "DELIVERED")

RollupCompletion(sh, its) ==
  AdvanceIgnoringCancelled(sh, its,
    {"ARRIVED_DESTINATION", "READY_FOR_PICKUP", "OUT_FOR_DELIVERY", "DELIVERED"},
    TerminalHandoff, "COMPLETED")
=============================================================================

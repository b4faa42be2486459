---------------------------- MODULE CargoRequests ----------------------------
(***************************************************************************)
(* The requests of Cargo as the API server runs them: not one step each,   *)
(* but a check followed by database writes with an await in front of every *)
(* one. Nothing wraps the sequence in a transaction (the note on atomicity *)
(* in ManifestsService.depart says so), so the writes of several requests  *)
(* interleave, and a lost connection or a restart ends a request between   *)
(* two of its writes.                                                      *)
(*                                                                         *)
(* A worker is one request in progress. todo[k] is what it still has to do *)
(* as decided by what it has read. The reads before the first write are    *)
(* taken together, as one step; every later read is a step of its own.     *)
(*                                                                         *)
(* The module shares the tables of Cargo, and is shown to implement it as  *)
(* long as one worker runs and no request failed: the writes of a handler  *)
(* add up to the handler's action there.                                   *)
(***************************************************************************)
EXTENDS Cargo, SequencesExt

CONSTANTS
  Workers,
  MaxFailures   \* bound: how many requests may end between two writes

VARIABLES
  todo,         \* worker -> the database steps left in its request
  failures,     \* how many requests have ended early
  settled       \* the tables as they were when no request was last in progress,
                \* until one failed (a history: no step reads it)

allVars == <<vars, todo, failures, settled>>

ASSUME FailuresAssumption == MaxFailures \in Nat
ASSUME TablesAssumption == IsFiniteSet(Items) /\ IsFiniteSet(Containers)

Tables ==
  [shipmentStatus |-> shipmentStatus, itemStatus |-> itemStatus,
   currentWarehouse |-> currentWarehouse, received |-> received, handoffs |-> handoffs,
   containerStatus |-> containerStatus, manifestId |-> manifestId,
   containerItems |-> containerItems, manifestStatus |-> manifestStatus,
   manifestItems |-> manifestItems, snapshot |-> snapshot]

Resting == \A k \in Workers : todo[k] = <<>>

-----------------------------------------------------------------------------
\* Database steps. Each constructor names one statement (or one transaction) of
\* a handler.

\* createTrackingEvent for an item; Receiving also stamps receivedAt and the warehouse.
SetStatus(i, to) == [op |-> "item", item |-> i, to |-> to]
Receiving(i, to, w) == [op |-> "receive", item |-> i, to |-> to, at |-> w]
\* shipmentItem.update of currentWarehouseId; pickupDeliveryRecord.create.
Place(i, w) == [op |-> "place", item |-> i, at |-> w]
Record(i) == [op |-> "handoff", item |-> i]
\* containerItem.create / update removedAt, and the same for manifestItem.
AddRow(t, i) == [op |-> "add", to |-> t, item |-> i]
RemoveRow(t, i) == [op |-> "remove", to |-> t, item |-> i]
\* container.update of status and of manifestId; the count that precedes BOOKED.
SetContainer(c, to) == [op |-> "container", container |-> c, to |-> to]
SetManifestId(c, m) == [op |-> "manifestId", container |-> c, to |-> m]
CountRows(c) == [op |-> "count", container |-> c]
\* manifest.update, on finalize together with the snapshot of what was read.
SetManifest(m, to) == [op |-> "manifest", manifest |-> m, to |-> to]
Freeze(m, I) == [op |-> "freeze", manifest |-> m, items |-> I]
\* A rollup: its read, which decides the writes, and createTrackingEvent with a status.
RollUp(rule, s) == [op |-> "rollup", rule |-> rule, shipment |-> s]
SetShipment(s, to) == [op |-> "shipment", shipment |-> s, to |-> to]

\* One step for each member of a set, in some order.
Each(S, Step(_)) == SetToSeq({Step(x) : x \in S})

RollUpEach(rule, I) == Each(ShipmentsOf(I), LAMBDA s : RollUp(rule, s))

\* What a rollup that reads status sh and the items' statuses its (receipts got)
\* leaves after its first and after its second write.
Phases(rule, sh, its, got) ==
  CASE rule = "received"   -> <<sh, RollupReceived(sh, got)>>
    [] rule = "processing" -> <<StartProcessing(sh, its), RollupProcessing(sh, its)>>
    [] rule = "containers" -> <<CommitByContainers(sh, its), RollupByContainers(sh, its)>>
    [] rule = "manifests"  -> <<CommitByManifests(sh, its), RollupByManifests(sh, its)>>
    [] rule = "departure"  -> <<sh, RollupDeparture(sh, its)>>
    [] rule = "arrival"    -> <<sh, RollupArrival(sh, its)>>
    [] rule = "ready"      -> <<sh, RollupReadyForPickup(sh, its)>>
    [] rule = "out"        -> <<sh, RollupOutForDelivery(sh, its)>>
    [] rule = "delivered"  -> <<sh, RollupDelivered(sh, its)>>
    [] rule = "completion" -> <<sh, RollupCompletion(sh, its)>>

\* The writes: one for each phase that changes the status it starts from.
RollupWrites(rule, s) ==
  LET sh == shipmentStatus[s]
      ph == Phases(rule, sh, StatusesIn(itemStatus, s), ReceivedIn(received, s))
  IN  (IF ph[1] # sh THEN <<SetShipment(s, ph[1])>> ELSE <<>>)
        \o (IF ph[2] # ph[1] THEN <<SetShipment(s, ph[2])>> ELSE <<>>)

-----------------------------------------------------------------------------
\* Requests. A free worker checks and, if the check passes, has its writes to do.

Begin(k, steps) ==
  /\ todo[k] = <<>>
  /\ todo' = [todo EXCEPT ![k] = steps]
  /\ UNCHANGED <<vars, failures>>

BeginReceive(k, i, w) ==
  /\ Eligible(i, {"REGISTERED"})
  /\ Begin(k, <<Receiving(i, "RECEIVED_ORIGIN_WAREHOUSE", w),
                RollUp("received", ShipmentOf[i])>>)

BeginProcess(k, i, w, ready) ==
  /\ CanProcess(i, w)
  /\ Begin(k, <<SetStatus(i, IF ready THEN "PROCESSED" ELSE "EXCEPTION"),
                RollUp("processing", ShipmentOf[i])>>)

BeginDestinationReceive(k, i, w, good) ==
  /\ Eligible(i, {"ARRIVED_DESTINATION"})
  /\ Begin(k, <<IF good THEN Receiving(i, "RECEIVED_DESTINATION_WAREHOUSE", w)
                ELSE SetStatus(i, "EXCEPTION"),
                RollUp("ready", ShipmentOf[i])>>)

BeginPickup(k, i, w) ==
  /\ AtDesk(i, w)
  /\ Begin(k, <<SetStatus(i, "PICKED_UP"), Place(i, None), Record(i),
                RollUp("completion", ShipmentOf[i])>>)

BeginDispatch(k, i, w) ==
  /\ AtDesk(i, w)
  /\ Begin(k, <<SetStatus(i, "OUT_FOR_DELIVERY"), Place(i, None),
                RollUp("out", ShipmentOf[i])>>)

BeginDeliver(k, i) ==
  /\ WithDriver(i)
  /\ Begin(k, <<SetStatus(i, "DELIVERED"), Record(i),
                RollUp("delivered", ShipmentOf[i]), RollUp("completion", ShipmentOf[i])>>)

BeginReturn(k, i, w, retry) ==
  /\ WithDriver(i)
  /\ Begin(k, <<SetStatus(i, IF retry THEN "RECEIVED_DESTINATION_WAREHOUSE"
                             ELSE "EXCEPTION"),
                Place(i, w)>>)

\* The container's status is written only if it was read as BOOKED.
BeginLoad(k, c, i) ==
  /\ CanLoad(c, i)
  /\ Begin(k, <<SetStatus(i, "ASSIGNED_TO_CONTAINER"), AddRow(c, i)>>
              \o (IF containerStatus[c] = "BOOKED" THEN <<SetContainer(c, "LOADING")>>
                  ELSE <<>>)
              \o <<RollUp("containers", ShipmentOf[i])>>)

\* Two requests that found the same row update the same row, which a count of
\* rows cannot tell from removing two: only one at a time is modelled.
NoRemoval(t, i) == \A k \in Workers : RemoveRow(t, i) \notin ToSet(todo[k])

BeginUnload(k, c, i) ==
  /\ CanUnload(c, i)
  /\ NoRemoval(c, i)
  /\ Begin(k, <<RemoveRow(c, i), SetStatus(i, "PROCESSED")>>
              \o (IF containerStatus[c] = "LOADING" THEN <<CountRows(c)>> ELSE <<>>)
              \o <<RollUp("containers", ShipmentOf[i])>>)

BeginSeal(k, c) ==
  /\ CanSeal(c)
  /\ Begin(k, <<SetContainer(c, "LOADED")>>
              \o Each(Aboard(c), LAMBDA i : SetStatus(i, "LOADED"))
              \o RollUpEach("containers", Aboard(c)))

BeginOpen(k, c) ==
  /\ containerStatus[c] = "ARRIVED"
  /\ Begin(k, <<SetContainer(c, "UNLOADING")>>)

BeginClose(k, c) ==
  /\ containerStatus[c] = "UNLOADING"
  /\ Begin(k, <<SetContainer(c, "CLOSED")>>)

BeginAssignContainer(k, m, c) ==
  CanAssignContainer(m, c) /\ Begin(k, <<SetManifestId(c, m)>>)

BeginUnassignContainer(k, m, c) ==
  CanUnassignContainer(m, c) /\ Begin(k, <<SetManifestId(c, None)>>)

BeginAssignItem(k, m, i) ==
  /\ CanAssignItem(m, i)
  /\ Begin(k, <<SetStatus(i, "ASSIGNED_TO_MANIFEST"), AddRow(m, i),
                RollUp("manifests", ShipmentOf[i])>>)

BeginUnassignItem(k, m, i) ==
  /\ CanUnassignItem(m, i)
  /\ NoRemoval(m, i)
  /\ Begin(k, <<RemoveRow(m, i), SetStatus(i, "PROCESSED"),
                RollUp("manifests", ShipmentOf[i])>>)

BeginFinalize(k, m) ==
  /\ CanFinalize(m)
  /\ Begin(k, <<Freeze(m, CargoOf(m))>>
              \o (IF ModeOf[m] = "AIR"
                  THEN Each(Listed(m), LAMBDA i : SetStatus(i, "LOADED"))
                         \o RollUpEach("manifests", Listed(m))
                  ELSE <<>>))

\* Mistake for SafeBetweenWrites: the manifest is marked first.
MoveStepsManifestFirst(m, item, container, manifest, rule) ==
  <<SetManifest(m, manifest)>>
    \o (IF ModeOf[m] = "AIR" THEN Each(Listed(m), LAMBDA i : SetStatus(i, item))
        ELSE FlattenSeq(SetToSeq(
               {Each(Aboard(c), LAMBDA i : SetStatus(i, item))
                  \o <<SetContainer(c, container)>> : c \in ContainersOn(m)})))
    \o RollUpEach(rule, CargoOf(m))

\* Container by container its items and then itself, then the manifest, then the
\* rollups of the shipments concerned.
MoveSteps(m, item, container, manifest, rule) ==
  (IF ModeOf[m] = "AIR" THEN Each(Listed(m), LAMBDA i : SetStatus(i, item))
   ELSE FlattenSeq(SetToSeq(
          {Each(Aboard(c), LAMBDA i : SetStatus(i, item)) \o <<SetContainer(c, container)>>
             : c \in ContainersOn(m)})))
    \o <<SetManifest(m, manifest)>> \o RollUpEach(rule, CargoOf(m))

BeginDepart(k, m) ==
  CanDepart(m)
  /\ Begin(k, MoveSteps(m, "DEPARTED_ORIGIN", "DEPARTED", "DEPARTED", "departure"))

BeginArrive(k, m) ==
  CanArrive(m)
  /\ Begin(k, MoveSteps(m, "ARRIVED_DESTINATION", "ARRIVED", "ARRIVED", "arrival"))

-----------------------------------------------------------------------------
\* One database step of a request.

Then(k, steps) ==
  /\ todo' = [todo EXCEPT ![k] = steps \o Tail(@)]
  /\ UNCHANGED failures

Step(k, op) == todo[k] # <<>> /\ Head(todo[k]).op = op

DoItem(k) ==
  /\ Step(k, "item")
  /\ SetItem(Head(todo[k]).item, Head(todo[k]).to)
  /\ Then(k, <<>>)
  /\ UNCHANGED <<shipmentVars, currentWarehouse, received, handoffs,
                 containerVars, manifestVars>>

DoReceive(k) ==
  /\ Step(k, "receive")
  /\ LET st == Head(todo[k]) IN
       /\ SetItem(st.item, st.to)
       /\ received' = [received EXCEPT ![st.item] = TRUE]
       /\ currentWarehouse' = [currentWarehouse EXCEPT ![st.item] = st.at]
  /\ Then(k, <<>>)
  /\ UNCHANGED <<shipmentVars, handoffs, containerVars, manifestVars>>

DoPlace(k) ==
  /\ Step(k, "place")
  /\ currentWarehouse' = [currentWarehouse EXCEPT ![Head(todo[k]).item] = Head(todo[k]).at]
  /\ Then(k, <<>>)
  /\ UNCHANGED <<shipmentVars, itemStatus, received, handoffs, containerVars, manifestVars>>

DoRecord(k) ==
  /\ Step(k, "handoff")
  /\ handoffs' = [handoffs EXCEPT ![Head(todo[k]).item] = @ + 1]
  /\ Then(k, <<>>)
  /\ UNCHANGED <<shipmentVars, itemStatus, currentWarehouse, received,
                 containerVars, manifestVars>>

DoRow(k) ==
  /\ Step(k, "add") \/ Step(k, "remove")
  /\ LET st == Head(todo[k])
         Changed(n) == IF st.op = "add" THEN n + 1 ELSE n - 1
     IN  IF st.to \in Containers
         THEN /\ containerItems' = [containerItems EXCEPT ![st.to][st.item] = Changed(@)]
              /\ UNCHANGED manifestItems
         ELSE /\ manifestItems' = [manifestItems EXCEPT ![st.to][st.item] = Changed(@)]
              /\ UNCHANGED containerItems
  /\ Then(k, <<>>)
  /\ UNCHANGED <<shipmentVars, itemVars, containerStatus, manifestId, manifestStatus, snapshot>>

\* Mistake for ImplementsCargo: any removal reopens the booking.
DoCountBlind(k) ==
  /\ Step(k, "count")
  /\ Then(k, <<SetContainer(Head(todo[k]).container, "BOOKED")>>)
  /\ UNCHANGED vars

DoCount(k) ==
  /\ Step(k, "count")
  /\ LET c == Head(todo[k]).container IN
       Then(k, IF Aboard(c) = {} THEN <<SetContainer(c, "BOOKED")>> ELSE <<>>)
  /\ UNCHANGED vars

DoContainer(k) ==
  /\ Step(k, "container") \/ Step(k, "manifestId")
  /\ LET st == Head(todo[k]) IN
       IF st.op = "container"
       THEN /\ containerStatus' = [containerStatus EXCEPT ![st.container] = st.to]
            /\ UNCHANGED manifestId
       ELSE /\ manifestId' = [manifestId EXCEPT ![st.container] = st.to]
            /\ UNCHANGED containerStatus
  /\ Then(k, <<>>)
  /\ UNCHANGED <<shipmentVars, itemVars, containerItems, manifestVars>>

DoManifest(k) ==
  /\ Step(k, "manifest") \/ Step(k, "freeze")
  /\ LET st == Head(todo[k])
         freeze == st.op = "freeze"
     IN  /\ manifestStatus' = [manifestStatus EXCEPT
                                 ![st.manifest] = IF freeze THEN "FINALIZED" ELSE st.to]
         /\ snapshot' = [snapshot EXCEPT ![st.manifest] = IF freeze THEN st.items ELSE @]
  /\ Then(k, <<>>)
  /\ UNCHANGED <<shipmentVars, itemVars, containerVars, manifestItems>>

DoRollup(k) ==
  /\ Step(k, "rollup")
  /\ Then(k, RollupWrites(Head(todo[k]).rule, Head(todo[k]).shipment))
  /\ UNCHANGED vars

DoShipment(k) ==
  /\ Step(k, "shipment")
  /\ shipmentStatus' = [shipmentStatus EXCEPT ![Head(todo[k]).shipment] = Head(todo[k]).to]
  /\ Then(k, <<>>)
  /\ UNCHANGED <<itemVars, containerVars, manifestVars>>

\* The request ends here: the connection is lost or the process restarts.
Fail(k) ==
  /\ todo[k] # <<>>
  /\ failures < MaxFailures
  /\ failures' = failures + 1
  /\ todo' = [todo EXCEPT ![k] = <<>>]
  /\ UNCHANGED vars

-----------------------------------------------------------------------------
\* The handlers that write once, after no check that a write could upset.
SingleWrite ==
  /\ \E k \in Workers : todo[k] = <<>>
  /\ \/ ShipmentStep
     \/ \E c \in Containers : CreateContainer(c)
     \/ \E m \in Manifests : CreateManifest(m)
  /\ UNCHANGED <<todo, failures>>

BeginWarehouse(k) ==
  \E i \in Items :
    \/ BeginDeliver(k, i)
    \/ \E w \in Warehouses :
         \/ BeginReceive(k, i, w)
         \/ BeginPickup(k, i, w)
         \/ BeginDispatch(k, i, w)
         \/ \E good \in BOOLEAN :
              \/ BeginProcess(k, i, w, good)
              \/ BeginDestinationReceive(k, i, w, good)
              \/ BeginReturn(k, i, w, good)

BeginContainer(k) ==
  \E c \in Containers :
    \/ BeginSeal(k, c)
    \/ BeginOpen(k, c)
    \/ BeginClose(k, c)
    \/ \E i \in Items : BeginLoad(k, c, i) \/ BeginUnload(k, c, i)

BeginManifest(k) ==
  \E m \in Manifests :
    \/ BeginFinalize(k, m)
    \/ BeginDepart(k, m)
    \/ BeginArrive(k, m)
    \/ \E c \in Containers : BeginAssignContainer(k, m, c) \/ BeginUnassignContainer(k, m, c)
    \/ \E i \in Items : BeginAssignItem(k, m, i) \/ BeginUnassignItem(k, m, i)

DatabaseStep(k) ==
  \/ DoItem(k) \/ DoReceive(k) \/ DoPlace(k) \/ DoRecord(k) \/ DoRow(k) \/ DoCount(k)
  \/ DoContainer(k) \/ DoManifest(k) \/ DoRollup(k) \/ DoShipment(k)

RequestsInit ==
  /\ Init
  /\ todo = [k \in Workers |-> <<>>]
  /\ failures = 0
  /\ settled = Tables

Settle ==
  settled' = IF failures' > 0 THEN [column \in DOMAIN Tables |-> None]
             ELSE IF Resting' THEN Tables' ELSE settled

RequestsNext ==
  /\ \/ SingleWrite
     \/ \E k \in Workers : \/ BeginWarehouse(k) \/ BeginContainer(k) \/ BeginManifest(k)
                            \/ DatabaseStep(k) \/ Fail(k)
  /\ Settle

RequestsSpec == RequestsInit /\ [][RequestsNext]_allVars

-----------------------------------------------------------------------------
\* Properties.

\* The tables hold values of their types also between the writes of a request and
\* after it was cut short; in particular no row is removed twice.
RequestsTypeOK == TypeOK /\ failures \in 0..MaxFailures

\* One worker at a time, until a request fails: the writes of each handler,
\* with the rollups' intermediate statuses, add up to that handler's action in
\* Cargo, and a request that finds nothing to do writes nothing.
Alone ==
  INSTANCE Cargo WITH
    shipmentStatus <- settled.shipmentStatus, itemStatus <- settled.itemStatus,
    currentWarehouse <- settled.currentWarehouse, received <- settled.received,
    handoffs <- settled.handoffs, containerStatus <- settled.containerStatus,
    manifestId <- settled.manifestId, containerItems <- settled.containerItems,
    manifestStatus <- settled.manifestStatus, manifestItems <- settled.manifestItems,
    snapshot <- settled.snapshot

ImplementsCargo == Alone!Init /\ [][failures' = 0 => Alone!Next]_(Alone!vars)

\* A manifest is marked after its containers were: even if depart or arrive is
\* cut short, no manifest is shown as departed or arrived with a container that
\* is not, and none is left sealed on a manifest that has gone.
ManifestMarkedLast ==
  \A c \in Containers :
    LET m == manifestId[c]
        landed == {"ARRIVED", "UNLOADING", "CLOSED"}
    IN  m # None =>
          /\ manifestStatus[m] = "DRAFT" => containerStatus[c] = "LOADED"
          /\ manifestStatus[m] = "DEPARTED" => containerStatus[c] \in landed \cup {"DEPARTED"}
          /\ manifestStatus[m] = "ARRIVED" => containerStatus[c] \in landed

\* All that must hold between any two writes of a handler, whichever write a
\* request ends at: the columns keep their types, a finalized manifest's snapshot
\* is its cargo, and no manifest runs ahead of its containers.
SafeBetweenWrites == RequestsTypeOK /\ SnapshotIsCargo /\ ManifestMarkedLast
=============================================================================

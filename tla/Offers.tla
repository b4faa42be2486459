------------------------------- MODULE Offers ----------------------------------
(***************************************************************************)
(* What the screens of the warehouse page offer for an item, by its status *)
(* alone, beside what WarehouseService accepts of it, which is told by its *)
(* place and its shipment, too: two programs that state one set of rules.  *)
(* The page itself is in Workspace.                                        *)
(***************************************************************************)
EXTENDS Cargo

-----------------------------------------------------------------------------
\* The screens.

\* Which panel PROCESS shows a copy with this status in: the inspection form, or
\* what the last inspection said and a button for another.
ProcessView(status) ==
  CASE status = "RECEIVED_ORIGIN_WAREHOUSE" -> "form"
    [] status \in {"PROCESSED", "EXCEPTION"} -> "summary"
    [] OTHER -> "nothing"

\* Mistake for OfferedAsAccepted: an item that arrived but was not received yet.
PickupViewEarly(status) ==
  CASE status \in {"ARRIVED_DESTINATION", "RECEIVED_DESTINATION_WAREHOUSE"} -> "atDesk"
    [] status = "OUT_FOR_DELIVERY" -> "withDriver"
    [] OTHER -> "nothing"

\* isEligibleForPickupOrDispatch, isEligibleForDeliverOrReturn.
PickupView(status) ==
  CASE status = "RECEIVED_DESTINATION_WAREHOUSE" -> "atDesk"
    [] status = "OUT_FOR_DELIVERY" -> "withDriver"
    [] OTHER -> "nothing"

\* The receiving screens show whatever they find; LOAD mode shows no item.
View(mode, status) ==
  CASE mode = "PROCESS" -> ProcessView(status)
    [] mode = "PICKUP_DELIVERY" -> PickupView(status)
    [] mode \in {"RECEIVE", "DESTINATION_RECEIVE"} -> "panel"
    [] OTHER -> "nothing"

\* The commits each panel ends in. The inspection form locks its result to HOLD
\* for a damaged or flagged item, the arrival form to an exception; a return is
\* one form with a box to tick for an exception.
ReceivePanel == {"receive"}
ArrivalPanel == {"good", "flag"}
InspectionPanel == {"ready", "hold"}
AtDeskPanel == {"pickup", "dispatch"}
WithDriverPanel == {"deliver", "return", "except"}

OffersOf(mode, view) ==
  CASE mode = "RECEIVE" /\ view = "panel" -> ReceivePanel
    [] mode = "DESTINATION_RECEIVE" /\ view = "panel" -> ArrivalPanel
    [] view \in {"form", "reinspection"} -> InspectionPanel
    [] view = "atDesk" -> AtDeskPanel
    [] view = "withDriver" -> WithDriverPanel
    [] OTHER -> {}

-----------------------------------------------------------------------------
\* The server.

\* A first inspection of an item processed meanwhile is refused: it was not sent as
\* a reinspection, as what the summary leads to is.
FirstInspection(view, i) == view = "form" => itemStatus[i] = "RECEIVED_ORIGIN_WAREHOUSE"

\* The commits of PROCESS and PICKUP_DELIVERY for item i at warehouse w.
Accepts(op, view, i, w) ==
  \/ op \in InspectionPanel /\ FirstInspection(view, i) /\ CanProcess(i, w)
  \/ op \in AtDeskPanel /\ AtDesk(i, w)
  \/ op \in WithDriverPanel /\ WithDriver(i)

-----------------------------------------------------------------------------
\* Property.

\* What the server asks of a commit beside the item's status, and the screens do not
\* know of: the shipment is not cancelled, and an item at hand is at hand there.
Stands(i) == shipmentStatus[ShipmentOf[i]] # "CANCELLED"
AtHand(op, i, w) == op \in InspectionPanel \cup AtDeskPanel => currentWarehouse[i] = w

\* What the server accepts of PROCESS and PICKUP_DELIVERY those screens offer for a
\* fresh copy of the item; and what they offer it accepts, of an item whose shipment
\* stands and that is at this warehouse, if the commit is about an item at hand: the
\* status tables of browser and server agree, and these are the only two refusals
\* the operator does not see coming. (A reinspection is one more button away.)
OfferedAsAccepted ==
  \A i \in Items, w \in Warehouses, mode \in {"PROCESS", "PICKUP_DELIVERY"} :
    LET view == View(mode, itemStatus[i])
        sent == IF view = "summary" THEN "reinspection" ELSE view
        own == IF mode = "PROCESS" THEN InspectionPanel ELSE AtDeskPanel \cup WithDriverPanel
    IN  \A op \in own :
          Accepts(op, sent, i, w) <=>
            op \in OffersOf(mode, sent) /\ Stands(i) /\ AtHand(op, i, w)

=============================================================================

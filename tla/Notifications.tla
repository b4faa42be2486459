----------------------------- MODULE Notifications -----------------------------
(***************************************************************************)
(* What customers are told: NotificationsService, the occurrences that     *)
(* make it speak (hand-overs and status corrections of a shipment,         *)
(* documents, invoices, disruptions) and the delivery callbacks of the     *)
(* WhatsApp webhook.                                                       *)
(*                                                                         *)
(* A worker is one HTTP request. It runs statement by statement: the       *)
(* business write, the rollups, the event row that suppresses duplicates,  *)
(* and for each recipient and channel a row, a call to the provider and    *)
(* the outcome. A restart may end it anywhere; a failed statement of the   *)
(* notification part is swallowed and the request goes on. A hook is one   *)
(* callback being handled; Meta repeats callbacks and keeps no order.      *)
(*                                                                         *)
(* There is one shipment, all of whose items are at destination already.   *)
(* Texts, templates' wording and lists for display are left out.           *)
(***************************************************************************)
EXTENDS CargoStatus, Naturals, FiniteSets, Sequences, SequencesExt

CONSTANTS
  Items,           \* of the shipment
  Customers,
  Owner,           \* the shipment's (and the documents') customer
  Wants,           \* customer -> outbound channels switched on
  Reachable,       \* customer -> outbound channels with a usable address
  Documents,
  Disruptions,
  Loaded,          \* the customers of the rows of the disrupted transport, one per item
  ManualStatuses,  \* what staff may post by hand
  Workers, Hooks, None,
  MaxRequests,     \* bound: requests begun
  MaxFailures      \* bound: restarts and failed statements

Channels == {"IN_APP", "EMAIL", "SMS", "WHATSAPP"}

ASSUME CustomersAssumption ==
  /\ Owner \in Customers
  /\ Wants \in [Customers -> SUBSET {"EMAIL", "SMS", "WHATSAPP"}]
  /\ Reachable \in [Customers -> SUBSET {"EMAIL", "SMS", "WHATSAPP"}]
  /\ Loaded \in Seq(Customers)
ASSUME ManualAssumption == ManualStatuses \subseteq ShipmentStatuses
ASSUME BoundsAssumption == MaxRequests \in Nat /\ MaxFailures \in Nat

VARIABLES
  shipment,      \* the shipment's status
  items,         \* item -> status
  delivered,     \* items with a PickupDeliveryRecord of type DELIVERY
  stored,        \* documents whose bytes are in the object store
  documents,     \* document -> "none", "hidden" or "visible": its row
  events,        \* NotificationEvent: the dedupe keys
  rows,          \* Notification: id -> status and whether it has the provider's message id
  request,       \* worker -> what it still has to do
  callback,      \* hook -> the row it will write, and how
  begun, failures

business == <<shipment, items, delivered, stored, documents>>
vars == <<business, events, rows, request, callback, begun, failures>>

\* SHIPMENT_STATUS_MILESTONES, the notifiable ones, and the narrower list of
\* statuses with a WhatsApp template.
Notifiable ==
  {"WAREHOUSE_RECEIVED", "DEPARTED", "ARRIVED_DESTINATION", "CUSTOMS_CLEARED",
   "READY_FOR_PICKUP", "OUT_FOR_DELIVERY", "DELIVERED", "COMPLETED"}
WithTemplate == Notifiable \ {"CUSTOMS_CLEARED"}

\* Dedupe keys: what happened, to what.
About(kind, x) == [kind |-> kind, what |-> x]

Idle == [at |-> "free", rolls |-> <<>>, key |-> None, to |-> <<>>, mail |-> TRUE,
         channels |-> {}, row |-> None, ok |-> FALSE]

\* A row is known by what it is about and a running number.
RowIds(key, c, ch) ==
  {id \in DOMAIN rows : id.key = key /\ id.to = c /\ id.channel = ch}
NoRows == [id \in {} |-> None]

Init ==
  /\ items \in [Items -> {"RECEIVED_DESTINATION_WAREHOUSE", "OUT_FOR_DELIVERY"}]
  /\ shipment = IF \A i \in Items : items[i] = "OUT_FOR_DELIVERY"
                THEN "OUT_FOR_DELIVERY" ELSE "READY_FOR_PICKUP"
  /\ delivered = {}
  /\ stored \in SUBSET Documents
  /\ documents = [d \in Documents |-> IF d \in stored THEN "hidden" ELSE "none"]
  /\ events = {} /\ rows = NoRows
  /\ request = [k \in Workers |-> Idle]
  /\ callback = [h \in Hooks |-> Idle]
  /\ begun = 0 /\ failures = 0

At(k, place) == request[k].at = place
Go(k, next) == request' = [request EXCEPT ![k] = next]

\* The request goes on with its next rollup, or answers.
Continue(rolls) ==
  IF rolls = <<>> THEN Idle ELSE [Idle EXCEPT !.at = "roll", !.rolls = rolls]

\* An occurrence about the owner alone, and one about several customers.
Fire(key, rolls) ==
  [Idle EXCEPT !.at = "event", !.key = key, !.to = <<Owner>>, !.rolls = rolls]
FireAll(key, to) == [Idle EXCEPT !.at = "event", !.key = key, !.to = to]

Begin(k) == At(k, "free") /\ begun < MaxRequests /\ begun' = begun + 1

-----------------------------------------------------------------------------
\* Hand-overs. deliverItem writes the item, then its record, then rolls up
\* twice; pickupItem rolls up to COMPLETED only.

\* Mistake for NoSecondFinalEmail: the record is written last.
DeliverRecordLast(k, i) ==
  /\ Begin(k)
  /\ shipment # "CANCELLED" /\ items[i] = "OUT_FOR_DELIVERY"
  /\ items' = [items EXCEPT ![i] = "DELIVERED"]
  /\ Go(k, Continue(<<"DELIVERED", "COMPLETED">>))
  /\ UNCHANGED <<shipment, delivered, stored, documents, events, rows,
                 callback, failures>>

Deliver(k, i) ==
  /\ Begin(k)
  /\ shipment # "CANCELLED" /\ items[i] = "OUT_FOR_DELIVERY"
  /\ items' = [items EXCEPT ![i] = "DELIVERED"]
  /\ Go(k, [Idle EXCEPT !.at = "record", !.key = About("delivery", i),
                        !.rolls = <<"DELIVERED", "COMPLETED">>])
  /\ UNCHANGED <<shipment, delivered, stored, documents, events, rows,
                 callback, failures>>

Record(k) ==
  /\ At(k, "record")
  /\ delivered' = delivered \cup {request[k].key.what}
  /\ Go(k, Continue(request[k].rolls))
  /\ UNCHANGED <<shipment, items, stored, documents, events, rows, callback,
                 begun, failures>>

PickUp(k, i) ==
  /\ Begin(k)
  /\ shipment # "CANCELLED" /\ items[i] = "RECEIVED_DESTINATION_WAREHOUSE"
  /\ items' = [items EXCEPT ![i] = "PICKED_UP"]
  /\ Go(k, Continue(<<"COMPLETED">>))
  /\ UNCHANGED <<shipment, delivered, stored, documents, events, rows,
                 callback, failures>>

\* What a rollup makes of the shipment, from what it reads.
Rolled(roll) ==
  LET its == {items[i] : i \in Items}
  IN  IF roll = "DELIVERED" THEN RollupDelivered(shipment, its)
                            ELSE RollupCompletion(shipment, its)

Roll(k) ==
  /\ At(k, "roll")
  /\ LET rolls == request[k].rolls
         to == Rolled(Head(rolls))
     IN  Go(k, IF to = shipment THEN Continue(Tail(rolls))
               ELSE [Idle EXCEPT !.at = "write", !.key = About("shipment", to),
                                 !.rolls = Tail(rolls)])
  /\ UNCHANGED <<business, events, rows, callback, begun, failures>>

\* A correction by staff: createTrackingEvent with a status, no check, no rollup.
Correct(k, st) ==
  /\ Begin(k)
  /\ Go(k, [Idle EXCEPT !.at = "write", !.key = About("shipment", st)])
  /\ UNCHANGED <<business, events, rows, callback, failures>>

\* createTrackingEvent commits the status and then fires, for a milestone.
Write(k) ==
  /\ At(k, "write")
  /\ shipment' = request[k].key.what
  /\ Go(k, IF request[k].key.what \in Notifiable
           THEN [request[k] EXCEPT !.at = "content"] ELSE Continue(request[k].rolls))
  /\ UNCHANGED <<items, delivered, stored, documents, events, rows, callback,
                 begun, failures>>

\* buildShipmentEmailContent: no e-mail for a COMPLETED after a delivery.
Suppressed(key) == key.what = "COMPLETED" /\ delivered # {}

Content(k) ==
  /\ At(k, "content")
  /\ Go(k, [Fire(request[k].key, request[k].rolls)
              EXCEPT !.mail = ~ Suppressed(request[k].key)])
  /\ UNCHANGED <<business, events, rows, callback, begun, failures>>

-----------------------------------------------------------------------------
\* Documents, invoices, disruptions.

\* DocumentsService.storeAndCreate: the bytes, then the row.

Upload(k, d, v) ==
  /\ Begin(k)
  /\ documents[d] = "none" /\ d \notin stored
  /\ stored' = stored \cup {d}
  /\ Go(k, [Idle EXCEPT !.at = "row", !.key = About(v, d)])
  /\ UNCHANGED <<shipment, items, delivered, documents, events, rows, callback,
                 failures>>

AddDocument(k) ==
  /\ At(k, "row")
  /\ documents' = [documents EXCEPT ![request[k].key.what] = request[k].key.kind]
  /\ Go(k, Idle)
  /\ UNCHANGED <<shipment, items, delivered, stored, events, rows, callback,
                 begun, failures>>

\* DocumentsService.update: what was visible is read before the write.
UpdateDocument(k, d, v) ==
  /\ Begin(k)
  /\ documents[d] # "none"
  /\ Go(k, [Idle EXCEPT !.at = "show", !.key = About(v, d), !.ok = documents[d] = "hidden"])
  /\ UNCHANGED <<business, events, rows, callback, failures>>

ShowDocument(k) ==
  /\ At(k, "show")
  /\ LET v == request[k].key.kind
         d == request[k].key.what
     IN  /\ documents' = [documents EXCEPT ![d] = v]
         /\ Go(k, IF v = "visible" /\ request[k].ok
                  THEN Fire(About("document", d), <<>>) ELSE Idle)
  /\ UNCHANGED <<shipment, items, delivered, stored, events, rows, callback,
                 begun, failures>>

\* InvoicesService.issue, after its write; two overlapping issues both get here.
InvoiceIssued(k) ==
  /\ Begin(k)
  /\ Go(k, Fire(About("invoice", "issued"), <<>>))
  /\ UNCHANGED <<business, events, rows, callback, failures>>

\* DisruptionsService.resolveAffectedCustomers: each customer aboard once,
\* however many items.

\* Mistake for RecordsAreTrue: one entry per row of the transport.
AffectedPerRow == Loaded
Affected == SetToSeq({Loaded[n] : n \in DOMAIN Loaded})

Disrupt(k, x) ==
  /\ Begin(k)
  /\ \A w \in Workers : request[w].key # About("disruption", x)
  /\ About("disruption", x) \notin events
  /\ Go(k, FireAll(About("disruption", x), Affected))
  /\ UNCHANGED <<business, events, rows, callback, failures>>

-----------------------------------------------------------------------------
\* NotificationsService: the event, then each recipient, then each channel.

\* notifyCustomer: the portal always, the others as the customer wants.
Due(c, ch, key, mail) ==
  \/ ch = "IN_APP"
  \/ /\ ch \in Wants[c]
     /\ ch = "EMAIL" => mail
     /\ ch = "WHATSAPP" => key.kind = "shipment" /\ key.what \in WithTemplate

\* The request tells the first of r.to, on one channel after the other; when there
\* is nobody left (or nobody aboard) it goes on.
NotifyCustomer(r) ==
  IF r.to = <<>> THEN Continue(r.rolls)
  ELSE [r EXCEPT !.at = "create",
                 !.channels = {ch \in Channels : Due(Head(r.to), ch, r.key, r.mail)}]

FirstOf(channels) ==
  IF "IN_APP" \in channels THEN "IN_APP"
  ELSE IF "EMAIL" \in channels THEN "EMAIL"
  ELSE IF "SMS" \in channels THEN "SMS" ELSE "WHATSAPP"

\* getOrCreateEvent: the unique key makes the second one a dedupe hit.
RecordEvent(k) ==
  /\ At(k, "event")
  /\ IF request[k].key \in events
     THEN Go(k, Continue(request[k].rolls)) /\ UNCHANGED events
     ELSE /\ events' = events \cup {request[k].key}
          /\ Go(k, NotifyCustomer(request[k]))
  /\ UNCHANGED <<business, rows, callback, begun, failures>>

\* createAndDispatch: a PENDING row, the provider, the outcome.
CreateRow(k) ==
  /\ At(k, "create")
  /\ LET key == request[k].key
         c == Head(request[k].to)
         ch == FirstOf(request[k].channels)
         id == [key |-> key, to |-> c, channel |-> ch,
                copy |-> Cardinality(RowIds(key, c, ch)) + 1]
         new == [status |-> "PENDING", messageId |-> FALSE]
     IN  /\ rows' = [n \in DOMAIN rows \cup {id} |-> IF n = id THEN new ELSE rows[n]]
         /\ Go(k, [request[k] EXCEPT !.at = "send", !.row = id, !.channels = @ \ {ch}])
  /\ UNCHANGED <<business, events, callback, begun, failures>>

\* Mistake for EveryoneTold: nothing more is tried after a failure.
AfterRowUnlessFailed(r, status) ==
  IF status = "FAILED" THEN Continue(r.rolls)
  ELSE IF r.channels # {} THEN [r EXCEPT !.at = "create"]
       ELSE NotifyCustomer([r EXCEPT !.to = Tail(r.to)])

AfterRow(r, status) ==
  IF r.channels # {} THEN [r EXCEPT !.at = "create"]
  ELSE NotifyCustomer([r EXCEPT !.to = Tail(r.to)])

\* The message id, by which callbacks find the row, comes with the outcome.
SettleRow(k, status, messageId) ==
  /\ rows' = [rows EXCEPT ![request[k].row].status = status,
                          ![request[k].row].messageId = messageId]
  /\ Go(k, AfterRow(request[k], status))

Send(k) ==
  /\ At(k, "send")
  /\ LET n == request[k].row
     IN  IF n.channel = "IN_APP"
         THEN SettleRow(k, "SENT", FALSE)
         ELSE IF n.channel \notin Reachable[n.to]
         THEN SettleRow(k, "FAILED", FALSE)
         ELSE \E ok \in BOOLEAN :
                Go(k, [request[k] EXCEPT !.at = "outcome", !.ok = ok]) /\ UNCHANGED rows
  /\ UNCHANGED <<business, events, callback, begun, failures>>

Outcome(k) ==
  /\ At(k, "outcome")
  /\ SettleRow(k, IF request[k].ok THEN "SENT" ELSE "FAILED", request[k].ok)
  /\ UNCHANGED <<business, events, callback, begun, failures>>

-----------------------------------------------------------------------------
\* The recipient: markRead in the portal, and Meta's callbacks. sent and
\* delivered, and what matches no row, change nothing and are left out.

MarkRead(n) ==
  /\ n.channel = "IN_APP"
  /\ rows' = [rows EXCEPT ![n].status = "READ"]
  /\ UNCHANGED <<business, events, request, callback, begun, failures>>

\* Mistake for ReadIsKept: a failure is applied whatever the row says.
AppliesAlways(n, st) == rows[n].messageId
Applies(n, st) == rows[n].messageId /\ ~ (st = "FAILED" /\ rows[n].status = "READ")

\* updateWhatsAppStatusFromWebhook: it reads the row, and writes by id.
Callback(h, n, st) ==
  /\ callback[h] = Idle
  /\ n.channel = "WHATSAPP"
  /\ Applies(n, st)
  /\ callback' = [callback EXCEPT ![h] = [Idle EXCEPT !.at = st, !.row = n]]
  /\ UNCHANGED <<business, events, rows, request, begun, failures>>

Apply(h) ==
  /\ callback[h] # Idle
  /\ rows' = [rows EXCEPT ![callback[h].row].status = callback[h].at]
  /\ callback' = [callback EXCEPT ![h] = Idle]
  /\ UNCHANGED <<business, events, request, begun, failures>>

-----------------------------------------------------------------------------
\* Failures: a restart, and an error inside NotificationsService, which every
\* fire method swallows.

InFire == {"content", "event", "create", "send", "outcome"}

Restart(k) ==
  /\ ~ At(k, "free")
  /\ failures < MaxFailures
  /\ failures' = failures + 1
  /\ Go(k, Idle)
  /\ UNCHANGED <<business, events, rows, callback, begun>>

Swallow(k) ==
  /\ request[k].at \in InFire
  /\ request[k].rolls # <<>>   \* otherwise it is as a restart
  /\ failures < MaxFailures
  /\ failures' = failures + 1
  /\ Go(k, Continue(request[k].rolls))
  /\ UNCHANGED <<business, events, rows, callback, begun>>

-----------------------------------------------------------------------------
Step(k) ==
  \/ Record(k) \/ Roll(k) \/ Write(k) \/ Content(k) \/ AddDocument(k) \/ ShowDocument(k)
  \/ RecordEvent(k) \/ CreateRow(k) \/ Send(k) \/ Outcome(k)

Start(k) ==
  \/ \E i \in Items : Deliver(k, i) \/ PickUp(k, i)
  \/ \E st \in ManualStatuses : Correct(k, st)
  \/ \E d \in Documents, v \in {"hidden", "visible"} : Upload(k, d, v) \/ UpdateDocument(k, d, v)
  \/ InvoiceIssued(k)
  \/ \E x \in Disruptions : Disrupt(k, x)

Next ==
  \/ \E k \in Workers : Start(k) \/ Step(k) \/ Restart(k) \/ Swallow(k)
  \/ \E n \in DOMAIN rows : MarkRead(n)
  \/ \E h \in Hooks, n \in DOMAIN rows, st \in {"READ", "FAILED"} : Callback(h, n, st)
  \/ \E h \in Hooks : Apply(h)

\* A request the API has begun goes on; nobody has to begin one.
Spec == Init /\ [][Next]_vars /\ \A k \in Workers : WF_vars(Step(k))

-----------------------------------------------------------------------------
\* What customers are told of, and what else a request is about.
Occurrences ==
  [kind : {"shipment"}, what : ShipmentStatuses]
    \cup [kind : {"document"}, what : Documents]
    \cup [kind : {"invoice"}, what : {"issued"}]
    \cup [kind : {"disruption"}, what : Disruptions]
Tasks ==
  [kind : {"delivery"}, what : Items] \cup [kind : {"hidden", "visible"}, what : Documents]

Ids == [key : Occurrences, to : Customers, channel : Channels, copy : Nat]

Places == {"free", "record", "roll", "write", "row", "show"} \cup InFire

Requests ==
  [at : Places, rolls : Seq({"DELIVERED", "COMPLETED"}), key : Occurrences \cup Tasks \cup {None},
   to : Seq(Customers), mail : BOOLEAN, channels : SUBSET Channels, row : Ids \cup {None},
   ok : BOOLEAN]

\* Each row is about an event on record and on a channel its customer wants, and
\* a callback or a request writes only rows there are.
TypeOK ==
  /\ shipment \in ShipmentStatuses
  /\ items \in [Items -> ItemStatuses]
  /\ delivered \subseteq {i \in Items : items[i] = "DELIVERED"}
  /\ stored \subseteq Documents
  /\ documents \in [Documents -> {"none", "hidden", "visible"}]
  /\ events \subseteq Occurrences
  /\ DOMAIN rows \subseteq Ids
  /\ rows \in [DOMAIN rows -> [status : {"PENDING", "SENT", "FAILED", "READ"},
                              messageId : BOOLEAN]]
  /\ \A n \in DOMAIN rows :
       n.key \in events /\ (n.channel # "IN_APP" => n.channel \in Wants[n.to])
  /\ request \in [Workers -> Requests]
  /\ \A k \in Workers : request[k].at \in {"send", "outcome"} => request[k].row \in DOMAIN rows
  /\ DOMAIN callback = Hooks
  /\ \A h \in Hooks : callback[h] # Idle => callback[h].row \in DOMAIN rows

\* A customer hears of an occurrence once per channel, however many requests
\* report it (two hand-overs that both complete the shipment, a correction that
\* repeats a status, overlapping issues) and however many of its items are
\* aboard a disrupted transport. (The dedupe key; resolveAffectedCustomers.)
NotifiedOnce ==
  \A m, n \in DOMAIN rows :
    m.key = n.key /\ m.to = n.to /\ m.channel = n.channel => m = n

\* The final e-mails: of a DELIVERED, of a COMPLETED.
FinalEmails ==
  {n \in DOMAIN rows : /\ n.channel = "EMAIL"
                       /\ n.key \in {About("shipment", "DELIVERED"),
                                    About("shipment", "COMPLETED")}}

\* Deliveries and pickups of a shipment's items, in any order and at the same
\* time, never send two e-mails that it is done, unless staff set the shipment
\* by hand to DELIVERED or back to where the rollups go on from.
\* (buildShipmentEmailContent's suppression.)
NoSecondFinalEmail == Cardinality(FinalEmails) <= 1

\* A document a customer or staff can see has its file, wherever an upload was
\* cut short. (storeAndCreate.)
DocumentHasItsFile == \A d \in Documents : documents[d] # "none" => d \in stored

\* What the tables record happened, once: nobody is written to twice about one
\* occurrence and no document is listed without its file, wherever requests end.
RecordsAreTrue == TypeOK /\ NotifiedOnce /\ DocumentHasItsFile

\* A message that was read stays read: callbacks handled one at a time, in any
\* order and repeated, and the dispatch itself, do not take it back.
\* (updateWhatsAppStatusFromWebhook.)
ReadIsKept ==
  [][\A n \in DOMAIN rows :
       n.channel = "WHATSAPP" /\ rows[n].status = "READ" => rows'[n].status = "READ"]_vars

Recipients(key) == IF key.kind = "disruption" THEN {Loaded[n] : n \in DOMAIN Loaded} ELSE {Owner}

\* Every recipient of an occurrence has a row with an outcome on every channel
\* that is due, a failed channel or recipient notwithstanding; only the e-mail
\* of a COMPLETED may be left out.
AllTold ==
  \A key \in events : \A c \in Recipients(key) :
    \A ch \in Channels :
      Due(c, ch, key, key.what # "COMPLETED") =>
        \E n \in RowIds(key, c, ch) : rows[n].status # "PENDING"

\* Unless a request is cut short, everyone is told in the end. (fire*,
\* notifyCustomer, createAndDispatch.)
EveryoneTold == <>[](failures > 0 \/ AllTold)
=============================================================================

-------------------------------- MODULE Records --------------------------------
(***************************************************************************)
(* What is read of a company's records: the figures of AnalyticsService    *)
(* and the customer's view of a shipment of TrackingService, over records  *)
(* that the other components write as time passes. Those components are    *)
(* modelled elsewhere (Cargo, Payments); here each write is the row it     *)
(* leaves, in any order, which allows more than they do.                   *)
(*                                                                         *)
(* A day has two instants. Items are alike: the first one moves. Left out: *)
(* the tenant, names, containers, warehouses (there is one), and averages, *)
(* which are quotients of what is here. No row is given an earlier date    *)
(* than now, which only the API, not the pages, allows.                    *)
(***************************************************************************)
EXTENDS Integers, Sequences, FiniteSetsExt

CONSTANTS
  Customers, Shipments, Invoices, Exceptions,
  OwnerOf,      \* shipment -> its customer
  ModeOf,       \* shipment -> its mode
  BillOf,       \* invoice -> its shipment
  CurrencyOf,   \* invoice -> its currency
  Total,        \* the total of every invoice
  AgeLimits,    \* the ages in days that bound the aging buckets (30, 60, 90)
  StaleDays,    \* the age at which an open exception is stale (7)
  TopRows,      \* the customers that the reports list at most (10)
  ReceiptCap,   \* the receipts whose time in the warehouse is averaged at most (200)
  None,
  LastDay       \* bound: the clock stops at the end of this day

Days == 0..LastDay
DayOf(t) == t \div 2
Modes == {ModeOf[s] : s \in Shipments}
Currencies == {CurrencyOf[i] : i \in Invoices}
\* No instant, and not the start of a day before the first either.
Unset == -1

ASSUME RecordsAssumption ==
  /\ OwnerOf \in [Shipments -> Customers]
  /\ DOMAIN ModeOf = Shipments /\ DOMAIN CurrencyOf = Invoices
  /\ BillOf \in [Invoices -> Shipments]
  /\ Total \in Nat \ {0} /\ StaleDays \in Nat /\ LastDay \in Nat
  /\ AgeLimits \in Seq(Nat \ {0})
  /\ TopRows \in Nat \ {0} /\ ReceiptCap \in Nat \ {0}

VARIABLES
  now,        \* the instant
  customer,   \* Customer.createdAt
  shipment,   \* Shipment: status, createdAt
  events,     \* the TrackingEvent rows, in the order of occurredAt
  handoffs,   \* PickupDeliveryRecord.handledAt, of pickups and deliveries
  invoice,    \* Invoice: status, amountPaid, issuedAt, dueDate
  payments,   \* the COMPLETED Payment rows
  exception   \* OperationalException: createdAt, resolvedAt

records == <<customer, shipment, events, handoffs, invoice, payments, exception>>

\* The milestones that customers are shown, of the statuses used here.
LabelOf ==
  [DRAFT |-> "created", WAREHOUSE_RECEIVED |-> "received", PROCESSING |-> "processing",
   READY_FOR_CONSOLIDATION |-> "prepared", CONSOLIDATED |-> "prepared",
   DEPARTED |-> "departed", ARRIVED_DESTINATION |-> "arrived", COMPLETED |-> "completed",
   CANCELLED |-> "cancelled"]
Statuses == DOMAIN LabelOf
Terminal == {"COMPLETED", "CANCELLED"}

RecordsInit ==
  /\ now = 0
  /\ customer = [c \in Customers |-> Unset]
  /\ shipment = [s \in Shipments |-> [status |-> None, created |-> Unset]]
  /\ events = <<>>
  /\ handoffs = <<>>
  /\ invoice = [i \in Invoices |-> [status |-> "DRAFT", paid |-> 0, issued |-> Unset, due |-> Unset]]
  /\ payments = <<>>
  /\ exception = [x \in Exceptions |-> [created |-> Unset, resolved |-> Unset]]

-----------------------------------------------------------------------------
\* Writes.

Tick ==
  /\ now < 2 * LastDay + 1
  /\ now' = now + 1
  /\ UNCHANGED records

Event(s, item, type, status) ==
  [shipment |-> s, item |-> item, type |-> type, status |-> status, at |-> now]

\* A customer with its first shipment.
CreateShipment(s) ==
  /\ shipment[s].created = Unset
  /\ customer' = [customer EXCEPT ![OwnerOf[s]] = IF @ = Unset THEN now ELSE @]
  /\ shipment' = [shipment EXCEPT ![s] = [status |-> "DRAFT", created |-> now]]
  /\ events' = Append(events, Event(s, FALSE, "SHIPMENT_CREATED", "DRAFT"))
  /\ UNCHANGED <<now, handoffs, invoice, payments, exception>>

\* The event types with which the rollups write the statuses. By hand a status may
\* be written with any type, of which the one that the form begins with is here.
TypesOf ==
  [WAREHOUSE_RECEIVED |-> {"RECEIVED_AT_WAREHOUSE"}, PROCESSING |-> {"PROCESSED", "EXCEPTION"},
   READY_FOR_CONSOLIDATION |-> {"PROCESSED", "REMOVED_FROM_CONTAINER"},
   CONSOLIDATED |-> {"CONSOLIDATED"}, DEPARTED |-> {"DEPARTED_ORIGIN"},
   ARRIVED_DESTINATION |-> {"ARRIVED_DESTINATION"}, COMPLETED |-> {"COMPLETED"},
   CANCELLED |-> {"NOTE_ADDED"}]

\* The event, and the status with it, in one transaction.
CreateTrackingEvent(s, type, status) ==
  /\ shipment[s].created # Unset
  /\ type \in TypesOf[status] \cup {"NOTE_ADDED"}
  /\ shipment' = [shipment EXCEPT ![s].status = status]
  /\ events' = Append(events, Event(s, FALSE, type, status))

TrackShipment(s, type, status) ==
  /\ CreateTrackingEvent(s, type, status)
  /\ UNCHANGED <<now, customer, handoffs, invoice, payments, exception>>

ItemTypes == {"RECEIVED_AT_WAREHOUSE", "PICKED_UP", "RETURNED_TO_WAREHOUSE"}

\* An item is received, handed over or returned at the warehouse: the event alone, as
\* it is typed by hand, or as it is left when the record after it cannot be written.
TrackItem(s, type) ==
  /\ shipment[s].created # Unset
  /\ events' = Append(events, Event(s, TRUE, type, None))
  /\ UNCHANGED <<now, customer, shipment, handoffs, invoice, payments, exception>>

\* An item is handed over: the event, and the record with the event's instant.
HandOver(s) ==
  /\ shipment[s].created # Unset
  /\ events' = Append(events, Event(s, TRUE, "PICKED_UP", None))
  /\ handoffs' = Append(handoffs, now)
  /\ UNCHANGED <<now, customer, shipment, invoice, payments, exception>>

\* One more item. The events of the others are not its own.
AddItem(s) ==
  /\ shipment[s].created # Unset
  /\ events' = Append(events, Event(s, TRUE, "ITEM_REGISTERED", None))
  /\ UNCHANGED <<now, customer, shipment, handoffs, invoice, payments, exception>>

\* issuedAt is now; the due date, the start of a day, was given with the draft.
IssueInvoice(i, due) ==
  /\ shipment[BillOf[i]].created # Unset
  /\ invoice[i].status = "DRAFT"
  /\ invoice' = [invoice EXCEPT ![i] = [status |-> "SENT", paid |-> 0, issued |-> now, due |-> due]]
  /\ UNCHANGED <<now, customer, shipment, events, handoffs, payments, exception>>

Sources == {"ONLINE", "MANUAL"}

Pay(i, amount, source) ==
  /\ invoice[i].status \in {"SENT", "PARTIALLY_PAID"}
  /\ amount \in 1 .. Total - invoice[i].paid
  /\ invoice' = [invoice EXCEPT
       ![i].paid = @ + amount,
       ![i].status = IF invoice[i].paid + amount = Total THEN "PAID" ELSE "PARTIALLY_PAID"]
  /\ payments' = Append(payments, [invoice |-> i, amount |-> amount, source |-> source, at |-> now])
  /\ UNCHANGED <<now, customer, shipment, events, handoffs, exception>>

RaiseException(x) ==
  /\ exception[x].created = Unset
  /\ exception' = [exception EXCEPT ![x].created = now]
  /\ UNCHANGED <<now, customer, shipment, events, handoffs, invoice, payments>>

ResolveException(x) ==
  /\ exception[x].created # Unset /\ exception[x].resolved = Unset
  /\ exception' = [exception EXCEPT ![x].resolved = now]
  /\ UNCHANGED <<now, customer, shipment, events, handoffs, invoice, payments>>

-----------------------------------------------------------------------------
\* The periods of the reports: whole days, both included.

StartOf(day) == 2 * day
\* Mistake for FiguresAgree: the period ends where its last day begins.
EndAtMidnight(day) == 2 * day
EndOf(day) == 2 * day + 1

Periods == {p \in [from : Days, to : Days] : p.from <= p.to}
During(p, t) == StartOf(p.from) <= t /\ t <= EndOf(p.to)

PaymentsIn(p) == {n \in DOMAIN payments : During(p, payments[n].at)}
Collected(rows) ==
  [c \in Currencies |-> MapThenSumSet(LAMBDA n : payments[n].amount,
                          {n \in rows : CurrencyOf[payments[n].invoice] = c})]
TotalRevenue(p) == Collected(PaymentsIn(p))
RevenueBySource(p) ==
  [s \in Sources |-> Collected({n \in PaymentsIn(p) : payments[n].source = s})]
RevenueTrend(p) ==
  [d \in Days |-> Collected({n \in PaymentsIn(p) : DayOf(payments[n].at) = d})]

\* What is owed is what is owed now, whatever the period.
Balance(i) == Total - invoice[i].paid
Outstanding == {i \in Invoices : invoice[i].status \in {"SENT", "PARTIALLY_PAID"} /\ Balance(i) > 0}
Owed(rows) ==
  [c \in Currencies |-> MapThenSumSet(Balance, {i \in rows : CurrencyOf[i] = c})]
OpenInvoices == {i \in Invoices : invoice[i].status \in {"SENT", "PARTIALLY_PAID", "OVERDUE"}}
OverdueInvoices == {i \in Outstanding : invoice[i].due # Unset /\ invoice[i].due < now}

DaysOverdue(i) == IF invoice[i].due = Unset THEN -1 ELSE (now - invoice[i].due) \div 2
\* Bucket 1 is current; after it one begins where the one before it ends.
Bucket(i) ==
  IF DaysOverdue(i) <= 0 THEN 1
  ELSE 2 + Cardinality({n \in DOMAIN AgeLimits : DaysOverdue(i) > AgeLimits[n]})
OutstandingAging ==
  [b \in 1 .. Len(AgeLimits) + 2 |-> Owed({i \in Outstanding : Bucket(i) = b})]

StaleExceptions ==
  {x \in Exceptions : /\ exception[x].created # Unset /\ exception[x].resolved = Unset
                      /\ exception[x].created < now - 2 * StaleDays}

\* The shipments created in the period, of a mode or (None) of all.
ShipmentsIn(p, mode) ==
  {s \in Shipments : During(p, shipment[s].created) /\ mode \in {None, ModeOf[s]}}
Operations(p, mode) ==
  LET rows == ShipmentsIn(p, mode)
      Of(S) == Cardinality({s \in rows : shipment[s].status \in S})
  IN [total |-> Cardinality(rows), active |-> Of(Statuses \ Terminal),
      completed |-> Of({"COMPLETED"}), cancelled |-> Of({"CANCELLED"}),
      mix |-> [m \in Modes |-> Cardinality({s \in rows : ModeOf[s] = m})],
      trend |-> [d \in Days |-> Cardinality({s \in rows : DayOf(shipment[s].created) = d})]]

EventsIn(p, types, item) ==
  {n \in DOMAIN events : /\ During(p, events[n].at)
                         /\ events[n].type \in types /\ events[n].item = item}
\* The receipts that are looked at: all, or as many as the cap, whichever the database
\* returns. Each counts with the item's next later event, if there is one.
ReceiptsRead(p) ==
  LET receipts == EventsIn(p, {"RECEIVED_AT_WAREHOUSE"}, TRUE)
  IN kSubset(Min({ReceiptCap, Cardinality(receipts)}), receipts)
Dwells(receipts) ==
  LET Later(r) == {n \in DOMAIN events : /\ events[n].shipment = events[r].shipment
                                         /\ events[n].item /\ events[n].type # "ITEM_REGISTERED"
                                         /\ events[n].at > events[r].at}
      Next(r) == Min({events[n].at : n \in Later(r)})
  IN {<<r, Next(r) - events[r].at>> : r \in {n \in receipts : Later(n) # {}}}
Throughput(p) ==
  [received |-> Cardinality(EventsIn(p, {"RECEIVED_AT_WAREHOUSE"}, TRUE)),
   dispatched |-> Cardinality(EventsIn(p, {"PICKED_UP"}, TRUE)),
   dwells |-> {Dwells(receipts) : receipts \in ReceiptsRead(p)}]

\* The hand-overs are counted by their records, the returns by their events.
HandoffsIn(p) == {n \in DOMAIN handoffs : During(p, handoffs[n])}
Returns(p) == EventsIn(p, {"RETURNED_TO_WAREHOUSE"}, TRUE)

\* The dashboard's counts are of the whole tenant, so that they include the events of
\* whole shipments, which have no warehouse.
Activity(p) ==
  LET Count(types) == Cardinality({n \in DOMAIN events :
                        During(p, events[n].at) /\ events[n].type \in types})
  IN [received |-> Count({"RECEIVED_AT_WAREHOUSE"}), handedOver |-> Count({"PICKED_UP", "DELIVERED"})]

\* Departures and arrivals of whole shipments that are both in the period.
InTransit(p) ==
  {s \in Shipments : \A type \in {"DEPARTED_ORIGIN", "ARRIVED_DESTINATION"} :
     \E n \in EventsIn(p, {type}, FALSE) : events[n].shipment = s}

\* The invoices of which the average is taken, and the revenue of each customer.
IssuedIn(p) == {i \in Invoices : invoice[i].status # "DRAFT" /\ During(p, invoice[i].issued)}

NewCustomers(p) == {c \in Customers : During(p, customer[c])}
CustomersBefore(t) == {c \in Customers : customer[c] # Unset /\ customer[c] < t}
\* Only the days on which customers came, each with those there were by then.
GrowthTrend(p) ==
  [d \in {DayOf(customer[c]) : c \in NewCustomers(p)} |->
     Cardinality(CustomersBefore(StartOf(p.from)))
     + Cardinality({c \in NewCustomers(p) : DayOf(customer[c]) <= d})]

\* The customers with a shipment or an invoice of the period, and of those the first
\* rows by shipments: of customers with as many, whichever the database returns first.
ShipmentsOf(p, c) == Cardinality({s \in ShipmentsIn(p, None) : OwnerOf[s] = c})
BilledIn(p, c) == {i \in IssuedIn(p) : OwnerOf[BillOf[i]] = c}
TopCustomers(p) ==
  LET candidates == {c \in Customers : ShipmentsOf(p, c) > 0 \/ BilledIn(p, c) # {}}
  IN {top \in kSubset(Min({TopRows, Cardinality(candidates)}), candidates) :
        \A c \in top, d \in candidates \ top : ShipmentsOf(p, c) >= ShipmentsOf(p, d)}

ExceptionsIn(p) == {x \in Exceptions : During(p, exception[x].created)}
OpenExceptions(p) == {x \in ExceptionsIn(p) : exception[x].resolved = Unset}

-----------------------------------------------------------------------------
\* What customers are shown.

\* One entry for each label, at the first event that has it.
Timeline(s) ==
  LET rows == {n \in DOMAIN events : events[n].shipment = s /\ ~events[n].item}
      Label(n) == LabelOf[events[n].status]
      First(n) == \A m \in rows : Label(m) = Label(n) => n <= m
  IN {[label |-> Label(n), at |-> events[n].at] : n \in {m \in rows : First(m)}}

InTransitLabels == {"departed"}
ArrivedLabels == {"arrived"}
BucketOf(label) ==
  IF label = "completed" THEN "completed"
  ELSE IF label \in InTransitLabels THEN "inTransit"
  ELSE IF label \in ArrivedLabels THEN "arrivedOrReady" ELSE "other"
IsActive(label) == label \notin {"completed", "cancelled"}

\* Past its due date an invoice is shown OVERDUE, which is not stored.
StatusShown(i) ==
  IF /\ invoice[i].status \in {"SENT", "PARTIALLY_PAID"}
     /\ invoice[i].due # Unset /\ invoice[i].due < now
  THEN "OVERDUE" ELSE invoice[i].status

Payable == {"SENT", "PARTIALLY_PAID", "OVERDUE"}

\* The home page of a customer: its shipments by bucket, and what it owes.
ShipmentsFor(c) == {s \in Shipments : OwnerOf[s] = c /\ shipment[s].created # Unset}
InvoicesFor(c) == {i \in Invoices : OwnerOf[BillOf[i]] = c /\ invoice[i].status # "DRAFT"}
Unpaid(c) == {i \in InvoicesFor(c) : StatusShown(i) \in Payable}
OutstandingBalance(c) == Owed({i \in Unpaid(c) : Balance(i) > 0})
PayNowTarget(c) == IF Cardinality(Unpaid(c)) = 1 THEN CHOOSE i \in Unpaid(c) : TRUE ELSE None
=============================================================================

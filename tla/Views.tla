--------------------------------- MODULE Views ---------------------------------
(***************************************************************************)
(* The pages that only show: the owner's reports and dashboard, the        *)
(* customer's home page and the page of a shipment, the public tracking    *)
(* form, the staff's tracking page and the page of a shipment, on which    *)
(* events are added by hand. There is one browser tab with one page in it. *)
(*                                                                         *)
(* A page awaits answers in flights: what one effect or handler asked for  *)
(* together (Promise.all). Within a flight the answers' order shows        *)
(* nowhere, so they are only counted. Of an answer the page keeps for      *)
(* which key (a period and filters, or a shipment) it was asked; of a      *)
(* shipment's page also what was read, in two steps, for the customer.     *)
(***************************************************************************)
EXTENDS Sections

CONSTANTS
  Filters,    \* the selections of period, mode and warehouse
  DueDays,    \* the days on which invoices are due, of which some have long passed
  MaxSteps    \* bound: writes, pages opened and things asked for, the staff's search excepted

ASSUME ViewsAssumption == MaxSteps \in Nat /\ DueDays \subseteq Int /\ None \notin Filters \cup Shipments

VARIABLES
  tab,      \* the page, what it shows and what it awaits
  steps

vars == <<now, records, tab, steps>>

\* The requests that a page awaits together, and its keys.
Requests ==
  [reports |-> 6, executive |-> 1, overview |-> 1, home |-> 4,
   detail |-> 1, public |-> 1, tracking |-> 2, staff |-> 2]
Pages == DOMAIN Requests
Keys(p) ==
  CASE p \in {"reports", "executive"} -> Filters
    [] p \in {"overview", "home"} -> {"all"}
    [] OTHER -> {s \in Shipments : shipment[s].created # Unset}

\* The pages that show the customer one shipment.
Projected == {"detail", "public"}

Unseen == [badge |-> None, complete |-> FALSE, timeline |-> {}]
Flight(kind, key, left) ==
  [kind |-> kind, key |-> key, left |-> left, row |-> None, line |-> {}]
Load(p, key) == Flight("load", key, Requests[p])
Blank(p) == [n \in 1 .. Requests[p] |-> None]

\* The page as it is mounted. Forms and searches wait for the user.
Mounted(p, key) ==
  [page |-> p, key |-> key, shown |-> Blank(p), seen |-> Unseen, error |-> FALSE,
   busy |-> FALSE, phase |-> IF p = "reports" THEN "unknown" ELSE "none",
   flights |-> IF p \in {"public", "tracking"} THEN <<>> ELSE <<Load(p, key)>>]

ViewsInit ==
  /\ RecordsInit
  /\ tab = [Mounted("public", None) EXCEPT !.page = "none"]
  /\ steps = 0

InBound == steps < MaxSteps /\ steps' = steps + 1
Reading == UNCHANGED <<now, records>>

Without(flights, n) ==
  [m \in 1 .. Len(flights) - 1 |-> IF m < n THEN flights[m] ELSE flights[m + 1]]

-----------------------------------------------------------------------------
\* What the user does.

\* Leaving a page unmounts it: nobody awaits its answers any more.
OpenPage(p, key) ==
  /\ InBound
  /\ tab' = Mounted(p, key)
  /\ Reading

\* The reports keep the old figures while new ones load; the dashboard does not.
Select(key) ==
  /\ InBound
  /\ tab.page \in {"reports", "executive"} /\ tab.key # key /\ tab.phase # "no"
  /\ tab' = [tab EXCEPT
       !.key = key, !.error = FALSE,
       !.shown = IF tab.page = "executive" THEN Blank("executive") ELSE @,
       !.flights = Append(@, Load(tab.page, key))]
  /\ Reading

\* The public form is disabled while it searches.
Lookup(s) ==
  /\ InBound
  /\ tab.page = "public" /\ ~tab.busy
  /\ tab' = [tab EXCEPT !.busy = TRUE, !.key = s, !.shown = Blank("public"), !.seen = Unseen,
                        !.flights = Append(@, Load("public", s))]
  /\ Reading

\* Of the staff's pages: the list of results, the shipment opened from it, and the page
\* of a shipment with its two forms.
ResultsShown == tab.page = "tracking" /\ tab.phase = "results"
ShipmentShown == tab.page = "tracking" /\ tab.shown # Blank("tracking")
FormsShown == tab.page = "staff" /\ ~tab.error /\ tab.shown # Blank("staff")

\* The staff's search, and a click on one of its results.
Search(s) ==
  /\ UNCHANGED steps
  /\ tab.page = "tracking" /\ ~tab.busy
  /\ tab' = [tab EXCEPT !.busy = TRUE, !.error = FALSE, !.shown = Blank("tracking"),
                        !.flights = Append(@, Flight("search", s, 1))]
  /\ Reading

PickResult(s) ==
  /\ InBound
  /\ ResultsShown
  /\ tab' = [tab EXCEPT !.error = FALSE, !.flights = Append(@, Load("tracking", s))]
  /\ Reading

NewSearch ==
  /\ UNCHANGED steps
  /\ ShipmentShown
  /\ tab' = [tab EXCEPT !.error = FALSE, !.shown = Blank("tracking"), !.phase = "none"]
  /\ Reading

\* What the form for an event can send: for the whole shipment with a status, or for an
\* item. It begins as a note.
EventForm(s) ==
  \/ \E status \in DOMAIN TypesOf : TrackShipment(s, "NOTE_ADDED", status)
  \/ \E type \in ItemTypes : TrackItem(s, type)

AddEvent ==
  /\ InBound
  /\ FormsShown /\ ~tab.busy
  /\ EventForm(tab.key)
  /\ tab' = [tab EXCEPT !.busy = TRUE, !.flights = Append(@, Flight("submit", tab.key, 1))]

\* The other form, which does not wait for the first.
AddOneItem ==
  /\ InBound
  /\ FormsShown /\ tab.phase # "adding"
  /\ AddItem(tab.key)
  /\ tab' = [tab EXCEPT !.phase = "adding", !.flights = Append(@, Flight("item", tab.key, 1))]

-----------------------------------------------------------------------------
\* What the services answer.

\* The row of the shipment is read, and then the events.
ReadRow(n) ==
  /\ tab.flights[n].row = None
  /\ tab' = [tab EXCEPT !.flights[n].row = shipment[tab.flights[n].key].status]

ReadTimeline(n) ==
  /\ tab.flights[n].row # None /\ tab.flights[n].line = {}
  /\ tab' = [tab EXCEPT !.flights[n].line = Timeline(tab.flights[n].key)]

\* Mistake for PageHangsTogether: the events first, and then the row.
ProjectBackwards(n) ==
  \/ /\ tab.flights[n].line = {}
     /\ tab' = [tab EXCEPT !.flights[n].line = Timeline(tab.flights[n].key)]
  \/ /\ tab.flights[n].line # {} /\ tab.flights[n].row = None
     /\ tab' = [tab EXCEPT !.flights[n].row = shipment[tab.flights[n].key].status]

Project(n) == ReadRow(n) \/ ReadTimeline(n)

Read(n) ==
  /\ tab.page \in Projected /\ tab.flights[n].kind = "load"
  /\ Project(n)
  /\ Reading /\ UNCHANGED steps

\* The result as it is laid out.
TrackingResult(f) ==
  [badge |-> LabelOf[f.row], complete |-> f.row = "COMPLETED", timeline |-> f.line]

Ready(f) == tab.page \in Projected /\ f.kind = "load" => f.row # None /\ f.line # {}

\* A load's answer. The last shows them all; the customer's page then asks for the
\* documents and invoices that belong to the shipment.
AfterAnswer(n, f) ==
  IF f.left > 1 THEN [tab EXCEPT !.flights[n].left = @ - 1]
  ELSE [tab EXCEPT
    !.flights = IF tab.page = "detail" THEN Append(Without(@, n), Flight("related", f.key, 2))
                ELSE Without(@, n),
    !.shown = [k \in DOMAIN @ |-> f.key],
    !.seen = IF tab.page \in Projected THEN TrackingResult(f) ELSE @,
    !.phase = IF tab.page = "tracking" THEN "none" ELSE @,
    !.busy = IF f.kind = "found" \/ tab.page = "public" THEN FALSE ELSE @]

Answer(n) ==
  LET f == tab.flights[n] IN
    /\ f.kind \in {"load", "found"}
    /\ Ready(f)
    /\ tab' = AfterAnswer(n, f)
    /\ Reading /\ UNCHANGED steps

\* The other answers: what belongs to the shipment, which is shown beside it; the
\* search's result, which is opened when it is the only one; and what was added.
OtherAnswer(n) ==
  LET f == tab.flights[n]
      Rest == Without(tab.flights, n)
  IN
    /\ \/ /\ f.kind = "related"
          /\ tab' = IF f.left > 1 THEN [tab EXCEPT !.flights[n].left = @ - 1]
                    ELSE [tab EXCEPT !.flights = Rest, !.phase = "related"]
       \/ /\ f.kind = "search"
          /\ \/ tab' = [tab EXCEPT !.flights[n] = Flight("found", f.key, 2)]
             \/ tab' = [tab EXCEPT !.flights = Rest, !.phase = "results", !.busy = FALSE]
       \/ /\ f.kind = "submit"
          /\ tab' = [tab EXCEPT !.busy = FALSE, !.flights = Append(Rest, Load("staff", f.key))]
       \/ /\ f.kind = "item"
          /\ tab' = [tab EXCEPT !.phase = "none", !.flights = Append(Rest, Load("staff", f.key))]
    /\ Reading /\ UNCHANGED steps

\* The entitlements, which the reports ask for when they are mounted. Once they are
\* known, or cannot be, the effect that loads the figures runs again.
Entitlements(known) ==
  /\ tab.page = "reports" /\ tab.phase = "unknown"
  /\ tab' = IF known = "no" THEN [tab EXCEPT !.phase = "no"]
            ELSE [tab EXCEPT !.phase = "yes", !.error = FALSE,
                             !.flights = Append(@, Load("reports", tab.key))]
  /\ Reading /\ UNCHANGED steps

\* Mistake for PageSettles: an error is forgotten, and the page waits on.
AfterFailureSilent(n, f) == [tab EXCEPT !.flights = Without(@, n)]

\* What the page shows while it waits: buttons that are disabled, blocks in the place of
\* its own figures, and in that of the documents and invoices beside a shipment.
Disabled == tab.busy \/ tab.phase = "adding"
Skeleton ==
  /\ tab.page \notin {"none", "public", "tracking"} /\ tab.phase # "no"
  /\ ~tab.error /\ None \in {tab.shown[n] : n \in DOMAIN tab.shown}
RelatedSkeleton == tab.page = "detail" /\ tab.seen # Unseen /\ tab.phase = "none"

\* One request of a flight fails, and the flight with it. What belongs to a
\* shipment fails beside it; the public form and the staff's forms show a message.
AfterFailure(n, f) ==
  [tab EXCEPT
     !.flights = Without(@, n),
     !.busy = IF f.kind \in {"search", "found", "submit"} \/ tab.page = "public" THEN FALSE ELSE @,
     !.phase = IF f.kind = "related" THEN "relatedError"
               ELSE IF f.kind = "item" THEN "none" ELSE @,
     !.error = @ \/ (f.kind \in {"load", "search", "found"} /\ tab.page # "public")]

Fail(n) ==
  /\ tab' = AfterFailure(n, tab.flights[n])
  /\ Reading /\ UNCHANGED steps

-----------------------------------------------------------------------------
Write ==
  /\ InBound
  /\ UNCHANGED tab
  /\ \/ \E s \in Shipments :
          \/ CreateShipment(s)
          \/ \E st \in DOMAIN TypesOf : \E type \in TypesOf[st] :
               TrackShipment(s, type, st)
          \/ \E type \in ItemTypes : TrackItem(s, type)
          \/ HandOver(s)
     \/ \E i \in Invoices :
          \/ \E due \in {Unset} \cup {StartOf(d) : d \in DueDays} : IssueInvoice(i, due)
          \/ \E amount \in 1 .. Total, source \in Sources : Pay(i, amount, source)
     \/ \E x \in Exceptions : RaiseException(x) \/ ResolveException(x)

Use ==
  \/ \E p \in Pages : \E key \in Keys(p) : OpenPage(p, key)
  \/ \E key \in Filters : Select(key)
  \/ \E s \in Keys("public") : Lookup(s) \/ Search(s) \/ PickResult(s)
  \/ NewSearch
  \/ AddEvent \/ AddOneItem

Serve ==
  \/ \E n \in DOMAIN tab.flights : Read(n) \/ Answer(n) \/ OtherAnswer(n) \/ Fail(n)
  \/ \E known \in {"yes", "no"} : Entitlements(known)

Pass == Tick /\ UNCHANGED <<tab, steps>>

ViewsNext == Write \/ Use \/ Serve \/ Pass

\* Every request is answered or fails, in time.
ViewsSpec == ViewsInit /\ [][ViewsNext]_vars /\ WF_vars(Serve)

-----------------------------------------------------------------------------
\* Properties.

\* What a page shows together was asked for together: the sections of a report are
\* never of two periods or filters, and a shipment is never shown with the events of
\* another, in whatever order the answers come (Promise.all in each of the pages).
ShownTogether ==
  tab.page # "none" => \A m, n \in DOMAIN tab.shown : tab.shown[m] = tab.shown[n]

\* The stage that a customer is shown for a shipment is always found in the history
\* shown below it, although the two are read one after the other while the shipment
\* moves on, forward or back (TrackingService.projectShipment, createTrackingEvent).
BadgeIsOnTimeline ==
  tab.seen # Unseen => \E entry \in tab.seen.timeline : entry.label = tab.seen.badge

\* Everything on one page belongs together, whenever its parts were read.
PageHangsTogether == ShownTogether /\ BadgeIsOnTimeline

\* Figures of adjoining periods add up to those of the period they make, so that no
\* payment, shipment, customer or exception falls between two days or is counted in
\* both (AnalyticsService.resolveDateRange and each of its queries).
PeriodsAddUp ==
  \A p \in Periods : \A day \in p.from + 1 .. p.to :
    LET q == [from |-> p.from, to |-> day - 1]
        r == [from |-> day, to |-> p.to]
    IN /\ \A c \in Currencies : TotalRevenue(p)[c] = TotalRevenue(q)[c] + TotalRevenue(r)[c]
       /\ ShipmentsIn(p, None) = ShipmentsIn(q, None) \cup ShipmentsIn(r, None)
       /\ IssuedIn(p) = IssuedIn(q) \cup IssuedIn(r)
       /\ NewCustomers(p) = NewCustomers(q) \cup NewCustomers(r)
       /\ OpenExceptions(p) = OpenExceptions(q) \cup OpenExceptions(r)
       /\ Throughput(p).received = Throughput(q).received + Throughput(r).received
       /\ HandoffsIn(p) = HandoffsIn(q) \cup HandoffsIn(r)
       /\ InTransit(q) \cup InTransit(r) \subseteq InTransit(p)

\* Each table and chart of the reports adds up to the total shown above it, and says
\* that there is nothing exactly when that total is zero. The table of customers does
\* so exactly while the active customers fit in its rows, whatever rows the limit drops.
TablesAddUp ==
  \A p \in Periods :
    LET revenue == RevenueSection(p)
        operations == OperationsSection(p, None)
        destinations == DestinationsSection(p, None)
        customers == CustomersSection(p)
        Sum(f) == MapThenSumSet(LAMBDA k : f[k], DOMAIN f)
        Counts(rows) == Sum([k \in DOMAIN rows |-> rows[k].count])
        Amounts(rows) == [c \in Currencies |-> Sum([k \in DOMAIN rows |-> rows[k].revenue[c]])]
    IN
    /\ Sum(revenue.trend) = Sum(revenue.totalRevenue)
    /\ (revenue.bySource = {}) = Nothing(revenue.totalRevenue)
    /\ \A c \in Currencies :
         MapThenSumSet(LAMBDA s : RevenueBySource(p)[s][c], Sources) = revenue.totalRevenue[c]
    /\ operations.active + operations.completed + operations.cancelled = operations.total
    /\ Sum(operations.trend) = operations.total /\ Sum(operations.mix) = operations.total
    /\ \A m \in DOMAIN operations.mix : OperationsSection(p, m).total = operations.mix[m]
    /\ \A dwells \in operations.throughput.dwells : Cardinality(dwells) <= operations.throughput.received
    /\ Counts(destinations.destinations) = operations.total
    /\ Sum(destinations.routes) = Cardinality(InTransit(p))
    /\ \A table \in customers.tables :
         /\ Counts(table) <= operations.total
         /\ (Counts(table) = operations.total) = (customers.active <= TopRows)
    /\ \A d \in DOMAIN customers.growth :
         customers.growth[d] = Cardinality(CustomersBefore(StartOf(d + 1)))
    /\ p = [from |-> 0, to |-> LastDay] =>
         /\ \A table \in customers.tables, c \in Currencies :
              /\ Amounts(table)[c] <= Amounts(destinations.destinations)[c]
              /\ customers.active <= TopRows =>
                   Amounts(table)[c] = Amounts(destinations.destinations)[c]
         /\ customers.active + customers.dormant = customers.new

\* The owner's dashboard, the reports and the customers' home pages tell the same: the
\* shipments that customers see as active or completed are those that the company counts
\* so, and some customer is told to pay exactly when something is owed.
PagesAgree ==
  LET Homes == {c \in Customers : ShipmentsFor(c) # {}}
      Home(tile) == MapThenSumSet(LAMBDA c : HomePage(c)[tile], Homes)
      all == [from |-> 0, to |-> LastDay]
  IN
  /\ Home("active") = ExecutiveDashboard(all).activeShipments
  /\ Home("completed") = ExecutiveDashboard(all).completedShipments
  /\ Home("inTransit") + Home("arrivedOrReady") <= Home("active")
  /\ (\E c \in Customers : HomePage(c).invoices = "owed") = (Outstanding # {})
  /\ "clear" \in AttentionSection => OverdueInvoices = {} /\ StaleExceptions = {}
  /\ StaleExceptions \subseteq OpenExceptions([from |-> 0, to |-> DayOf(now)])
  /\ \A p \in Periods :
       LET x == ExecutiveDashboard(p)
           o == OperationsSection(p, None)
       IN /\ x.trend = RevenueSection(p).trend
          /\ o.active <= x.activeShipments
          /\ x.itemsReceived >= o.throughput.received
          /\ Activity(p).handedOver >= Cardinality(HandoffsIn(p))
          /\ ExceptionsSection(p).open + ExceptionsSection(p).resolved = Cardinality(ExceptionsIn(p))

\* What customers are told they owe is what the company is told it is owed: the
\* balances on the customers' home pages add up to the outstanding balance of the
\* reports and to its ages, and the invoices they can pay are the open ones
\* (two computations, of AnalyticsService and of the portal's page).
OneBalance ==
  /\ \A c \in Currencies :
       LET owed == Owed(Outstanding)[c] IN
         /\ MapThenSumSet(LAMBDA x : OutstandingBalance(x)[c], Customers) = owed
         /\ MapThenSumSet(LAMBDA b : OutstandingAging[b][c], DOMAIN OutstandingAging) = owed
  /\ UNION {Unpaid(c) : c \in Customers} = OpenInvoices
  /\ \A c \in Customers : PayNowTarget(c) # None => OutstandingBalance(c) # Owed({})
  /\ \A i \in Invoices : Bucket(i) > 1 /\ i \in Outstanding => i \in OverdueInvoices

\* The figures that the company is shown agree with one another. They are of the records
\* alone, and all records come about with no page or the staff's open, where they are compared.
FiguresAgree ==
  /\ tab.page \in {"none", "staff"} => PeriodsAddUp /\ TablesAddUp /\ PagesAgree
  /\ tab.page = "none" => OneBalance

\* A page that waits for answers comes to show them or an error: it is not left
\* loading, and no button is left disabled (the pages' loading and busy flags).
PageSettles == []<>~(Disabled \/ Skeleton \/ RelatedSkeleton)
=============================================================================

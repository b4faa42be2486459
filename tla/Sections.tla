-------------------------------- MODULE Sections --------------------------------
(***************************************************************************)
(* What the pages make of the figures of Records: the sections of the      *)
(* reports, the owner's dashboard and the home page of a customer. Each    *)
(* operator is what one section shows: its tiles, the rows of its tables,  *)
(* the points of its charts. A table or chart has rows only for what       *)
(* occurred; one without rows is replaced by a sentence that says so.      *)
(***************************************************************************)
EXTENDS Records

CONSTANTS
  DestinationOf,   \* shipment -> its destination
  RouteOf          \* shipment -> its route, or None

ASSUME SectionsAssumption == DOMAIN DestinationOf = Shipments /\ DOMAIN RouteOf = Shipments

Nothing(amounts) == \A k \in DOMAIN amounts : amounts[k] = 0
Occurring(rows) == [k \in {x \in DOMAIN rows : rows[x] # 0} |-> rows[k]]
Points(trend) ==
  Occurring([d \in DOMAIN trend |-> MapThenSumSet(LAMBDA c : trend[d][c], DOMAIN trend[d])])

\* The warnings of the reports, and of the dashboard, which says when there are none.
AlertsStrip ==
  (IF OverdueInvoices # {} THEN {"overdueInvoices"} ELSE {})
  \cup (IF StaleExceptions # {} THEN {"staleExceptions"} ELSE {})
AttentionSection == IF AlertsStrip = {} THEN {"clear"} ELSE AlertsStrip

\* What staff see who are not shown the owner's dashboard: what is so now.
Overview ==
  [activeShipments |-> Cardinality({s \in Shipments : /\ shipment[s].created # Unset
                                                      /\ shipment[s].status \notin Terminal}),
   totalCustomers |-> Cardinality({c \in Customers : customer[c] # Unset}),
   openInvoices |-> Cardinality(OpenInvoices)]

\* The chart sums the currencies of a day, under a caveat if a day has two.
RevenueSection(p) ==
  [totalRevenue |-> TotalRevenue(p), outstandingBalance |-> Owed(Outstanding),
   trend |-> Points(RevenueTrend(p)),
   caveat |-> \E d \in Days : Cardinality({c \in Currencies : RevenueTrend(p)[d][c] # 0}) > 1,
   bySource |-> {s \in Sources : ~Nothing(RevenueBySource(p)[s])},
   aging |-> OutstandingAging]

OperationsSection(p, mode) ==
  LET o == Operations(p, mode) IN
    [total |-> o.total, active |-> o.active, completed |-> o.completed, cancelled |-> o.cancelled,
     trend |-> Occurring(o.trend), mix |-> Occurring(o.mix), throughput |-> Throughput(p)]

\* The shipments of the period by destination, with what was invoiced for them.
Invoiced(rows) == [c \in Currencies |-> Total * Cardinality({i \in rows : CurrencyOf[i] = c})]
TopDestinations(p, mode) ==
  LET To(d) == {s \in ShipmentsIn(p, mode) : DestinationOf[s] = d}
  IN [d \in {DestinationOf[s] : s \in ShipmentsIn(p, mode)} |->
        [count |-> Cardinality(To(d)),
         revenue |-> Invoiced({i \in Invoices : invoice[i].status # "DRAFT" /\ BillOf[i] \in To(d)})]]

\* A transit is put under its shipment's route only if the shipment was also created
\* in the period and has the mode asked for. Else it is under "Unassigned Route".
RoutePerformance(p, mode) ==
  LET Route(s) == IF s \in ShipmentsIn(p, mode) THEN RouteOf[s] ELSE None
  IN [r \in {Route(s) : s \in InTransit(p)} |-> Cardinality({s \in InTransit(p) : Route(s) = r})]

\* No rate, and no average, without something to take it of.
DestinationsSection(p, mode) ==
  [rate |-> HandoffsIn(p) # {} \/ Returns(p) # {},
   average |-> InTransit(p) # {},
   destinations |-> TopDestinations(p, mode), routes |-> RoutePerformance(p, mode)]

\* A customer is active by a shipment of the period; those that are not are dormant.
\* The table is one of those that the limit of its rows allows.
CustomersSection(p) ==
  LET active == {OwnerOf[s] : s \in ShipmentsIn(p, None)}
      all == Overview.totalCustomers
      Row(c) == [count |-> ShipmentsOf(p, c), revenue |-> Invoiced(BilledIn(p, c))]
  IN [new |-> Cardinality(NewCustomers(p)), active |-> Cardinality(active),
      dormant |-> IF all > Cardinality(active) THEN all - Cardinality(active) ELSE 0,
      growth |-> GrowthTrend(p),
      tables |-> {[c \in top |-> Row(c)] : top \in TopCustomers(p)}]

ExceptionsSection(p) ==
  [open |-> Cardinality(OpenExceptions(p)),
   resolved |-> Cardinality(ExceptionsIn(p) \ OpenExceptions(p)),
   average |-> ExceptionsIn(p) \ OpenExceptions(p) # {}]

\* The dashboard, which takes no filter but the period. What is active, open and owed
\* is so now.
ExecutiveDashboard(p) ==
  [revenue |-> TotalRevenue(p), outstandingBalance |-> Owed(Outstanding),
   openInvoices |-> Overview.openInvoices, activeShipments |-> Overview.activeShipments,
   completedShipments |-> Operations(p, None).completed,
   itemsReceived |-> Activity(p).received, attention |-> AttentionSection,
   trend |-> Points(RevenueTrend(p))]

\* The home page: a customer without shipments is not shown invoices either.
HomePage(c) ==
  LET Labels == [s \in ShipmentsFor(c) |-> LabelOf[shipment[s].status]]
      In(bucket) == Cardinality({s \in DOMAIN Labels : BucketOf(Labels[s]) = bucket})
  IN IF ShipmentsFor(c) = {} THEN [invoices |-> "hidden"]
     ELSE [active |-> Cardinality({s \in DOMAIN Labels : IsActive(Labels[s])}),
           inTransit |-> In("inTransit"), arrivedOrReady |-> In("arrivedOrReady"),
           completed |-> In("completed"),
           invoices |-> IF InvoicesFor(c) = {} THEN "none"
                        ELSE IF Nothing(OutstandingBalance(c)) THEN "allPaid" ELSE "owed",
           payNow |-> PayNowTarget(c)]
=============================================================================

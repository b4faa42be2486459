------------------------------ MODULE InvoiceDesk ------------------------------
(***************************************************************************)
(* The pages through which an invoice is made, issued and paid, on top of  *)
(* Payments: the form for a new invoice, the invoice's page on the staff   *)
(* dashboard and its page in the customer portal, which the customer may   *)
(* have open in several tabs and which Stripe sends the customer back to.  *)
(*                                                                         *)
(* A page decides by what it last loaded; the service decides again by     *)
(* what it reads. A page is answered when its request ends, with an error  *)
(* when it was cut short. Of the form's items and amounts nothing is kept  *)
(* (Total is given); the payments table of the staff page is left out.     *)
(***************************************************************************)
EXTENDS Payments

CONSTANTS
  Customers,
  Shipments,
  OwnerOf,      \* shipment -> its customer, which never changes
  Tabs,         \* the customer's tabs on the invoice
  Attempts,     \* how often the page looks after a payment (5 in the code)
  None,
  MaxVisits     \* bound: pages opened or reloaded

ASSUME DeskAssumption ==
  /\ OwnerOf \in [Shipments -> Customers]
  /\ Attempts \in Nat \ {0} /\ MaxVisits \in Nat
  /\ None \notin Customers \cup Shipments \cup Workers \cup Sessions

VARIABLES
  form,     \* the new-invoice form, and the lookups of shipments it awaits
  bills,    \* the invoices it made: customer and shipment
  desk,     \* the staff page
  tab,      \* tab -> the portal page
  visits

pages == <<form, bills, desk, tab, visits>>
allVars == <<vars, pages>>

\* What the API shows of the invoice (toSummary). Past its due date it is shown
\* OVERDUE, which the pages treat as the status it stands for.
Summary == [status |-> invoice.status, paid |-> invoice.paid]

Nothing == [status |-> "NONE", paid |-> 0]
Unread == [invoice |-> Nothing, listed |-> 0]
BlankTab(result, session) ==
  [on |-> "page", result |-> result, session |-> session, first |-> Unread, shown |-> Nothing,
   listed |-> 0, pending |-> FALSE, left |-> IF result = "success" THEN Attempts ELSE 1,
   awaits |-> None]

EmptyForm ==
  [customer |-> None, asked |-> {}, offered |-> {}, shipment |-> None, sent |-> <<>>]

DeskInit ==
  /\ Init
  /\ form = EmptyForm
  /\ bills = {}
  /\ desk = [shown |-> Nothing, loads |-> FALSE, error |-> FALSE, awaits |-> None]
  /\ tab = [t \in Tabs |-> [BlankTab("none", None) EXCEPT !.on = "closed", !.left = 0]]
  /\ visits = 0

-----------------------------------------------------------------------------
\* The form. Every choice of a customer asks for that customer's shipments, and
\* an answer is shown whoever is chosen when it comes.

ChooseCustomer(c) ==
  /\ bills = {}
  /\ form.customer # c
  /\ form' = [form EXCEPT !.customer = c, !.shipment = None, !.asked = @ \cup {c}]
  /\ UNCHANGED <<vars, bills, desk, tab, visits>>

ShipmentsOf(c) == {x \in Shipments : OwnerOf[x] = c}

OfferShipments(c) ==
  /\ c \in form.asked
  /\ form' = [form EXCEPT !.asked = @ \ {c}, !.offered = ShipmentsOf(c)]
  /\ UNCHANGED <<vars, bills, desk, tab, visits>>

ChooseShipment(x) ==
  /\ x \in form.offered /\ form.customer # None
  /\ form' = [form EXCEPT !.shipment = x]
  /\ UNCHANGED <<vars, bills, desk, tab, visits>>

\* Bound: one invoice. A form whose answer was lost is not sent again.
SubmitForm ==
  /\ form.sent = <<>> /\ form.customer # None /\ form.shipment # None
  /\ bills = {}
  /\ form' = [form EXCEPT !.sent = <<form.customer, form.shipment>>]
  /\ UNCHANGED <<vars, bills, desk, tab, visits>>

\* InvoicesService.create.
\* Mistake for DeskIsRight: any shipment of the tenant will do.
FitsTenant(c, x) == c \in Customers /\ x \in Shipments
Fits(c, x) == c \in Customers /\ x \in ShipmentsOf(c)

\* The answer leads to the staff page; after an error, or when the answer is
\* lost, the form is as it was.
Create ==
  /\ form.sent # <<>>
  /\ LET c == form.sent[1]
         x == form.sent[2]
     IN bills' = IF Fits(c, x) THEN bills \cup {[customer |-> c, shipment |-> x]} ELSE bills
  /\ \/ /\ bills' # bills
        /\ form' = EmptyForm
        /\ desk' = [desk EXCEPT !.loads = TRUE]
        /\ UNCHANGED failures
     \/ /\ bills' = bills
        /\ form' = [form EXCEPT !.sent = <<>>]
        /\ UNCHANGED <<desk, failures>>
     \/ /\ failures < MaxFailures
        /\ failures' = failures + 1
        /\ form' = [form EXCEPT !.sent = <<>>]
        /\ UNCHANGED desk
  /\ UNCHANGED <<books, stripe, handed, request, tab, visits>>

-----------------------------------------------------------------------------
\* Answers to the pages: what becomes of them when the request of worker k ends.

\* Staff page: loads again after an answer; a failed issue replaces the page by
\* the error, a failed payment leaves it as it is.
DeskAfter(k, ok) ==
  IF desk.awaits # k THEN desk
  ELSE [desk EXCEPT !.awaits = None, !.loads = ok, !.error = ~ok /\ At(k, "issue")]

\* Portal page: the browser leaves for Stripe, or the button works again.
\* Mistake for PagesAnswer: the button stays disabled after an error.
TabAfterStuck(t, k, ok) ==
  IF tab[t].awaits # k \/ ~ok \/ ~At(k, "reply") THEN tab[t]
  ELSE [BlankTab("none", request[k].session) EXCEPT !.on = "stripe", !.left = 0]
TabAfter(t, k, ok) ==
  IF tab[t].awaits # k THEN tab[t]
  ELSE IF ok THEN [BlankTab("none", request[k].session) EXCEPT !.on = "stripe", !.left = 0]
  ELSE [tab[t] EXCEPT !.awaits = None]

Answer(k, ok) ==
  /\ desk' = DeskAfter(k, ok)
  /\ tab' = [t \in Tabs |-> TabAfter(t, k, ok)]
  /\ UNCHANGED <<form, bills, visits>>

Working(k) ==
  /\ Continue(k)
  /\ IF request'[k] = Free THEN Answer(k, TRUE) ELSE UNCHANGED pages

CutShort(k) == Fail(k) /\ Answer(k, FALSE)

Webhook(k, s) == Deliver(k, s) /\ UNCHANGED pages

-----------------------------------------------------------------------------
\* The staff page.

Visit == visits < MaxVisits /\ visits' = visits + 1

OpenDesk ==
  /\ bills # {} /\ ~desk.loads
  /\ Visit
  /\ desk' = [shown |-> Nothing, loads |-> TRUE, error |-> FALSE, awaits |-> None]
  /\ UNCHANGED <<vars, form, bills, tab>>

LoadDesk ==
  /\ desk.loads
  /\ desk' = [desk EXCEPT !.shown = Summary, !.loads = FALSE]
  /\ UNCHANGED <<vars, form, bills, tab, visits>>

LoadDeskFails ==
  /\ desk.loads /\ failures < MaxFailures
  /\ failures' = failures + 1
  /\ desk' = [desk EXCEPT !.loads = FALSE, !.error = TRUE]
  /\ UNCHANGED <<books, stripe, handed, request, form, bills, tab, visits>>

DeskReady == desk.shown # Nothing /\ ~desk.error /\ ~desk.loads /\ desk.awaits = None

\* Only a DRAFT can be issued: the service refuses what has been issued since.
PressIssue(k) ==
  /\ DeskReady /\ desk.shown.status = "DRAFT" /\ At(k, "free")
  /\ IF invoice.status = "DRAFT"
     THEN BeginIssue(k) /\ desk' = [desk EXCEPT !.awaits = k]
     ELSE desk' = [desk EXCEPT !.error = TRUE] /\ UNCHANGED vars
  /\ UNCHANGED <<form, bills, tab, visits>>

\* A refused amount changes nothing but the form's error.
PressRecord(k, amount) ==
  /\ DeskReady /\ desk.shown.status \in Payable
  /\ amount <= Total - desk.shown.paid
  /\ BeginRecord(k, amount)
  /\ desk' = [desk EXCEPT !.awaits = k]
  /\ UNCHANGED <<form, bills, tab, visits>>

-----------------------------------------------------------------------------
\* The portal page. It is opened plainly, or by Stripe with the outcome.

OpenTab(t) ==
  /\ bills # {} /\ tab[t].on # "stripe"
  /\ Visit
  /\ tab' = [tab EXCEPT ![t] =
               BlankTab(IF tab[t].on = "page" THEN tab[t].result ELSE "none", tab[t].session)]
  /\ UNCHANGED <<vars, form, bills, desk>>

\* getInvoice of the portal: first the invoice (a DRAFT is not found), then its
\* payments. The page asks again while an online payment is PENDING, up to
\* Attempts times.
Rows(status) == {s \in Sessions : payment[s].status = status}
Listed == manual + MapThenSumSet(LAMBDA s : payment[s].amount, Rows("COMPLETED"))
Database == [invoice |-> Summary, listed |-> Listed]

FirstQuery(t) ==
  /\ tab[t].left > 0 /\ tab[t].first = Unread
  /\ tab' = [tab EXCEPT ![t] = IF invoice.status = "DRAFT" THEN [@ EXCEPT !.left = 0]
                                                           ELSE [@ EXCEPT !.first = Database]]
  /\ UNCHANGED <<vars, form, bills, desk, visits>>

InvoiceFirst(first) == [invoice |-> first.invoice, listed |-> Listed]

SecondQuery(t) ==
  LET answer == InvoiceFirst(tab[t].first)
      waits == Rows("PENDING") # {}
      left == IF waits THEN tab[t].left - 1 ELSE 0
  IN
  /\ tab[t].left > 0 /\ tab[t].first # Unread
  /\ tab' = [tab EXCEPT ![t] =
               [@ EXCEPT !.shown = answer.invoice, !.listed = answer.listed,
                  !.pending = waits, !.first = Unread, !.left = left]]
  /\ UNCHANGED <<vars, form, bills, desk, visits>>

\* A request that fails shows the error, and the page asks no more.
QueryFails(t) ==
  /\ tab[t].left > 0 /\ failures < MaxFailures
  /\ failures' = failures + 1
  /\ tab' = [tab EXCEPT ![t] = [@ EXCEPT !.left = 0, !.first = Unread]]
  /\ UNCHANGED <<books, stripe, handed, request, form, bills, desk, visits>>

CanPayOnline(t) == tab[t].shown.status \in Payable /\ tab[t].shown.paid < Total

\* A refused checkout changes nothing but the page's error.
PayNow(k, t) ==
  /\ tab[t].on = "page" /\ CanPayOnline(t) /\ tab[t].awaits = None
  /\ BeginCheckout(k)
  /\ tab' = [tab EXCEPT ![t].awaits = k]
  /\ UNCHANGED <<form, bills, desk, visits>>

PayAtStripe(t) ==
  /\ tab[t].on = "stripe"
  /\ Pay(tab[t].session)
  /\ tab' = [tab EXCEPT ![t] = BlankTab("success", @.session)]
  /\ UNCHANGED <<form, bills, desk, visits>>

GoBack(t) ==
  /\ tab[t].on = "stripe"
  /\ tab' = [tab EXCEPT ![t] = BlankTab("cancelled", None)]
  /\ UNCHANGED <<vars, form, bills, desk, visits>>

Timeout(s) == Lapse(s) /\ UNCHANGED pages

-----------------------------------------------------------------------------

DeskNext ==
  \/ \E c \in Customers : ChooseCustomer(c) \/ OfferShipments(c)
  \/ \E x \in Shipments : ChooseShipment(x)
  \/ SubmitForm \/ Create
  \/ OpenDesk \/ LoadDesk \/ LoadDeskFails
  \/ \E k \in Workers : Working(k) \/ CutShort(k) \/ PressIssue(k)
  \/ \E k \in Workers, s \in Sessions : Webhook(k, s)
  \/ \E k \in Workers, amount \in Amounts : PressRecord(k, amount)
  \/ \E t \in Tabs : \/ OpenTab(t) \/ FirstQuery(t) \/ SecondQuery(t) \/ QueryFails(t)
                     \/ PayAtStripe(t) \/ GoBack(t)
  \/ \E k \in Workers, t \in Tabs : PayNow(k, t)
  \/ \E s \in Sessions : Timeout(s)

\* The API runs its requests and answers the pages' reads; nobody has to press
\* anything, and Stripe need not deliver.
DeskFairness ==
  /\ \A k \in Workers : WF_allVars(Working(k))
  /\ WF_allVars(Create) /\ WF_allVars(LoadDesk)
  /\ \A t \in Tabs : WF_allVars(FirstQuery(t)) /\ WF_allVars(SecondQuery(t))

DeskSpec == DeskInit /\ [][DeskNext]_allVars /\ DeskFairness

-----------------------------------------------------------------------------
\* Properties.

\* The pages hold values of their types, a page awaits only a request under way,
\* and a tab is at Stripe only with a session it was given.
DeskTypeOK ==
  /\ TypeOK
  /\ form.offered \subseteq Shipments /\ form.asked \subseteq Customers
  /\ desk.shown.status \in InvoiceStatuses \cup {"NONE"} /\ desk.shown.paid \in 0..Total
  /\ desk.awaits # None => ~At(desk.awaits, "free")
  /\ \A t \in Tabs :
       /\ tab[t].shown.status \in (InvoiceStatuses \cup {"NONE"}) \ {"DRAFT"}
       /\ tab[t].left \in 0..Attempts
       /\ tab[t].awaits # None => ~At(tab[t].awaits, "free")
       /\ tab[t].on = "stripe" => tab[t].session \in handed

\* No customer is invoiced for another's shipment, although the form offers and
\* keeps the shipments of a customer chosen before when that answer comes late
\* (InvoicesService.create checks the pair again).
InvoiceMatchesShipment == \A b \in bills : OwnerOf[b.shipment] = b.customer

\* What the portal shows as paid is accounted for by the payments it lists
\* beside it, whatever is recorded or confirmed between the two reads
\* (CustomerPortalService.getInvoice).
PaidIsListed == \A t \in Tabs : tab[t].shown.paid <= tab[t].listed

\* What is billed and what is shown agree with the records behind them.
DeskIsRight == DeskTypeOK /\ InvoiceMatchesShipment /\ PaidIsListed

\* Every request and every load of a page ends: no button stays disabled and no
\* page stays blank, also when the API fails.
PagesAnswer ==
  /\ desk.awaits # None ~> desk.awaits = None
  /\ \A t \in Tabs : tab[t].awaits # None ~> tab[t].awaits = None
  /\ \A t \in Tabs : tab[t].left > 0 ~> tab[t].left = 0

=============================================================================

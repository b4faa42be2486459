------------------------------- MODULE Payments -------------------------------
(***************************************************************************)
(* An invoice and the money paid on it: payments recorded by staff, and    *)
(* online payments through Stripe Checkout sessions, confirmed by          *)
(* webhooks. InvoicesService.issue, PaymentsService, the checkout branch   *)
(* of WebhooksController with its ledger, and what they rely on of Stripe. *)
(*                                                                         *)
(* A worker is one HTTP request in progress. It checks what it read, and   *)
(* then takes one step for each database transaction or call to Stripe,    *)
(* with the values it read before; a lost connection or a restart ends it  *)
(* between two of them. Nothing reads two invoices, so there is one.       *)
(*                                                                         *)
(* Money is a number of cents. Left out: the tenant and the customer,      *)
(* who may see an invoice, OVERDUE (computed on display, never stored),    *)
(* the notifications, and VOID, which nothing sets.                        *)
(***************************************************************************)
EXTENDS Integers, FiniteSetsExt

CONSTANTS
  Sessions,      \* bound: the Checkout sessions there may ever be
  Workers,
  Total,         \* Invoice.total
  Amounts,       \* what staff enter as the amount of a payment
  MaxFailures    \* bound: requests cut short and calls to Stripe that are lost

ASSUME MoneyAssumption == Total \in Nat /\ Amounts \subseteq Nat \ {0}
ASSUME BoundAssumption == MaxFailures \in Nat /\ IsFiniteSet(Sessions)

VARIABLES
  invoice,    \* status and amountPaid
  manual,     \* the sum of the MANUAL Payment rows, all COMPLETED
  payment,    \* session -> its ONLINE Payment row
  stripe,     \* session -> its state at Stripe
  handed,     \* the sessions whose URL the customer was given
  ledger,     \* StripeWebhookEvent: the sessions whose completion was processed
  request,    \* worker -> what it still has to do, with the values it read
  failures

books == <<invoice, manual, payment, ledger>>
vars == <<books, stripe, handed, request, failures>>

InvoiceStatuses == {"DRAFT", "SENT", "PARTIALLY_PAID", "PAID", "OVERDUE", "VOID"}
Payable == {"SENT", "PARTIALLY_PAID", "OVERDUE"}

NoRow == [status |-> "NONE", amount |-> 0]
Free == [at |-> "free"]

Init ==
  /\ invoice = [status |-> "DRAFT", paid |-> 0]
  /\ manual = 0
  /\ payment = [s \in Sessions |-> NoRow]
  /\ stripe = [s \in Sessions |-> "none"]
  /\ handed = {}
  /\ ledger = {}
  /\ request = [k \in Workers |-> Free]
  /\ failures = 0

At(k, place) == request[k].at = place
Go(k, next) == request' = [request EXCEPT ![k] = next]

StatusFor(paid) == IF paid = Total THEN "PAID" ELSE "PARTIALLY_PAID"

-----------------------------------------------------------------------------
\* InvoicesService.issue.

BeginIssue(k) ==
  /\ At(k, "free")
  /\ invoice.status = "DRAFT"
  /\ Go(k, [at |-> "issue"])
  /\ UNCHANGED <<books, stripe, handed, failures>>

Issue(k) ==
  /\ At(k, "issue")
  /\ invoice' = [invoice EXCEPT !.status = "SENT"]
  /\ Go(k, Free)
  /\ UNCHANGED <<manual, payment, ledger, stripe, handed, failures>>

-----------------------------------------------------------------------------
\* recordPayment: the invoice is read before the transaction, which writes the
\* sum computed from it.

CanRecord(amount) == invoice.status \in Payable /\ invoice.paid + amount <= Total

BeginRecord(k, amount) ==
  /\ At(k, "free")
  /\ CanRecord(amount)
  /\ Go(k, [at |-> "record", amount |-> amount, paid |-> invoice.paid + amount])
  /\ UNCHANGED <<books, stripe, handed, failures>>

Record(k) ==
  /\ At(k, "record")
  /\ manual' = manual + request[k].amount
  /\ invoice' = [status |-> StatusFor(request[k].paid), paid |-> request[k].paid]
  /\ Go(k, Free)
  /\ UNCHANGED <<payment, ledger, stripe, handed, failures>>

-----------------------------------------------------------------------------
\* createOnlineCheckoutSession: a session for the whole balance, after the one
\* still pending is expired at Stripe and marked FAILED here.

\* Mistake for PendingCoversBalance: manual payments are subtracted twice.
BalanceLessManual == Total - invoice.paid - manual
Balance == Total - invoice.paid

\* Mistake for OnePendingRow: a session that lapsed is not superseded.
PriorPendingOpen == {s \in Sessions : payment[s].status = "PENDING" /\ stripe[s] = "open"}
PriorPending == {s \in Sessions : payment[s].status = "PENDING"}

Unused == {s \in Sessions : stripe[s] = "none"}

BeginCheckout(k) ==
  /\ At(k, "free")
  /\ invoice.status \in Payable
  /\ Balance > 0
  /\ Unused # {}
  /\ \/ /\ PriorPending = {}
        /\ Go(k, [at |-> "create", amount |-> Balance])
     \/ \E p \in PriorPending : Go(k, [at |-> "expire", prior |-> p, amount |-> Balance])
  /\ UNCHANGED <<books, stripe, handed, failures>>

\* expireCheckoutSession swallows every error: a session already paid, and a
\* call that never reached Stripe.
Expire(k) ==
  /\ At(k, "expire")
  /\ \/ /\ stripe' = [stripe EXCEPT ![request[k].prior] = IF @ = "open" THEN "expired" ELSE @]
        /\ UNCHANGED failures
     \/ /\ failures < MaxFailures
        /\ failures' = failures + 1
        /\ UNCHANGED stripe
  /\ Go(k, [request[k] EXCEPT !.at = "supersede"])
  /\ UNCHANGED <<books, handed>>

\* By the row's id alone: whatever its status has become.
Supersede(k) ==
  /\ At(k, "supersede")
  /\ payment' = [payment EXCEPT ![request[k].prior].status = "FAILED"]
  /\ Go(k, [at |-> "create", amount |-> request[k].amount])
  /\ UNCHANGED <<invoice, manual, ledger, stripe, handed, failures>>

CreateSession(k) ==
  /\ At(k, "create")
  /\ \E s \in Unused :
       /\ stripe' = [stripe EXCEPT ![s] = "open"]
       /\ Go(k, [at |-> "insert", session |-> s, amount |-> request[k].amount])
  /\ UNCHANGED <<books, handed, failures>>

Insert(k) ==
  /\ At(k, "insert")
  /\ payment' = [payment EXCEPT ![request[k].session] =
                   [status |-> "PENDING", amount |-> request[k].amount]]
  /\ Go(k, [at |-> "reply", session |-> request[k].session])
  /\ UNCHANGED <<invoice, manual, ledger, stripe, handed, failures>>

Reply(k) ==
  /\ At(k, "reply")
  /\ handed' = handed \cup {request[k].session}
  /\ Go(k, Free)
  /\ UNCHANGED <<books, stripe, failures>>

-----------------------------------------------------------------------------
\* handleStripeWebhook, checkout.session.completed: Stripe delivers the event
\* until it is acknowledged, maybe more than once. An event in the ledger is
\* ignored; one whose row is not PENDING is only marked.

\* Mistake for ChargeSettled: marked before it is processed.
DeliverMarkFirst(k, s) ==
  /\ At(k, "free")
  /\ stripe[s] = "paid"
  /\ s \notin ledger
  /\ Go(k, IF payment[s].status = "PENDING" THEN [at |-> "apply", session |-> s] ELSE Free)
  /\ ledger' = ledger \cup {s}
  /\ UNCHANGED <<invoice, manual, payment, stripe, handed, failures>>

Deliver(k, s) ==
  /\ At(k, "free")
  /\ stripe[s] = "paid"
  /\ s \notin ledger
  /\ Go(k, [at |-> IF payment[s].status = "PENDING" THEN "apply" ELSE "mark", session |-> s])
  /\ UNCHANGED <<books, stripe, handed, failures>>

\* Mistake for AmountIsRight: an overpayment is not clamped.
RaisedUnclamped(paid, amount) == paid + amount
Raised(paid, amount) == IF paid + amount > Total THEN Total ELSE paid + amount

\* The transaction of completeOnlinePayment reads the invoice; at READ COMMITTED
\* nothing keeps it as read until the writes.
ReadInvoice(k) ==
  /\ At(k, "apply")
  /\ LET s == request[k].session IN
       Go(k, [at |-> "complete", session |-> s,
              paid |-> Raised(invoice.paid, payment[s].amount)])
  /\ UNCHANGED <<books, stripe, handed, failures>>

Complete(k) ==
  /\ At(k, "complete")
  /\ payment' = [payment EXCEPT ![request[k].session].status = "COMPLETED"]
  /\ invoice' = [status |-> StatusFor(request[k].paid), paid |-> request[k].paid]
  /\ Go(k, [at |-> "mark", session |-> request[k].session])
  /\ UNCHANGED <<manual, ledger, stripe, handed, failures>>

Mark(k) ==
  /\ At(k, "mark")
  /\ ledger' = ledger \cup {request[k].session}
  /\ Go(k, Free)
  /\ UNCHANGED <<invoice, manual, payment, stripe, handed, failures>>

-----------------------------------------------------------------------------
\* Outside: the customer pays a session whose URL was given to them; a session
\* lapses; a request ends early.

Pay(s) ==
  /\ s \in handed
  /\ stripe[s] = "open"
  /\ stripe' = [stripe EXCEPT ![s] = "paid"]
  /\ UNCHANGED <<books, handed, request, failures>>

Lapse(s) ==
  /\ stripe[s] = "open"
  /\ stripe' = [stripe EXCEPT ![s] = "expired"]
  /\ UNCHANGED <<books, handed, request, failures>>

Fail(k) ==
  /\ ~ At(k, "free")
  /\ failures < MaxFailures
  /\ failures' = failures + 1
  /\ Go(k, Free)
  /\ UNCHANGED <<books, stripe, handed>>

Begin(k) ==
  \/ BeginIssue(k)
  \/ \E amount \in Amounts : BeginRecord(k, amount)
  \/ BeginCheckout(k)
  \/ \E s \in Sessions : Deliver(k, s)

Continue(k) ==
  \/ Issue(k) \/ Record(k) \/ Expire(k) \/ Supersede(k) \/ CreateSession(k) \/ Insert(k)
  \/ Reply(k) \/ ReadInvoice(k) \/ Complete(k) \/ Mark(k)

Next ==
  \/ \E k \in Workers : Begin(k) \/ Continue(k) \/ Fail(k)
  \/ \E s \in Sessions : Pay(s) \/ Lapse(s)

Spec == Init /\ [][Next]_vars

\* A request runs on unless it is cut short, and Stripe delivers an event again
\* until it has been acknowledged. Nothing obliges staff or customers to act.
Fairness ==
  /\ \A k \in Workers : WF_vars(Continue(k))
  /\ \A s \in Sessions : WF_vars(\E k \in Workers : Deliver(k, s))

\* Nothing keeps two requests about one invoice apart, and each writes what it
\* computed from what it read. The promises below hold as long as they do not
\* overlap in these ways; any other two may.

\* A checkout begins after the one before has inserted its row, or has died.
CheckoutsApart ==
  \A j, k \in Workers :
    {request[j].at, request[k].at} \subseteq {"expire", "supersede", "create", "insert"} => j = k

\* Between the read and the write of recordPayment, nobody else writes amountPaid.
RecordsApart ==
  \A j, k \in Workers : At(j, "record") /\ request[k].at \in {"record", "complete"} => j = k

\* The payment that a checkout supersedes is not being completed.
SupersedesApart ==
  \A j, k \in Workers :
    request[j].at \in {"expire", "supersede"} /\ At(k, "complete")
      => request[k].session # request[j].prior

IssuesApart == \A j, k \in Workers : At(j, "issue") /\ At(k, "issue") => j = k

BooksApart == RecordsApart /\ SupersedesApart /\ IssuesApart

ApartSpec == Init /\ [][Next /\ BooksApart' /\ CheckoutsApart']_vars /\ Fairness

-----------------------------------------------------------------------------
\* Properties.

\* What a request carries, by what it still has to do.
Requests ==
  [at : {"free", "issue"}]
    \cup [at : {"record"}, amount : Amounts, paid : 1..Total]
    \cup [at : {"expire", "supersede"}, prior : Sessions, amount : 1..Total]
    \cup [at : {"create"}, amount : 1..Total]
    \cup [at : {"insert"}, session : Sessions, amount : 1..Total]
    \cup [at : {"reply", "apply", "mark"}, session : Sessions]
    \cup [at : {"complete"}, session : Sessions, paid : 0..Total]

\* Every row holds values of its type; no more is ever paid than the total.
TypeOK ==
  /\ invoice \in [status : InvoiceStatuses, paid : 0..Total]
  /\ manual \in Nat
  /\ payment \in [Sessions -> [status : {"NONE", "PENDING", "COMPLETED", "FAILED"},
                               amount : 0..Total]]
  /\ stripe \in [Sessions -> {"none", "open", "paid", "expired"}]
  /\ handed \subseteq Sessions /\ ledger \subseteq Sessions
  /\ request \in [Workers -> Requests]
  /\ failures \in 0..MaxFailures

\* The status an invoice is left in tells how much of it is paid: the two paths
\* that write it and issue agree, whatever order they run in.
StatusMatchesAmount ==
  /\ invoice.status \in {"DRAFT", "SENT"} => invoice.paid = 0
  /\ invoice.status = "PARTIALLY_PAID" => 0 < invoice.paid /\ invoice.paid < Total
  /\ invoice.status = "PAID" => invoice.paid = Total

Completed == {s \in Sessions : payment[s].status = "COMPLETED"}

\* amountPaid is the sum of the payments that were completed, up to the total: no
\* recorded or confirmed payment is forgotten and none counts twice, although
\* deliveries are repeated and overlap, checkouts overlap, and requests end
\* between two writes. (Two overlapping recordings do lose one: BooksApart.)
PaidIsRecorded ==
  LET sum == manual + MapThenSumSet(LAMBDA s : payment[s].amount, Completed) IN
    invoice.paid = IF sum > Total THEN Total ELSE sum

\* What the invoice says is paid, in its amount and in its status, is what was
\* paid, and never more than the total.
AmountIsRight == TypeOK /\ StatusMatchesAmount /\ PaidIsRecorded

\* As long as its checkouts do not overlap, at most one online payment of the
\* invoice waits for its confirmation: each new session supersedes the one before,
\* also one that lapsed or whose request died, whatever else goes on meanwhile. The
\* comment promises it "in two tabs" too; there the code does not keep it, since
\* both look for the row before either has made its own (CheckoutsApart).
OnePendingRow ==
  \A s, t \in Sessions :
    payment[s].status = "PENDING" /\ payment[t].status = "PENDING" => s = t

\* A payment that waits covers all that is still owed, so its confirmation always
\* settles the invoice: amountPaid does not fall while recordPayment is not
\* overtaken. This is why a delivery that is processed twice cannot raise
\* amountPaid beyond what is right.
PendingCoversBalance ==
  \A s \in Sessions :
    payment[s].status = "PENDING" => invoice.paid + payment[s].amount >= Total

\* Once the customer has paid a session, its row does not stay PENDING: the
\* event is marked only after it was processed, so a request that dies in
\* between is made up for by the next delivery.
ChargeSettled == \A s \in Sessions : stripe[s] = "paid" ~> payment[s].status # "PENDING"

-----------------------------------------------------------------------------
\* What the repository says and the code does not do.

\* "This method never rejects or discards a completed charge"
\* (completeOnlinePayment): when the event of a session the customer paid has
\* been processed, its payment is COMPLETED.
ChargeNeverDiscarded == \A s \in ledger : payment[s].status = "COMPLETED"
=============================================================================

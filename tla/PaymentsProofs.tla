---------------------------- MODULE PaymentsProofs ----------------------------
(***************************************************************************)
(* What Payments promises, proved for any number of requests at once and   *)
(* any amounts, sessions, payments and failures, each promise from no more *)
(* than which requests must not overlap: what the invoice says is paid is  *)
(* what was paid, and an online payment that waits would settle it. And    *)
(* what the pages of InvoiceDesk show of it, for any number of tabs,       *)
(* customers and shipments.                                                *)
(***************************************************************************)
EXTENDS InvoiceDesk, FiniteSetTheorems, WellFoundedInduction, TLAPS

CheckoutPlaces == {"expire", "supersede", "create", "insert"}

-----------------------------------------------------------------------------
\* What the requests hold.

LEMMA Fields ==
  ASSUME NEW r \in Requests
  PROVE  /\ r.at \in {"free", "issue", "record", "reply", "apply", "complete", "mark"}
                       \cup CheckoutPlaces
         /\ r.at = "free" => r = Free
         /\ r.at = "record" => r.amount \in Nat /\ r.amount > 0 /\ r.paid \in 1..Total
         /\ r.at \in CheckoutPlaces => r.amount \in 1..Total
         /\ r.at \in {"expire", "supersede"} => r.prior \in Sessions
         /\ r.at \in {"insert", "reply", "apply", "complete", "mark"} => r.session \in Sessions
         /\ r.at = "complete" => r.paid \in 0..Total
<1>1. CASE r \in [at : {"free", "issue"}]
  BY <1>1 DEF CheckoutPlaces, Free
<1>2. CASE r \in [at : {"record"}, amount : Amounts, paid : 1..Total]
  <2>1. r.at = "record" /\ r.amount \in Amounts /\ r.paid \in 1..Total
    BY <1>2
  <2>2. \A a \in Amounts : a \in Nat /\ a > 0
    BY MoneyAssumption
  <2> QED
    BY <2>1, <2>2 DEF CheckoutPlaces
<1>3. CASE r \in [at : {"expire", "supersede"}, prior : Sessions, amount : 1..Total]
  BY <1>3 DEF CheckoutPlaces
<1>4. CASE r \in [at : {"create"}, amount : 1..Total]
  BY <1>4 DEF CheckoutPlaces
<1>5. CASE r \in [at : {"insert"}, session : Sessions, amount : 1..Total]
  BY <1>5 DEF CheckoutPlaces
<1>6. CASE r \in [at : {"reply", "apply", "mark"}, session : Sessions]
  BY <1>6 DEF CheckoutPlaces
<1>7. CASE r \in [at : {"complete"}, session : Sessions, paid : 0..Total]
  BY <1>7 DEF CheckoutPlaces
<1> QED
  BY <1>1, <1>2, <1>3, <1>4, <1>5, <1>6, <1>7 DEF Requests

LEMMA FreeFits == Free \in Requests /\ Free.at = "free"
BY DEF Free, Requests

\* Only the request of worker k goes on, as r.
LEMMA Goes ==
  ASSUME request \in [Workers -> Requests], NEW k \in Workers, NEW r, Go(k, r)
  PROVE  /\ request'[k] = r /\ \A j \in Workers : j # k => request'[j] = request[j]
         /\ r \in Requests => request' \in [Workers -> Requests]
BY DEF Go

\* The rows after a write to the row of session s.
RowType == [status : {"NONE", "PENDING", "COMPLETED", "FAILED"}, amount : 0..Total]

LEMMA StatusWritten ==
  ASSUME payment \in [Sessions -> RowType], NEW s \in Sessions,
         NEW status \in {"NONE", "PENDING", "COMPLETED", "FAILED"},
         payment' = [payment EXCEPT ![s].status = status]
  PROVE  /\ payment' \in [Sessions -> RowType]
         /\ payment'[s].status = status
         /\ \A t \in Sessions : /\ payment'[t].amount = payment[t].amount
                                /\ t # s => payment'[t] = payment[t]
BY DEF RowType

-----------------------------------------------------------------------------
\* Every value has its type, whichever requests overlap.

LEMMA TypeInit ==
  ASSUME Init
  PROVE  TypeOK
BY FreeFits, MoneyAssumption, BoundAssumption DEF Init, TypeOK, InvoiceStatuses, NoRow

LEMMA TypeStep ==
  ASSUME TypeOK, [Next]_vars
  PROVE  TypeOK'
<1> USE DEF RowType
<1>1. CASE UNCHANGED vars
  BY <1>1 DEF vars, books, TypeOK
<1>2. ASSUME NEW k \in Workers, Begin(k) \/ Continue(k) \/ Fail(k)
      PROVE  TypeOK'
  <2>1. PICK q \in Requests : q = request[k]
    BY DEF TypeOK
  <2>2. \A r \in Requests : Go(k, r) => request' \in [Workers -> Requests]
    BY Goes DEF TypeOK
  <2>3. CASE BeginIssue(k)
    <3>1. [at |-> "issue"] \in Requests
      BY DEF Requests
    <3> QED
      BY <2>2, <2>3, <3>1 DEF BeginIssue, books, TypeOK
  <2>4. ASSUME NEW amount \in Amounts, BeginRecord(k, amount) PROVE TypeOK'
    <3>1. invoice.paid + amount \in 1..Total
      BY <2>4, MoneyAssumption DEF BeginRecord, CanRecord, TypeOK
    <3>2. [at |-> "record", amount |-> amount, paid |-> invoice.paid + amount] \in Requests
      BY <3>1 DEF Requests
    <3> QED
      BY <2>2, <2>4, <3>2 DEF BeginRecord, books, TypeOK
  <2>5. CASE BeginCheckout(k)
    <3>1. Balance \in 1..Total
      BY <2>5, MoneyAssumption DEF BeginCheckout, Balance, TypeOK
    <3>2. [at |-> "create", amount |-> Balance] \in Requests
      BY <3>1 DEF Requests
    <3>3. \A p \in PriorPending : [at |-> "expire", prior |-> p, amount |-> Balance] \in Requests
      BY <3>1 DEF Requests, PriorPending
    <3>4. request' \in [Workers -> Requests]
      BY <2>2, <2>5, <3>2, <3>3 DEF BeginCheckout
    <3> QED
      BY <2>5, <3>4 DEF BeginCheckout, books, TypeOK
  <2>6. ASSUME NEW s \in Sessions, Deliver(k, s) PROVE TypeOK'
    <3>1. \A at \in {"apply", "mark"} : [at |-> at, session |-> s] \in Requests
      BY DEF Requests
    <3>2. request' \in [Workers -> Requests]
      BY <2>2, <2>6, <3>1 DEF Deliver
    <3> QED
      BY <2>6, <3>2 DEF Deliver, books, TypeOK
  <2>7. CASE Issue(k)
    BY <2>2, <2>7, FreeFits DEF Issue, TypeOK, InvoiceStatuses
  <2>8. CASE Record(k)
    <3>1. q.amount \in Nat /\ q.paid \in 1..Total
      BY <2>1, <2>8, Fields DEF Record, At
    <3>2. StatusFor(q.paid) \in InvoiceStatuses
      BY DEF StatusFor, InvoiceStatuses
    <3>3. /\ manual' = manual + q.amount
          /\ invoice' = [status |-> StatusFor(q.paid), paid |-> q.paid]
          /\ UNCHANGED <<payment, ledger, stripe, handed, failures>> /\ Go(k, Free)
      BY <2>1, <2>8 DEF Record
    <3>4. invoice' \in [status : InvoiceStatuses, paid : 0..Total]
      BY <3>1, <3>2, <3>3
    <3> QED
      BY <2>2, <3>1, <3>3, <3>4, FreeFits DEF TypeOK
  <2>9. CASE Expire(k)
    <3>1. q.at = "expire" /\ q.prior \in Sessions /\ q.amount \in 1..Total
      BY <2>1, <2>9, Fields DEF Expire, At, CheckoutPlaces
    <3>2. [q EXCEPT !.at = "supersede"] \in Requests
      BY <3>1 DEF Requests
    <3>3. request' \in [Workers -> Requests]
      BY <2>1, <2>2, <2>9, <3>2 DEF Expire
    <3>4. /\ stripe' \in [Sessions -> {"none", "open", "paid", "expired"}]
          /\ failures' \in 0..MaxFailures
      BY <2>9, BoundAssumption DEF Expire, TypeOK
    <3> QED
      BY <2>9, <3>3, <3>4 DEF Expire, books, TypeOK
  <2>10. CASE Supersede(k)
    <3>1. q.at = "supersede" /\ q.prior \in Sessions /\ q.amount \in 1..Total
      BY <2>1, <2>10, Fields DEF Supersede, At, CheckoutPlaces
    <3>2. [at |-> "create", amount |-> q.amount] \in Requests
      BY <3>1 DEF Requests
    <3>3. payment' \in [Sessions -> RowType]
      BY <2>1, <2>10, <3>1, StatusWritten DEF Supersede, TypeOK
    <3> QED
      BY <2>1, <2>2, <2>10, <3>2, <3>3 DEF Supersede, TypeOK
  <2>11. CASE CreateSession(k)
    <3>1. q.amount \in 1..Total
      BY <2>1, <2>11, Fields DEF CreateSession, At, CheckoutPlaces
    <3>2. PICK s \in Unused : /\ stripe' = [stripe EXCEPT ![s] = "open"]
                              /\ Go(k, [at |-> "insert", session |-> s, amount |-> q.amount])
      BY <2>1, <2>11 DEF CreateSession
    <3>3. [at |-> "insert", session |-> s, amount |-> q.amount] \in Requests
      BY <3>1 DEF Requests, Unused
    <3>4. request' \in [Workers -> Requests]
      BY <2>2, <3>2, <3>3
    <3> QED
      BY <2>11, <3>2, <3>4 DEF CreateSession, books, TypeOK
  <2>12. CASE Insert(k)
    <3>1. q.session \in Sessions /\ q.amount \in 1..Total
      BY <2>1, <2>12, Fields DEF Insert, At, CheckoutPlaces
    <3>2. [at |-> "reply", session |-> q.session] \in Requests
      BY <3>1 DEF Requests
    <3>3. payment' \in [Sessions -> RowType]
      BY <2>1, <2>12, <3>1 DEF Insert, TypeOK
    <3> QED
      BY <2>1, <2>2, <2>12, <3>2, <3>3 DEF Insert, TypeOK
  <2>13. CASE Reply(k) \/ Mark(k)
    <3>1. q.session \in Sessions
      BY <2>1, <2>13, Fields DEF Reply, Mark, At
    <3> QED
      BY <2>1, <2>2, <2>13, <3>1, FreeFits DEF Reply, Mark, books, TypeOK
  <2>14. CASE ReadInvoice(k)
    <3>1. q.session \in Sessions
      BY <2>1, <2>14, Fields DEF ReadInvoice, At
    <3>2. Raised(invoice.paid, payment[q.session].amount) \in 0..Total
      BY <3>1, MoneyAssumption DEF Raised, TypeOK
    <3>3. [at |-> "complete", session |-> q.session,
           paid |-> Raised(invoice.paid, payment[q.session].amount)] \in Requests
      BY <3>1, <3>2 DEF Requests
    <3> QED
      BY <2>1, <2>2, <2>14, <3>3 DEF ReadInvoice, books, TypeOK
  <2>15. CASE Complete(k)
    <3>1. q.session \in Sessions /\ q.paid \in 0..Total
      BY <2>1, <2>15, Fields DEF Complete, At
    <3>2. [at |-> "mark", session |-> q.session] \in Requests
      BY <3>1 DEF Requests
    <3>3. payment' \in [Sessions -> RowType]
      BY <2>1, <2>15, <3>1, StatusWritten DEF Complete, TypeOK
    <3>4. invoice' \in [status : InvoiceStatuses, paid : 0..Total]
      BY <2>1, <2>15, <3>1 DEF Complete, StatusFor, InvoiceStatuses
    <3> QED
      BY <2>1, <2>2, <2>15, <3>2, <3>3, <3>4 DEF Complete, TypeOK
  <2>16. CASE Fail(k)
    BY <2>2, <2>16, FreeFits, BoundAssumption DEF Fail, books, TypeOK
  <2> QED
    BY <1>2, <2>3, <2>4, <2>5, <2>6, <2>7, <2>8, <2>9, <2>10, <2>11, <2>12, <2>13, <2>14,
       <2>15, <2>16 DEF Begin, Continue
<1>3. ASSUME NEW s \in Sessions, Pay(s) \/ Lapse(s)
      PROVE  TypeOK'
  BY <1>3 DEF Pay, Lapse, books, TypeOK
<1> QED
  BY <1>1, <1>2, <1>3 DEF Next

-----------------------------------------------------------------------------
\* One payment waits, if checkouts do not overlap.

\* What a checkout did away with, and what it will.
Alone(r) ==
  /\ r.at \in {"expire", "supersede"} => PriorPending \subseteq {r.prior}
  /\ r.at \in {"create", "insert"} => PriorPending = {}

OneWaits ==
  /\ TypeOK
  /\ \A s, t \in PriorPending : s = t
  /\ \A k \in Workers : Alone(request[k])

\* A step that lets no payment wait that did not before.
LEMMA NoMoreWait ==
  ASSUME OneWaits, TypeOK', PriorPending' \subseteq PriorPending,
         NEW k \in Workers, \A j \in Workers : j # k => request'[j] = request[j],
         Alone(request[k])'
  PROVE  OneWaits'
<1>1. ASSUME NEW j \in Workers PROVE Alone(request[j])'
  BY DEF OneWaits, Alone
<1> QED
  BY <1>1 DEF OneWaits

LEMMA OneWaitsStep ==
  ASSUME OneWaits, CheckoutsApart, [Next]_vars
  PROVE  OneWaits'
<1>1. TypeOK /\ TypeOK'
  BY TypeStep DEF OneWaits
<1>2. CASE UNCHANGED vars
  BY <1>1, <1>2 DEF vars, books, OneWaits, Alone, PriorPending
<1>3. ASSUME NEW k \in Workers, Begin(k) \/ Continue(k) \/ Fail(k)
      PROVE  OneWaits'
  <2>1. PICK q \in Requests : q = request[k]
    BY <1>1 DEF TypeOK
  <2>2. \A r : Go(k, r) => /\ request'[k] = r
                           /\ \A j \in Workers : j # k => request'[j] = request[j]
    BY <1>1, Goes DEF TypeOK
  <2>3. Alone(q)
    BY <2>1 DEF OneWaits
  <2>4. ASSUME UNCHANGED payment, NEW r, Go(k, r), Alone(r) PROVE OneWaits'
    <3>1. PriorPending' = PriorPending
      BY <2>4 DEF PriorPending
    <3> QED
      BY <1>1, <2>2, <2>4, <3>1, NoMoreWait DEF Alone
  <2>5. CASE \/ BeginIssue(k) \/ \E amount \in Amounts : BeginRecord(k, amount)
             \/ \E s \in Sessions : Deliver(k, s)
             \/ Issue(k) \/ Record(k) \/ Reply(k) \/ ReadInvoice(k) \/ Mark(k) \/ Fail(k)
    <3>1. UNCHANGED payment
      BY <2>5 DEF BeginIssue, BeginRecord, Deliver, Issue, Record, Reply, ReadInvoice, Mark, Fail,
                  books
    <3>2. ASSUME NEW r, Go(k, r),
                 r.at \in {"issue", "record", "apply", "complete", "mark", "free"}
          PROVE  OneWaits'
      BY <2>4, <3>1, <3>2 DEF Alone
    <3>3. CASE BeginIssue(k)
      BY <3>2, <3>3 DEF BeginIssue
    <3>4. CASE \E amount \in Amounts : BeginRecord(k, amount)
      BY <3>2, <3>4 DEF BeginRecord
    <3>5. CASE \E s \in Sessions : Deliver(k, s)
      BY <3>2, <3>5 DEF Deliver
    <3>6. CASE ReadInvoice(k)
      BY <3>2, <3>6 DEF ReadInvoice
    <3>7. CASE Issue(k) \/ Record(k) \/ Reply(k) \/ Mark(k) \/ Fail(k)
      BY <3>2, <3>7, FreeFits DEF Issue, Record, Reply, Mark, Fail
    <3> QED
      BY <2>5, <3>3, <3>4, <3>5, <3>6, <3>7
  <2>6. CASE BeginCheckout(k)
    <3>1. UNCHANGED payment
      BY <2>6 DEF BeginCheckout, books
    <3>2. CASE PriorPending = {} /\ Go(k, [at |-> "create", amount |-> Balance])
      BY <2>4, <3>1, <3>2 DEF Alone
    <3>3. ASSUME NEW p \in PriorPending, Go(k, [at |-> "expire", prior |-> p, amount |-> Balance])
          PROVE  OneWaits'
      <4>1. PriorPending \subseteq {p}
        BY DEF OneWaits
      <4> QED
        BY <2>4, <3>1, <3>3, <4>1 DEF Alone
    <3> QED
      BY <2>6, <3>2, <3>3 DEF BeginCheckout
  <2>7. CASE Expire(k)
    <3>1. q.at = "expire" /\ Go(k, [q EXCEPT !.at = "supersede"]) /\ UNCHANGED payment
      BY <2>1, <2>7 DEF Expire, At, books
    <3>2. /\ [q EXCEPT !.at = "supersede"].at = "supersede"
          /\ [q EXCEPT !.at = "supersede"].prior = q.prior
      BY <3>1 DEF Requests
    <3> QED
      BY <2>3, <2>4, <3>1, <3>2 DEF Alone
  <2>8. CASE Supersede(k)
    <3>1. q.at = "supersede" /\ q.prior \in Sessions /\ PriorPending \subseteq {q.prior}
      BY <2>1, <2>3, <2>8, Fields DEF Supersede, At, Alone
    <3>2. /\ payment' = [payment EXCEPT ![q.prior].status = "FAILED"]
          /\ Go(k, [at |-> "create", amount |-> q.amount])
      BY <2>1, <2>8 DEF Supersede
    <3>3. PriorPending' = {}
      BY <1>1, <3>1, <3>2, StatusWritten DEF TypeOK, RowType, PriorPending
    <3> QED
      BY <1>1, <2>2, <3>2, <3>3, NoMoreWait DEF Alone
  <2>9. CASE CreateSession(k)
    <3>1. q.at = "create" /\ UNCHANGED payment /\ PriorPending = {}
      BY <2>1, <2>3, <2>9 DEF CreateSession, At, books, Alone
    <3>2. PICK s : Go(k, [at |-> "insert", session |-> s, amount |-> q.amount])
      BY <2>1, <2>9 DEF CreateSession
    <3> QED
      BY <2>4, <3>1, <3>2 DEF Alone
  <2>10. CASE Insert(k)
    <3>1. q.at = "insert" /\ PriorPending = {} /\ q.session \in Sessions
      BY <2>1, <2>3, <2>10, Fields DEF Insert, At, Alone
    <3>2. /\ payment' = [payment EXCEPT ![q.session] = [status |-> "PENDING", amount |-> q.amount]]
          /\ Go(k, [at |-> "reply", session |-> q.session])
      BY <2>1, <2>10 DEF Insert
    <3>3. PriorPending' \subseteq {q.session}
      BY <1>1, <3>1, <3>2 DEF TypeOK, PriorPending
    <3>4. ASSUME NEW j \in Workers PROVE Alone(request[j])'
      <4>1. CASE j = k
        BY <2>2, <3>2, <4>1 DEF Alone
      <4>2. CASE j # k
        <5>1. request[j].at \notin {"expire", "supersede", "create", "insert"}
          BY <2>1, <3>1, <4>2 DEF CheckoutsApart
        <5> QED
          BY <2>2, <3>2, <4>2, <5>1 DEF Alone
      <4> QED
        BY <4>1, <4>2
    <3> QED
      BY <1>1, <3>3, <3>4 DEF OneWaits
  <2>11. CASE Complete(k)
    <3>1. q.session \in Sessions
      BY <2>1, <2>11, Fields DEF Complete, At
    <3>2. /\ payment' = [payment EXCEPT ![q.session].status = "COMPLETED"]
          /\ Go(k, [at |-> "mark", session |-> q.session])
      BY <2>1, <2>11 DEF Complete
    <3>3. PriorPending' \subseteq PriorPending
      BY <1>1, <3>1, <3>2, StatusWritten DEF TypeOK, RowType, PriorPending
    <3> QED
      BY <1>1, <2>2, <3>2, <3>3, NoMoreWait DEF Alone
  <2> QED
    BY <1>3, <2>5, <2>6, <2>7, <2>8, <2>9, <2>10, <2>11 DEF Begin, Continue
<1>4. ASSUME NEW s \in Sessions, Pay(s) \/ Lapse(s)
      PROVE  OneWaits'
  BY <1>1, <1>4 DEF Pay, Lapse, books, OneWaits, Alone, PriorPending
<1> QED
  BY <1>2, <1>3, <1>4 DEF Next

\* While the checkouts of the invoice do not overlap, never do two of its online
\* payments wait for their confirmation, whatever other requests run beside them
\* and wherever one ends. (createOnlineCheckoutSession supersedes the one before.)
THEOREM NeverTwoPending == Spec /\ []CheckoutsApart => []OnePendingRow
<1>1. Init => OneWaits
  <2> SUFFICES ASSUME Init PROVE OneWaits
    OBVIOUS
  <2>1. PriorPending = {}
    BY DEF Init, NoRow, PriorPending
  <2>2. \A k \in Workers : Alone(request[k])
    BY FreeFits DEF Init, Alone
  <2> QED
    BY <2>1, <2>2, TypeInit DEF OneWaits
<1>2. OneWaits /\ CheckoutsApart /\ [Next]_vars => OneWaits'
  BY OneWaitsStep
<1>3. OneWaits => OnePendingRow
  BY DEF OneWaits, OnePendingRow, PriorPending
<1> QED
  BY <1>1, <1>2, <1>3, PTL DEF Spec

-----------------------------------------------------------------------------
\* Every payment covers the balance, if recordPayment is not overtaken.

\* What a request holds is still enough, or still so, when it writes.
Enough(r) ==
  /\ r.at \in CheckoutPlaces => invoice.paid + r.amount >= Total
  /\ r.at \in {"expire", "supersede"} => payment[r.prior].status # "NONE"
  /\ r.at \in {"apply", "complete"} => payment[r.session].status # "NONE"
  /\ r.at = "record" => r.paid = invoice.paid + r.amount
  /\ r.at = "complete" => r.paid = Total

RowsCover ==
  \A s \in Sessions : payment[s].status # "NONE" => invoice.paid + payment[s].amount >= Total

AllCover == TypeOK /\ RowsCover /\ \A k \in Workers : Enough(request[k])

LEMMA Numbers ==
  ASSUME TypeOK
  PROVE  /\ Total \in Nat /\ manual \in Nat /\ invoice.paid \in Nat /\ invoice.paid <= Total
         /\ \A s \in Sessions : payment[s].amount \in Nat
BY MoneyAssumption DEF TypeOK

\* A step after which no less is paid and no row is gone. Only a request that
\* records a payment needs the amount as it was.
LEMMA StillEnough ==
  ASSUME AllCover, TypeOK', invoice.paid <= invoice'.paid,
         \A s \in Sessions : payment[s].status # "NONE" => payment'[s].status # "NONE",
         NEW r \in Requests, Enough(r), r.at = "record" => invoice'.paid = invoice.paid
  PROVE  Enough(r)'
<1>1. /\ invoice.paid \in Nat /\ invoice'.paid \in Nat /\ Total \in Nat
      /\ r.at \in CheckoutPlaces => r.amount \in Nat
  BY Fields, MoneyAssumption DEF AllCover, TypeOK
<1>2. /\ r.at \in {"expire", "supersede"} => r.prior \in Sessions
      /\ r.at \in {"apply", "complete"} => r.session \in Sessions
  BY Fields
<1> QED
  BY <1>1, <1>2 DEF Enough

\* The request of worker k goes on as r, and every other keeps what it holds.
LEMMA CoverKept ==
  ASSUME AllCover, TypeOK', RowsCover', invoice.paid <= invoice'.paid,
         \A s \in Sessions : payment[s].status # "NONE" => payment'[s].status # "NONE",
         NEW k \in Workers, \A j \in Workers : j # k => request'[j] = request[j],
         \A j \in Workers : j # k /\ At(j, "record") => invoice'.paid = invoice.paid,
         Enough(request[k])'
  PROVE  AllCover'
<1>1. ASSUME NEW j \in Workers, j # k PROVE Enough(request[j])'
  <2>1. PICK q \in Requests : q = request[j]
    BY DEF AllCover, TypeOK
  <2>2. Enough(q)'
    BY <1>1, <2>1, StillEnough DEF AllCover, At
  <2> QED
    BY <1>1, <2>1, <2>2 DEF Enough
<1> QED
  BY <1>1 DEF AllCover

LEMMA AllCoverStep ==
  ASSUME AllCover, RecordsApart, [Next]_vars
  PROVE  AllCover'
<1>1. TypeOK /\ TypeOK'
  BY TypeStep DEF AllCover
<1>2. CASE UNCHANGED vars
  BY <1>1, <1>2 DEF vars, books, AllCover, Enough, RowsCover
<1>3. ASSUME NEW k \in Workers, Begin(k) \/ Continue(k) \/ Fail(k)
      PROVE  AllCover'
  <2>1. PICK q \in Requests : q = request[k]
    BY <1>1 DEF TypeOK
  <2>2. \A r : Go(k, r) => /\ request'[k] = r
                           /\ \A j \in Workers : j # k => request'[j] = request[j]
    BY <1>1, Goes DEF TypeOK
  <2>3. Enough(q)
    BY <2>1 DEF AllCover
  <2>4. ASSUME UNCHANGED <<invoice, payment>>, NEW r, Go(k, r), Enough(r) PROVE AllCover'
    <3>1. RowsCover'
      BY <2>4 DEF AllCover, RowsCover
    <3>2. Enough(request[k])'
      BY <2>2, <2>4 DEF Enough
    <3>3. invoice.paid <= invoice'.paid
      BY <1>1, <2>4, Numbers
    <3> QED
      BY <1>1, <2>2, <2>4, <3>1, <3>2, <3>3, CoverKept
  <2>5. CASE \/ BeginIssue(k) \/ \E s \in Sessions : Deliver(k, s)
             \/ Reply(k) \/ Mark(k) \/ Fail(k)
    <3>1. UNCHANGED <<invoice, payment>>
      BY <2>5 DEF BeginIssue, Deliver, Reply, Mark, Fail, books
    <3>2. ASSUME NEW r, Go(k, r), r.at \in {"issue", "mark", "free"} PROVE AllCover'
      BY <2>4, <3>1, <3>2 DEF Enough, CheckoutPlaces
    <3>3. ASSUME NEW s \in Sessions, Deliver(k, s) PROVE AllCover'
      <4>1. CASE payment[s].status = "PENDING" /\ Go(k, [at |-> "apply", session |-> s])
        BY <2>4, <3>1, <4>1 DEF Enough, CheckoutPlaces
      <4>2. CASE Go(k, [at |-> "mark", session |-> s])
        BY <3>2, <4>2
      <4> QED
        BY <3>3, <4>1, <4>2 DEF Deliver
    <3>4. CASE BeginIssue(k)
      BY <3>2, <3>4 DEF BeginIssue
    <3>5. CASE Reply(k) \/ Mark(k) \/ Fail(k)
      BY <3>2, <3>5, FreeFits DEF Reply, Mark, Fail
    <3> QED
      BY <2>5, <3>3, <3>4, <3>5
  <2>6. ASSUME NEW amount \in Amounts, BeginRecord(k, amount) PROVE AllCover'
    BY <2>4, <2>6 DEF BeginRecord, books, Enough, CheckoutPlaces
  <2>7. CASE BeginCheckout(k)
    <3>1. UNCHANGED <<invoice, payment>>
      BY <2>7 DEF BeginCheckout, books
    <3>2. invoice.paid + Balance >= Total
      BY <1>1, Numbers DEF Balance
    <3>3. CASE Go(k, [at |-> "create", amount |-> Balance])
      BY <2>4, <3>1, <3>2, <3>3 DEF Enough, CheckoutPlaces
    <3>4. ASSUME NEW p \in PriorPending, Go(k, [at |-> "expire", prior |-> p, amount |-> Balance])
          PROVE  AllCover'
      <4>1. payment[p].status # "NONE"
        BY DEF PriorPending
      <4> QED
        BY <2>4, <3>1, <3>2, <3>4, <4>1 DEF Enough, CheckoutPlaces
    <3> QED
      BY <2>7, <3>3, <3>4 DEF BeginCheckout
  <2>8. CASE Issue(k)
    <3>1. invoice'.paid = invoice.paid /\ UNCHANGED payment /\ Go(k, Free)
      BY <1>1, <2>8 DEF Issue, TypeOK
    <3>2. RowsCover'
      BY <3>1 DEF AllCover, RowsCover
    <3>3. Enough(request[k])'
      BY <2>2, <3>1, FreeFits DEF Enough, CheckoutPlaces
    <3>4. invoice.paid <= invoice'.paid
      BY <1>1, <3>1, Numbers
    <3> QED
      BY <1>1, <2>2, <3>1, <3>2, <3>3, <3>4, CoverKept
  <2>9. CASE Record(k)
    <3>1. /\ q.at = "record" /\ q.amount \in Nat /\ q.paid = invoice.paid + q.amount
          /\ invoice'.paid = q.paid /\ UNCHANGED payment /\ Go(k, Free)
      BY <2>1, <2>3, <2>9, Fields DEF Record, At, Enough
    <3>2. invoice.paid <= invoice'.paid
      BY <1>1, <3>1, Numbers
    <3>3. RowsCover'
      BY <1>1, <3>1, Numbers DEF AllCover, RowsCover
    <3>4. Enough(request[k])'
      BY <2>2, <3>1, FreeFits DEF Enough, CheckoutPlaces
    <3>5. \A j \in Workers : j # k => ~At(j, "record")
      BY <2>1, <3>1 DEF RecordsApart, At
    <3> QED
      BY <1>1, <2>2, <3>1, <3>2, <3>3, <3>4, <3>5, CoverKept
  <2>10. CASE Expire(k)
    <3>1. /\ q.at = "expire" /\ Go(k, [q EXCEPT !.at = "supersede"])
          /\ UNCHANGED <<invoice, payment>>
      BY <2>1, <2>10 DEF Expire, At, books
    <3>2. /\ [q EXCEPT !.at = "supersede"].at = "supersede"
          /\ [q EXCEPT !.at = "supersede"].prior = q.prior
          /\ [q EXCEPT !.at = "supersede"].amount = q.amount
      BY <3>1 DEF Requests
    <3> QED
      BY <2>3, <2>4, <3>1, <3>2 DEF Enough, CheckoutPlaces
  <2>11. CASE Supersede(k)
    <3>1. /\ q.at = "supersede" /\ q.prior \in Sessions
          /\ payment[q.prior].status # "NONE" /\ invoice.paid + q.amount >= Total
      BY <2>1, <2>3, <2>11, Fields DEF Supersede, At, Enough, CheckoutPlaces
    <3>2. /\ payment' = [payment EXCEPT ![q.prior].status = "FAILED"]
          /\ Go(k, [at |-> "create", amount |-> q.amount]) /\ UNCHANGED invoice
      BY <2>1, <2>11 DEF Supersede
    <3>3. \A s \in Sessions : /\ payment'[s].amount = payment[s].amount
                              /\ payment'[s].status # "NONE" <=> payment[s].status # "NONE"
      BY <1>1, <3>1, <3>2, StatusWritten DEF TypeOK, RowType
    <3>4. RowsCover'
      BY <3>2, <3>3 DEF AllCover, RowsCover
    <3>5. Enough(request[k])'
      BY <2>2, <3>1, <3>2 DEF Enough, CheckoutPlaces
    <3>6. invoice.paid <= invoice'.paid
      BY <1>1, <3>2, Numbers
    <3> QED
      BY <1>1, <2>2, <3>2, <3>3, <3>4, <3>5, <3>6, CoverKept
  <2>12. CASE CreateSession(k)
    <3>1. q.at = "create" /\ UNCHANGED <<invoice, payment>>
      BY <2>1, <2>12 DEF CreateSession, At, books
    <3>2. PICK s : Go(k, [at |-> "insert", session |-> s, amount |-> q.amount])
      BY <2>1, <2>12 DEF CreateSession
    <3> QED
      BY <2>3, <2>4, <3>1, <3>2 DEF Enough, CheckoutPlaces
  <2>13. CASE Insert(k)
    <3>1. q.at = "insert" /\ q.session \in Sessions /\ invoice.paid + q.amount >= Total
      BY <2>1, <2>3, <2>13, Fields DEF Insert, At, Enough, CheckoutPlaces
    <3>2. /\ payment' = [payment EXCEPT ![q.session] = [status |-> "PENDING", amount |-> q.amount]]
          /\ Go(k, [at |-> "reply", session |-> q.session]) /\ UNCHANGED invoice
      BY <2>1, <2>13 DEF Insert
    <3>3. \A s \in Sessions : payment'[s] =
            IF s = q.session THEN [status |-> "PENDING", amount |-> q.amount] ELSE payment[s]
      BY <1>1, <3>1, <3>2 DEF TypeOK
    <3>4. RowsCover'
      BY <3>1, <3>2, <3>3 DEF AllCover, RowsCover
    <3>5. Enough(request[k])'
      BY <2>2, <3>2 DEF Enough, CheckoutPlaces
    <3>6. invoice.paid <= invoice'.paid
      BY <1>1, <3>2, Numbers
    <3> QED
      BY <1>1, <2>2, <3>2, <3>3, <3>4, <3>5, <3>6, CoverKept
  <2>14. CASE ReadInvoice(k)
    <3>1. q.at = "apply" /\ q.session \in Sessions /\ payment[q.session].status # "NONE"
      BY <2>1, <2>3, <2>14, Fields DEF ReadInvoice, At, Enough
    <3>2. Raised(invoice.paid, payment[q.session].amount) = Total
      BY <1>1, <3>1, Numbers DEF AllCover, RowsCover, Raised
    <3>3. Go(k, [at |-> "complete", session |-> q.session, paid |-> Total])
      BY <2>1, <2>14, <3>2 DEF ReadInvoice
    <3>4. UNCHANGED <<invoice, payment>>
      BY <2>14 DEF ReadInvoice, books
    <3> QED
      BY <2>4, <3>1, <3>3, <3>4 DEF Enough, CheckoutPlaces
  <2>15. CASE Complete(k)
    <3>1. /\ q.at = "complete" /\ q.session \in Sessions /\ q.paid = Total
          /\ payment[q.session].status # "NONE"
      BY <2>1, <2>3, <2>15, Fields DEF Complete, At, Enough
    <3>2. /\ payment' = [payment EXCEPT ![q.session].status = "COMPLETED"]
          /\ Go(k, [at |-> "mark", session |-> q.session]) /\ invoice'.paid = Total
      BY <2>1, <2>15, <3>1 DEF Complete
    <3>3. \A s \in Sessions : /\ payment'[s].amount = payment[s].amount
                              /\ payment'[s].status # "NONE" <=> payment[s].status # "NONE"
      BY <1>1, <3>1, <3>2, StatusWritten DEF TypeOK, RowType
    <3>4. RowsCover'
      BY <1>1, <3>2, <3>3, Numbers DEF AllCover, RowsCover
    <3>5. Enough(request[k])'
      BY <2>2, <3>2 DEF Enough, CheckoutPlaces
    <3>6. invoice.paid <= invoice'.paid
      BY <1>1, <3>2, Numbers
    <3>7. \A j \in Workers : ~At(j, "record")
      BY <2>1, <3>1 DEF RecordsApart, At
    <3> QED
      BY <1>1, <2>2, <3>2, <3>3, <3>4, <3>5, <3>6, <3>7, CoverKept
  <2> QED
    BY <1>3, <2>5, <2>6, <2>7, <2>8, <2>9, <2>10, <2>11, <2>12, <2>13, <2>14, <2>15
    DEF Begin, Continue
<1>4. ASSUME NEW s \in Sessions, Pay(s) \/ Lapse(s)
      PROVE  AllCover'
  BY <1>1, <1>4 DEF Pay, Lapse, books, AllCover, Enough, RowsCover
<1> QED
  BY <1>2, <1>3, <1>4 DEF Next

LEMMA CoverInit ==
  ASSUME Init
  PROVE  AllCover
<1>1. RowsCover /\ \A k \in Workers : Enough(request[k])
  BY FreeFits DEF Init, NoRow, RowsCover, Enough, CheckoutPlaces
<1> QED
  BY <1>1, TypeInit DEF AllCover

\* While nothing writes amountPaid between the read and the write of a
\* recordPayment, a payment that waits always covers all that is owed, also one
\* that staff payments, other checkouts and other events came after: its
\* confirmation settles the invoice. (createOnlineCheckoutSession charges the
\* balance, and amountPaid never falls.)
THEOREM PendingAlwaysSettles == Spec /\ []RecordsApart => []PendingCoversBalance
<1>1. Init => AllCover
  BY CoverInit
<1>2. AllCover /\ RecordsApart /\ [Next]_vars => AllCover'
  BY AllCoverStep
<1>3. AllCover => PendingCoversBalance
  BY DEF AllCover, RowsCover, PendingCoversBalance
<1> QED
  BY <1>1, <1>2, <1>3, PTL DEF Spec

-----------------------------------------------------------------------------
\* A set of finite subsets that is not empty has one without a smaller one in it.
LEMMA Smallest ==
  ASSUME NEW S, IsFiniteSet(S), NEW B \in SUBSET (SUBSET S), B # {}
  PROVE  \E t \in B : \A u \in SUBSET t : u # t => u \notin B
<1>1. IsWellFoundedOn(StrictSubsetOrdering(S), FiniteSubsetsOf(S))
  BY FS_StrictSubsetOrderingWellFounded
<1>2. FiniteSubsetsOf(S) = SUBSET S
  BY FS_FiniteSubsetsOfFinite
<1>3. PICK t \in B : \A u \in B : <<u, t>> \notin StrictSubsetOrdering(S)
  BY <1>1, <1>2, WFMin
<1>4. ASSUME NEW u \in SUBSET t, u # t, u \in B PROVE FALSE
  BY <1>3, <1>4 DEF StrictSubsetOrdering
<1> QED
  BY <1>3, <1>4

\* The coins of the payments s: as many as they amount to.
Coins(pay, s) == UNION {{x} \X (1..pay[x].amount) : x \in s}

LEMMA OwnCoins ==
  ASSUME NEW x, NEW n \in Nat
  PROVE  IsFiniteSet({x} \X (1..n)) /\ Cardinality({x} \X (1..n)) = n
<1>1. IsFiniteSet({x}) /\ Cardinality({x}) = 1
  BY FS_Singleton
<1>2. IsFiniteSet(1..n) /\ Cardinality(1..n) = n
  <2>1. 1 \in Int /\ n \in Int
    OBVIOUS
  <2>2. IsFiniteSet(1..n) /\ Cardinality(1..n) = IF 1 > n THEN 0 ELSE n - 1 + 1
    BY <2>1, FS_Interval, Zenon
  <2> QED
    BY <2>2
<1>3. /\ IsFiniteSet({x} \X (1..n))
      /\ Cardinality({x} \X (1..n)) = Cardinality({x}) * Cardinality(1..n)
  BY <1>1, <1>2, FS_Product
<1> QED
  BY <1>1, <1>2, <1>3

LEMMA CoinsSplit ==
  ASSUME NEW pay, NEW s, NEW x \in s, pay[x].amount \in Nat, IsFiniteSet(Coins(pay, s \ {x}))
  PROVE  /\ IsFiniteSet(Coins(pay, s))
         /\ Cardinality(Coins(pay, s)) = pay[x].amount + Cardinality(Coins(pay, s \ {x}))
<1> DEFINE own == {x} \X (1..pay[x].amount)
           rest == Coins(pay, s \ {x})
<1>1. IsFiniteSet(own) /\ Cardinality(own) = pay[x].amount
  BY OwnCoins
<1>2. Coins(pay, s) = own \cup rest
  BY DEF Coins
<1>3. own \cap rest = {}
  BY DEF Coins
<1>4. Cardinality(own \cap rest) = 0
  BY <1>3, FS_EmptySet
<1>5. Cardinality(rest) \in Nat
  BY FS_CardinalityType
<1> HIDE DEF own, rest
<1>6. /\ IsFiniteSet(own \cup rest)
      /\ Cardinality(own \cup rest)
           = Cardinality(own) + Cardinality(rest) - Cardinality(own \cap rest)
  BY <1>1, FS_Union DEF rest
<1>7. IsFiniteSet(Coins(pay, s)) /\ Cardinality(Coins(pay, s)) = pay[x].amount + Cardinality(rest)
  BY <1>1, <1>2, <1>4, <1>5, <1>6
<1> QED
  BY <1>7 DEF rest

LEMMA CoinsFinite ==
  ASSUME NEW pay, NEW S, IsFiniteSet(S), \A x \in S : pay[x].amount \in Nat
  PROVE  \A s \in SUBSET S : IsFiniteSet(Coins(pay, s))
<1> DEFINE B == {s \in SUBSET S : ~IsFiniteSet(Coins(pay, s))}
<1>1. SUFFICES ASSUME B # {} PROVE FALSE
  OBVIOUS
<1>2. PICK t \in B : \A u \in SUBSET t : u # t => u \notin B
  <2>1. B \in SUBSET (SUBSET S)
    OBVIOUS
  <2> HIDE DEF B
  <2> QED
    BY <1>1, <2>1, Smallest
<1>3. t # {}
  <2>1. Coins(pay, {}) = {}
    BY DEF Coins
  <2> QED
    BY <2>1, FS_EmptySet
<1>4. PICK x : x \in t
  BY <1>3
<1>5. IsFiniteSet(Coins(pay, t \ {x}))
  BY <1>2, <1>4
<1> QED
  BY <1>2, <1>4, <1>5, CoinsSplit

\* One step of the recursion by which MapThenSumSet adds up the payments S.
First(s) == CHOOSE x \in s : TRUE
Adding(pay, S, g) ==
  [s \in SUBSET S |-> IF s = {} THEN 0 ELSE pay[First(s)].amount + g[s \ {First(s)}]]

Sum(pay, S) == (CHOOSE g : g = Adding(pay, S, g))[S]

\* There are as many coins as that recursion adds up to.
LEMMA CoinsAdded ==
  ASSUME NEW pay, NEW S, IsFiniteSet(S), \A x \in S : pay[x].amount \in Nat,
         NEW s \in SUBSET S
  PROVE  Cardinality(Coins(pay, s)) =
           IF s = {} THEN 0
           ELSE pay[First(s)].amount + Cardinality(Coins(pay, s \ {First(s)}))
<1>1. CASE s = {}
  <2>1. Coins(pay, {}) = {}
    BY DEF Coins
  <2> QED
    BY <1>1, <2>1, FS_EmptySet
<1>2. CASE s # {}
  <2>1. First(s) \in s
    BY <1>2 DEF First
  <2>2. PICK x \in s : x = First(s)
    BY <2>1
  <2>3. pay[x].amount \in Nat /\ s \ {x} \in SUBSET S
    BY <2>2
  <2>4. IsFiniteSet(Coins(pay, s \ {x}))
    BY <2>3, CoinsFinite
  <2> QED
    BY ZenonT(60), <1>2, <2>2, <2>3, <2>4, CoinsSplit
<1> QED
  BY <1>1, <1>2

LEMMA SumIsDefined ==
  ASSUME NEW pay, NEW S, IsFiniteSet(S), \A x \in S : pay[x].amount \in Nat
  PROVE  \E g : g = Adding(pay, S, g)
<1> DEFINE g == [s \in SUBSET S |-> Cardinality(Coins(pay, s))]
<1>1. ASSUME NEW s \in SUBSET S
      PROVE  g[s] = IF s = {} THEN 0 ELSE pay[First(s)].amount + g[s \ {First(s)}]
  <2>1. s \ {First(s)} \in SUBSET S
    OBVIOUS
  <2> QED
    BY <2>1, CoinsAdded
<1>2. g = Adding(pay, S, g)
  BY <1>1 DEF Adding
<1> QED
  BY <1>2

\* What MapThenSumSet returns for the amounts of a finite set of payments.
LEMMA SumIsCount ==
  ASSUME NEW pay, NEW S, IsFiniteSet(S), \A x \in S : pay[x].amount \in Nat
  PROVE  Sum(pay, S) = Cardinality(Coins(pay, S))
<1> DEFINE it == CHOOSE g : g = Adding(pay, S, g)
           Right(s) == it[s] = Cardinality(Coins(pay, s))
           B == {s \in SUBSET S : ~Right(s)}
<1>1. Sum(pay, S) = it[S]
  BY DEF Sum
<1>2. it = Adding(pay, S, it)
  BY SumIsDefined
<1> HIDE DEF it
<1>3. B = {}
  <2>1. SUFFICES ASSUME B # {} PROVE FALSE
    OBVIOUS
  <2>2. PICK t \in B : \A u \in SUBSET t : u # t => u \notin B
    <3>1. B \in SUBSET (SUBSET S)
      OBVIOUS
    <3> HIDE DEF B
    <3> QED
      BY <2>1, <3>1, Smallest
  <2>3. it[t] = IF t = {} THEN 0 ELSE pay[First(t)].amount + it[t \ {First(t)}]
    BY <1>2, <2>2 DEF Adding
  <2>4. t # {} => Right(t \ {First(t)})
    <3>1. SUFFICES ASSUME t # {} PROVE Right(t \ {First(t)})
      OBVIOUS
    <3>2. First(t) \in t
      BY <3>1 DEF First
    <3> QED
      BY <2>2, <3>2
  <2>5. Right(t)
    BY <2>2, <2>3, <2>4, CoinsAdded
  <2> QED
    BY <2>2, <2>5
<1> QED
  BY <1>1, <1>3

\* It is a number, none for no payments, and no less than any of them.
LEMMA SumOfAmounts ==
  ASSUME NEW pay, NEW S, IsFiniteSet(S), \A x \in S : pay[x].amount \in Nat
  PROVE  LET sum == Sum(pay, S)
         IN  /\ sum \in Nat
             /\ S = {} => sum = 0
             /\ \A x \in S : sum >= pay[x].amount
<1>1. Cardinality(Coins(pay, S)) \in Nat
  BY CoinsFinite, FS_CardinalityType, Zenon
<1>2. S = {} => Cardinality(Coins(pay, S)) = 0
  <2>1. S \in SUBSET S
    OBVIOUS
  <2> QED
    BY <2>1, CoinsAdded
<1>3. ASSUME NEW x \in S
      PROVE  Cardinality(Coins(pay, S)) >= pay[x].amount
  <2>1. PICK n \in Nat : n = pay[x].amount
    OBVIOUS
  <2>2. {x} \X (1..n) \subseteq Coins(pay, S)
    BY <2>1 DEF Coins
  <2>3. IsFiniteSet(Coins(pay, S))
    BY CoinsFinite
  <2>4. Cardinality({x} \X (1..n)) <= Cardinality(Coins(pay, S))
    BY <2>2, <2>3, FS_Subset
  <2>5. Cardinality({x} \X (1..n)) = n
    BY OwnCoins
  <2> QED
    BY <1>1, <2>1, <2>4, <2>5
<1> QED
  BY <1>1, <1>2, <1>3, SumIsCount

\* More payments, those there were unchanged, do not add up to less.
LEMMA SumGrows ==
  ASSUME NEW pay, NEW new, NEW S, NEW T, IsFiniteSet(T), S \subseteq T,
         \A x \in T : new[x].amount \in Nat,
         \A x \in S : new[x].amount = pay[x].amount
  PROVE  Sum(pay, S) <= Sum(new, T)
<1>1. IsFiniteSet(S) /\ \A x \in S : pay[x].amount \in Nat
  BY FS_Subset
<1>2. Coins(pay, S) \subseteq Coins(new, T)
  BY DEF Coins
<1>3. IsFiniteSet(Coins(new, T))
  BY CoinsFinite
<1>4. Cardinality(Coins(pay, S)) <= Cardinality(Coins(new, T))
  BY <1>2, <1>3, FS_Subset
<1>5. Sum(pay, S) = Cardinality(Coins(pay, S))
  BY <1>1, SumIsCount
<1>6. Sum(new, T) = Cardinality(Coins(new, T))
  BY SumIsCount
<1> QED
  BY <1>4, <1>5, <1>6

\* All that was paid: what staff recorded and what was confirmed.
LEMMA SumIsRecursion ==
  ASSUME NEW pay, NEW S
  PROVE  MapThenSumSet(LAMBDA s : pay[s].amount, S) = Sum(pay, S)
BY DEF MapThenSumSet, MapThenFoldSet, Sum, Adding, First

-----------------------------------------------------------------------------
\* The invoice says what was paid, if the requests that write it do not overlap.

\* What a request read is still so when it writes.
Stands(r) ==
  /\ r.at \notin {"free", "issue"} => invoice.status # "DRAFT"
  /\ r.at = "issue" => invoice.status = "DRAFT"
  /\ r.at \in CheckoutPlaces => manual + r.amount >= Total
  /\ r.at \in {"expire", "supersede"} => payment[r.prior].status \in {"PENDING", "FAILED"}
  /\ r.at = "insert" => payment[r.session].status = "NONE" /\ stripe[r.session] # "none"

\* An online payment, confirmed or not, is for all that staff did not record.
Covered ==
  \A s \in Sessions : payment[s].status # "NONE" => manual + payment[s].amount >= Total

\* So the first to be confirmed settles the invoice.
Settles == invoice.paid = IF Completed = {} THEN manual ELSE Total

\* Sessions are opened for an issued invoice, and a row is written for one that is.
Opened ==
  \A s \in Sessions : /\ stripe[s] = "none" => payment[s].status = "NONE"
                      /\ stripe[s] # "none" => invoice.status # "DRAFT"

\* And for each by the one request that opened it.
OneInserts ==
  \A j, k \in Workers :
    At(j, "insert") /\ At(k, "insert") /\ request[j].session = request[k].session => j = k

Settled ==
  /\ AllCover /\ StatusMatchesAmount /\ Covered /\ Settles /\ Opened /\ OneInserts
  /\ \A k \in Workers : Stands(request[k])

LEMMA StillStands ==
  ASSUME Settled, TypeOK', manual <= manual', NEW r \in Requests, Stands(r),
         invoice.status # "DRAFT" => invoice'.status # "DRAFT",
         r.at = "issue" => invoice'.status = invoice.status,
         r.at \in {"expire", "supersede"} => payment'[r.prior].status \in {"PENDING", "FAILED"},
         r.at = "insert" => payment'[r.session].status = "NONE" /\ stripe'[r.session] # "none"
  PROVE  Stands(r)'
<1>1. /\ manual \in Nat /\ manual' \in Nat /\ Total \in Nat
      /\ r.at \in CheckoutPlaces => r.amount \in Nat
  BY Fields, MoneyAssumption DEF Settled, AllCover, TypeOK
<1> QED
  BY <1>1 DEF Stands

\* The request of worker k goes on, and what the others read is left as it was.
LEMMA SettledKept ==
  ASSUME Settled, AllCover', StatusMatchesAmount', Covered', Settles', Opened',
         manual <= manual', invoice.status # "DRAFT" => invoice'.status # "DRAFT",
         NEW k \in Workers, \A j \in Workers : j # k => request'[j] = request[j],
         Stands(request[k])', request'[k].at # "insert",
         \A j \in Workers :
           j # k => /\ At(j, "issue") => invoice'.status = invoice.status
                    /\ request[j].at \in {"expire", "supersede"} =>
                         payment'[request[j].prior].status \in {"PENDING", "FAILED"}
                    /\ At(j, "insert") =>
                         /\ payment'[request[j].session].status = "NONE"
                         /\ stripe'[request[j].session] # "none"
  PROVE  Settled'
<1>1. ASSUME NEW j \in Workers, j # k PROVE Stands(request[j])'
  <2>1. PICK q \in Requests : q = request[j]
    BY DEF Settled, AllCover, TypeOK
  <2>2. Stands(q)'
    <3>1. Stands(q) /\ TypeOK'
      BY <2>1 DEF Settled, AllCover
    <3>2. /\ q.at = "issue" => invoice'.status = invoice.status
          /\ q.at \in {"expire", "supersede"} => payment'[q.prior].status \in {"PENDING", "FAILED"}
          /\ q.at = "insert" => payment'[q.session].status = "NONE" /\ stripe'[q.session] # "none"
      BY <1>1, <2>1 DEF At
    <3> QED
      BY <3>1, <3>2, StillStands
  <2> QED
    BY <1>1, <2>1, <2>2 DEF Stands
<1>2. OneInserts'
  BY DEF Settled, OneInserts, At
<1> QED
  BY <1>1, <1>2 DEF Settled

LEMMA SettledStep ==
  ASSUME Settled, BooksApart, [Next]_vars
  PROVE  Settled'
<1>1. AllCover' /\ TypeOK /\ TypeOK' /\ RecordsApart /\ SupersedesApart /\ IssuesApart
  BY AllCoverStep DEF Settled, AllCover, BooksApart
<1>2. CASE UNCHANGED vars
  BY <1>1, <1>2
  DEF vars, books, Settled, StatusMatchesAmount, Covered, Settles, Completed, Opened, OneInserts, At,
      Stands
<1>3. ASSUME NEW k \in Workers, Begin(k) \/ Continue(k) \/ Fail(k)
      PROVE  Settled'
  <2>1. PICK q \in Requests : q = request[k]
    BY <1>1 DEF TypeOK
  <2>2. \A r : Go(k, r) => /\ request'[k] = r
                           /\ \A j \in Workers : j # k => request'[j] = request[j]
    BY <1>1, Goes DEF TypeOK
  <2>3. Stands(q)
    BY <2>1 DEF Settled
  <2>4. ASSUME UNCHANGED <<invoice, manual, payment>>, NEW r, Go(k, r), Stands(r), r.at # "insert",
               \A s \in Sessions : stripe'[s] = "none" <=> stripe[s] = "none"
        PROVE  Settled'
    <3>1. StatusMatchesAmount' /\ Covered' /\ Settles' /\ Opened'
      BY <2>4 DEF Settled, StatusMatchesAmount, Covered, Settles, Completed, Opened
    <3>2. Stands(request[k])' /\ request'[k].at # "insert" /\ manual <= manual'
      BY <1>1, <2>2, <2>4, Numbers DEF Stands
    <3>3. ASSUME NEW j \in Workers, j # k
          PROVE  /\ request[j].at \in {"expire", "supersede"} =>
                      payment'[request[j].prior].status \in {"PENDING", "FAILED"}
                 /\ At(j, "insert") => /\ payment'[request[j].session].status = "NONE"
                                       /\ stripe'[request[j].session] # "none"
      <4>1. PICK p \in Requests : p = request[j]
        BY <1>1 DEF TypeOK
      <4>2. Stands(p) /\ (p.at = "insert" => p.session \in Sessions)
        BY <4>1, Fields DEF Settled
      <4> QED
        BY <2>4, <4>1, <4>2 DEF Stands, At
    <3> QED
      BY <1>1, <2>2, <2>4, <3>1, <3>2, <3>3, SettledKept
  <2>5. CASE BeginIssue(k)
    BY <2>4, <2>5 DEF BeginIssue, books, Stands, CheckoutPlaces
  <2>6. ASSUME NEW amount \in Amounts, BeginRecord(k, amount) PROVE Settled'
    BY <2>4, <2>6 DEF BeginRecord, CanRecord, Payable, books, Stands, CheckoutPlaces
  <2>7. CASE BeginCheckout(k)
    <3>1. UNCHANGED <<invoice, manual, payment, stripe>> /\ invoice.status # "DRAFT" /\ Balance > 0
      BY <2>7 DEF BeginCheckout, Payable, books
    <3>2. manual + Balance >= Total
      <4>1. Completed = {} /\ invoice.paid = manual
        BY <1>1, <3>1, Numbers DEF Settled, Settles, Balance
      <4> QED
        BY <1>1, <4>1, Numbers DEF Balance
    <3>3. CASE Go(k, [at |-> "create", amount |-> Balance])
      BY <2>4, <3>1, <3>2, <3>3 DEF Stands, CheckoutPlaces
    <3>4. ASSUME NEW p \in PriorPending, Go(k, [at |-> "expire", prior |-> p, amount |-> Balance])
          PROVE  Settled'
      <4>1. payment[p].status = "PENDING"
        BY DEF PriorPending
      <4> QED
        BY <2>4, <3>1, <3>2, <3>4, <4>1 DEF Stands, CheckoutPlaces
    <3> QED
      BY <2>7, <3>3, <3>4 DEF BeginCheckout
  <2>8. ASSUME NEW s \in Sessions, Deliver(k, s) PROVE Settled'
    <3>1. invoice.status # "DRAFT"
      BY <2>8 DEF Deliver, Settled, Opened
    <3> QED
      BY <2>4, <2>8, <3>1 DEF Deliver, books, Stands, CheckoutPlaces
  <2>9. CASE Issue(k)
    <3>1. q.at = "issue" /\ invoice.status = "DRAFT" /\ invoice.paid = 0
      BY <2>1, <2>3, <2>9 DEF Issue, At, Stands, Settled, StatusMatchesAmount
    <3>2. /\ invoice'.status = "SENT" /\ invoice'.paid = invoice.paid /\ Go(k, Free)
          /\ UNCHANGED <<manual, payment, stripe>>
      BY <1>1, <2>9 DEF Issue, TypeOK
    <3>3. StatusMatchesAmount' /\ Covered' /\ Settles' /\ Opened'
      BY <3>1, <3>2 DEF Settled, StatusMatchesAmount, Covered, Settles, Completed, Opened
    <3>4. Stands(request[k])' /\ request'[k].at # "insert" /\ manual <= manual'
      BY <1>1, <2>2, <3>2, FreeFits, Numbers DEF Stands, CheckoutPlaces
    <3>5. ASSUME NEW j \in Workers, j # k
          PROVE  /\ ~At(j, "issue")
                 /\ request[j].at \in {"free", "issue"}
      BY <1>1, <2>1, <3>1, <3>5 DEF IssuesApart, Settled, Stands, At
    <3>6. ASSUME NEW j \in Workers, j # k
          PROVE  /\ ~At(j, "issue") /\ ~At(j, "insert")
                 /\ request[j].at \notin {"expire", "supersede"}
      BY <3>5, <3>6 DEF At
    <3>7. invoice'.status # "DRAFT"
      BY <3>2
    <3> QED
      BY <1>1, <2>2, <3>2, <3>3, <3>4, <3>6, <3>7, SettledKept
  <2>10. CASE Record(k)
    <3>1. /\ q.at = "record" /\ q.amount \in Nat /\ q.amount > 0 /\ q.paid \in 1..Total
          /\ q.paid = invoice.paid + q.amount /\ invoice.status # "DRAFT"
      BY <2>1, <2>3, <2>10, Fields DEF Record, At, Stands, Settled, AllCover, Enough
    <3>2. /\ invoice' = [status |-> StatusFor(q.paid), paid |-> q.paid]
          /\ manual' = manual + q.amount /\ UNCHANGED <<payment, stripe>> /\ Go(k, Free)
      BY <2>1, <2>10 DEF Record
    <3>3. StatusMatchesAmount' /\ invoice'.status # "DRAFT"
      BY <1>1, <3>1, <3>2, Numbers DEF StatusMatchesAmount, StatusFor
    <3>4. Settles'
      <4>1. Completed = {} /\ invoice.paid = manual
        BY <1>1, <3>1, Numbers DEF Settled, Settles
      <4>2. Completed' = Completed
        BY <3>2 DEF Completed
      <4> QED
        BY <3>1, <3>2, <4>1, <4>2 DEF Settles
    <3>5. manual <= manual' /\ Covered'
      BY <1>1, <3>1, <3>2, Numbers DEF Settled, Covered
    <3>6. Opened'
      BY <3>2, <3>3 DEF Settled, Opened
    <3>7. Stands(request[k])' /\ request'[k].at # "insert"
      BY <2>2, <3>2, FreeFits DEF Stands, CheckoutPlaces
    <3>8. ASSUME NEW j \in Workers, j # k
          PROVE  /\ ~At(j, "issue")
                 /\ request[j].at \in {"expire", "supersede"} =>
                      payment'[request[j].prior].status \in {"PENDING", "FAILED"}
                 /\ At(j, "insert") => /\ payment'[request[j].session].status = "NONE"
                                       /\ stripe'[request[j].session] # "none"
      BY <3>1, <3>2 DEF Settled, Stands, At
    <3> QED
      BY <1>1, <2>2, <3>2, <3>3, <3>4, <3>5, <3>6, <3>7, <3>8, SettledKept
  <2>11. CASE Expire(k)
    <3>1. /\ q.at = "expire" /\ q.prior \in Sessions /\ Go(k, [q EXCEPT !.at = "supersede"])
          /\ UNCHANGED <<invoice, manual, payment>>
      BY <2>1, <2>11, Fields DEF Expire, At, books
    <3>2. /\ [q EXCEPT !.at = "supersede"].at = "supersede"
          /\ [q EXCEPT !.at = "supersede"].prior = q.prior
          /\ [q EXCEPT !.at = "supersede"].amount = q.amount
      BY <3>1 DEF Requests
    <3>3. stripe[q.prior] # "none"
      BY <2>3, <3>1 DEF Stands, Settled, Opened
    <3>4. \A s \in Sessions : stripe'[s] = "none" <=> stripe[s] = "none"
      BY <1>1, <2>1, <2>11, <3>1, <3>3 DEF Expire, TypeOK
    <3> QED
      BY <2>3, <2>4, <3>1, <3>2, <3>4 DEF Stands, CheckoutPlaces
  <2>12. CASE Supersede(k)
    <3>1. /\ q.at = "supersede" /\ q.prior \in Sessions /\ manual + q.amount >= Total
          /\ payment[q.prior].status \in {"PENDING", "FAILED"} /\ invoice.status # "DRAFT"
      BY <2>1, <2>3, <2>12, Fields DEF Supersede, At, Stands, CheckoutPlaces
    <3>2. /\ payment' = [payment EXCEPT ![q.prior].status = "FAILED"]
          /\ Go(k, [at |-> "create", amount |-> q.amount])
          /\ UNCHANGED <<invoice, manual, stripe>>
      BY <2>1, <2>12 DEF Supersede
    <3>3. /\ payment'[q.prior].status = "FAILED"
          /\ \A s \in Sessions : /\ payment'[s].amount = payment[s].amount
                                 /\ s # q.prior => payment'[s] = payment[s]
      BY <1>1, <3>1, <3>2, StatusWritten DEF TypeOK, RowType
    <3>4. Completed' = Completed /\ Covered'
      BY <3>1, <3>2, <3>3 DEF Settled, Covered, Completed
    <3>5. StatusMatchesAmount' /\ Settles'
      BY <3>2, <3>4 DEF Settled, StatusMatchesAmount, Settles
    <3>6. Opened'
      BY <3>1, <3>2, <3>3 DEF Settled, Opened
    <3>7. Stands(request[k])' /\ request'[k].at # "insert" /\ manual <= manual'
      BY <1>1, <2>2, <3>1, <3>2, Numbers DEF Stands, CheckoutPlaces
    <3>8. ASSUME NEW j \in Workers, j # k
          PROVE  /\ request[j].at \in {"expire", "supersede"} =>
                      payment'[request[j].prior].status \in {"PENDING", "FAILED"}
                 /\ At(j, "insert") => /\ payment'[request[j].session].status = "NONE"
                                       /\ stripe'[request[j].session] # "none"
      <4>1. PICK p \in Requests : p = request[j]
        BY <1>1 DEF TypeOK
      <4>2. /\ Stands(p) /\ (p.at = "insert" => p.session \in Sessions)
            /\ p.at \in {"expire", "supersede"} => p.prior \in Sessions
        BY <4>1, Fields DEF Settled
      <4> QED
        BY <3>1, <3>2, <3>3, <4>1, <4>2 DEF Stands, At
    <3> QED
      BY <1>1, <2>2, <3>2, <3>4, <3>5, <3>6, <3>7, <3>8, SettledKept
  <2>13. CASE CreateSession(k)
    <3>1. q.at = "create" /\ manual + q.amount >= Total /\ invoice.status # "DRAFT"
      BY <2>1, <2>3, <2>13 DEF CreateSession, At, Stands, CheckoutPlaces
    <3>2. PICK s \in Unused : /\ stripe' = [stripe EXCEPT ![s] = "open"]
                              /\ Go(k, [at |-> "insert", session |-> s, amount |-> q.amount])
      BY <2>1, <2>13 DEF CreateSession
    <3>3. UNCHANGED <<invoice, manual, payment>> /\ s \in Sessions /\ stripe[s] = "none"
      BY <2>13 DEF CreateSession, books, Unused
    <3>4. \A t \in Sessions : stripe'[t] = IF t = s THEN "open" ELSE stripe[t]
      BY <1>1, <3>2 DEF TypeOK
    <3>5. StatusMatchesAmount' /\ Covered' /\ Settles'
      BY <3>3 DEF Settled, StatusMatchesAmount, Covered, Settles, Completed
    <3>6. Opened' /\ payment[s].status = "NONE"
      BY <3>1, <3>3, <3>4 DEF Settled, Opened
    <3>7. Stands(request[k])'
      BY <2>2, <3>1, <3>2, <3>3, <3>4, <3>6 DEF Stands, CheckoutPlaces
    <3>8. ASSUME NEW j \in Workers, j # k
          PROVE  Stands(request[j])' /\ (At(j, "insert") => request[j].session # s)
      <4>1. PICK p \in Requests : p = request[j]
        BY <1>1 DEF TypeOK
      <4>2. Stands(p) /\ (p.at = "insert" => p.session \in Sessions)
        BY <4>1, Fields DEF Settled
      <4> QED
        BY <2>2, <3>2, <3>3, <3>4, <3>8, <4>1, <4>2 DEF Stands, At
    <3>9. OneInserts'
      BY <2>2, <3>2, <3>8 DEF Settled, OneInserts, At
    <3> QED
      BY <1>1, <3>5, <3>6, <3>7, <3>8, <3>9 DEF Settled
  <2>14. CASE Insert(k)
    <3>1. /\ q.at = "insert" /\ q.session \in Sessions /\ manual + q.amount >= Total
          /\ payment[q.session].status = "NONE" /\ stripe[q.session] # "none"
          /\ invoice.status # "DRAFT"
      BY <2>1, <2>3, <2>14, Fields DEF Insert, At, Stands, CheckoutPlaces
    <3>2. /\ payment' = [payment EXCEPT ![q.session] = [status |-> "PENDING", amount |-> q.amount]]
          /\ Go(k, [at |-> "reply", session |-> q.session])
          /\ UNCHANGED <<invoice, manual, stripe>>
      BY <2>1, <2>14 DEF Insert
    <3>3. \A s \in Sessions : payment'[s] =
            IF s = q.session THEN [status |-> "PENDING", amount |-> q.amount] ELSE payment[s]
      BY <1>1, <3>1, <3>2 DEF TypeOK
    <3>4. Completed' = Completed /\ Covered'
      BY <3>1, <3>2, <3>3 DEF Settled, Covered, Completed
    <3>5. StatusMatchesAmount' /\ Settles'
      BY <3>2, <3>4 DEF Settled, StatusMatchesAmount, Settles
    <3>6. Opened'
      BY <3>1, <3>2, <3>3 DEF Settled, Opened
    <3>7. Stands(request[k])' /\ request'[k].at # "insert" /\ manual <= manual'
      BY <1>1, <2>2, <3>1, <3>2, Numbers DEF Stands, CheckoutPlaces
    <3>8. ASSUME NEW j \in Workers, j # k
          PROVE  /\ request[j].at \in {"expire", "supersede"} =>
                      payment'[request[j].prior].status \in {"PENDING", "FAILED"}
                 /\ At(j, "insert") => /\ payment'[request[j].session].status = "NONE"
                                       /\ stripe'[request[j].session] # "none"
      <4>1. PICK p \in Requests : p = request[j]
        BY <1>1 DEF TypeOK
      <4>2. /\ Stands(p) /\ (p.at = "insert" => p.session \in Sessions)
            /\ p.at \in {"expire", "supersede"} => p.prior \in Sessions
        BY <4>1, Fields DEF Settled
      <4>3. p.at = "insert" => p.session # q.session
        BY <2>1, <3>1, <3>8, <4>1 DEF Settled, OneInserts, At
      <4> QED
        BY <3>1, <3>2, <3>3, <4>1, <4>2, <4>3 DEF Stands, At
    <3> QED
      BY <1>1, <2>2, <3>2, <3>4, <3>5, <3>6, <3>7, <3>8, SettledKept
  <2>15. CASE Reply(k) \/ Mark(k) \/ Fail(k)
    BY <2>4, <2>15, FreeFits DEF Reply, Mark, Fail, books, Stands, CheckoutPlaces
  <2>16. CASE ReadInvoice(k)
    <3>1. invoice.status # "DRAFT"
      BY <2>1, <2>3, <2>16 DEF ReadInvoice, At, Stands
    <3> QED
      BY <2>4, <2>16, <3>1 DEF ReadInvoice, books, Stands, CheckoutPlaces
  <2>17. CASE Complete(k)
    <3>1. /\ q.at = "complete" /\ q.session \in Sessions /\ q.paid = Total
          /\ payment[q.session].status # "NONE" /\ invoice.status # "DRAFT"
      BY <2>1, <2>3, <2>17, Fields DEF Complete, At, Stands, Settled, AllCover, Enough
    <3>2. /\ payment' = [payment EXCEPT ![q.session].status = "COMPLETED"]
          /\ invoice' = [status |-> "PAID", paid |-> Total]
          /\ Go(k, [at |-> "mark", session |-> q.session]) /\ UNCHANGED <<manual, stripe>>
      BY <2>1, <2>17, <3>1 DEF Complete, StatusFor
    <3>3. /\ payment'[q.session].status = "COMPLETED"
          /\ \A s \in Sessions : /\ payment'[s].amount = payment[s].amount
                                 /\ s # q.session => payment'[s] = payment[s]
      BY <1>1, <3>1, <3>2, StatusWritten DEF TypeOK, RowType
    <3>4. Covered' /\ Settles' /\ StatusMatchesAmount'
      <4>1. q.session \in Completed'
        BY <3>1, <3>3 DEF Completed
      <4> QED
        BY <3>1, <3>2, <3>3, <4>1 DEF Settled, Covered, Settles, StatusMatchesAmount
    <3>5. Opened'
      BY <3>1, <3>2, <3>3 DEF Settled, Opened
    <3>6. Stands(request[k])' /\ request'[k].at # "insert" /\ manual <= manual'
      BY <1>1, <2>2, <3>1, <3>2, Numbers DEF Stands, CheckoutPlaces
    <3>7. ASSUME NEW j \in Workers, j # k
          PROVE  /\ ~At(j, "issue")
                 /\ request[j].at \in {"expire", "supersede"} =>
                      payment'[request[j].prior].status \in {"PENDING", "FAILED"}
                 /\ At(j, "insert") => /\ payment'[request[j].session].status = "NONE"
                                       /\ stripe'[request[j].session] # "none"
      <4>1. PICK p \in Requests : p = request[j]
        BY <1>1 DEF TypeOK
      <4>2. /\ Stands(p) /\ (p.at = "insert" => p.session \in Sessions)
            /\ p.at \in {"expire", "supersede"} => p.prior \in Sessions
        BY <4>1, Fields DEF Settled
      <4>3. p.at \in {"expire", "supersede"} => p.prior # q.session
        BY <2>1, <3>1, <4>1, <1>1 DEF SupersedesApart, At
      <4> QED
        BY <3>1, <3>2, <3>3, <4>1, <4>2, <4>3 DEF Stands, At
    <3> QED
      BY <1>1, <2>2, <3>2, <3>4, <3>5, <3>6, <3>7, SettledKept
  <2> QED
    BY <1>3, <2>5, <2>6, <2>7, <2>8, <2>9, <2>10, <2>11, <2>12, <2>13, <2>14, <2>15, <2>16, <2>17
    DEF Begin, Continue
<1>4. ASSUME NEW s \in Sessions, Pay(s) \/ Lapse(s)
      PROVE  Settled'
  <2>1. UNCHANGED <<invoice, manual, payment, request>>
    BY <1>4 DEF Pay, Lapse, books
  <2>2. \A t \in Sessions : stripe'[t] = "none" <=> stripe[t] = "none"
    BY <1>1, <1>4 DEF Pay, Lapse, TypeOK
  <2>3. \A k \in Workers : At(k, "insert") => request[k].session \in Sessions
    <3> TAKE k \in Workers
    <3>1. PICK q \in Requests : q = request[k]
      BY <1>1 DEF TypeOK
    <3> QED
      BY <3>1, Fields DEF At
  <2> QED
    BY <1>1, <2>1, <2>2, <2>3
    DEF Settled, StatusMatchesAmount, Covered, Settles, Completed, Opened, OneInserts, At, Stands
<1> QED
  BY <1>2, <1>3, <1>4 DEF Next

LEMMA SettledInit ==
  ASSUME Init
  PROVE  Settled
<1>1. \A s \in Sessions : payment[s].status = "NONE" /\ stripe[s] = "none"
  BY DEF Init, NoRow
<1>2. \A k \in Workers : request[k].at = "free"
  BY FreeFits DEF Init
<1>3. StatusMatchesAmount /\ Settles
  BY <1>1 DEF Init, StatusMatchesAmount, Settles, Completed
<1> QED
  BY <1>1, <1>2, <1>3, CoverInit
  DEF Settled, Covered, Opened, OneInserts, At, Stands, CheckoutPlaces

\* While staff payments are not overtaken, no checkout supersedes a payment that
\* is being completed, and one request issues the invoice: the amount paid is what
\* staff recorded, or the whole total once a charge was confirmed; every charge is
\* for all that staff did not record; and what a request has read still holds when
\* it writes. (recordPayment, createOnlineCheckoutSession, completeOnlinePayment.)
THEOREM SettledInvariant == Spec /\ []BooksApart => []Settled
<1>1. Init => Settled
  BY SettledInit
<1>2. Settled /\ BooksApart /\ [Next]_vars => Settled'
  BY SettledStep
<1> QED
  BY <1>1, <1>2, PTL DEF Spec

-----------------------------------------------------------------------------
\* amountPaid is the sum of what was paid: nothing is confirmed yet, or one
\* confirmed payment already makes the sum reach the total.
LEMMA PaidIsSum ==
  ASSUME Settled
  PROVE  PaidIsRecorded
<1> DEFINE online == Sum(payment, Completed)
<1>1. IsFiniteSet(Completed) /\ \A s \in Completed : payment[s].amount \in Nat
  <2>1. Completed \in SUBSET Sessions
    BY DEF Completed
  <2>2. IsFiniteSet(Completed)
    BY <2>1, BoundAssumption, FS_Subset
  <2> QED
    BY <2>1, <2>2, MoneyAssumption DEF Settled, AllCover, TypeOK
<1>2. MapThenSumSet(LAMBDA s : payment[s].amount, Completed) = online
  BY DEF MapThenSumSet, MapThenFoldSet, Sum, Adding, First
<1>3. /\ online \in Nat
      /\ Completed = {} => online = 0
      /\ \A s \in Completed : online >= payment[s].amount
  BY <1>1, SumOfAmounts
<1> HIDE DEF online
<1>4. manual \in Nat /\ Total \in Nat /\ invoice.paid \in 0..Total
  BY MoneyAssumption DEF Settled, AllCover, TypeOK
<1>5. invoice.paid = IF manual + online > Total THEN Total ELSE manual + online
  <2>1. CASE Completed = {}
    BY <1>3, <1>4, <2>1 DEF Settled, Settles
  <2>2. CASE Completed # {}
    <3>1. PICK s \in Completed : TRUE
      BY <2>2
    <3>2. manual + payment[s].amount >= Total /\ payment[s].amount \in Nat
      BY <1>1, <3>1 DEF Settled, Covered, Completed
    <3>3. online >= payment[s].amount
      BY <1>3, <3>1
    <3>4. invoice.paid = Total
      BY <2>2 DEF Settled, Settles
    <3> QED
      BY <1>3, <1>4, <3>2, <3>3, <3>4
  <2> QED
    BY <2>1, <2>2
<1> QED
  BY <1>2, <1>5 DEF PaidIsRecorded

\* While staff payments are not overtaken, no checkout supersedes a payment that
\* is being completed, and one request issues the invoice: what it says is paid, in
\* its amount and in its status, is what staff recorded and customers paid, up to
\* the total, whatever else overlaps, however often a delivery is repeated and
\* wherever a request ends. (recordPayment, completeOnlinePayment.)
THEOREM AmountIsAlwaysRight == Spec /\ []BooksApart => []AmountIsRight
<1>1. Settled => AmountIsRight
  BY PaidIsSum DEF Settled, AllCover, AmountIsRight
<1> QED
  BY <1>1, SettledInvariant, PTL

-----------------------------------------------------------------------------
\* The pages of an invoice.

Summaries == {Nothing} \cup [status : InvoiceStatuses, paid : 0..Total]
Answers == [invoice : Summaries, listed : Nat]

TabType ==
  [on : {"closed", "page", "stripe"}, result : {"none", "success", "cancelled"},
   session : Sessions \cup {None}, first : Answers, shown : Summaries, listed : Nat,
   pending : BOOLEAN, left : 0..Attempts, awaits : Workers \cup {None}]

FormOK ==
  form \in [customer : Customers \cup {None}, asked : SUBSET Customers,
            offered : SUBSET Shipments, shipment : Shipments \cup {None},
            sent : {<<>>} \cup (Customers \X Shipments)]

\* The answer a page awaits will come.
DeskOK ==
  /\ desk \in [shown : Summaries, loads : BOOLEAN, error : BOOLEAN, awaits : Workers \cup {None}]
  /\ desk.awaits # None => request[desk.awaits].at # "free"

\* The places of a checkout on its way.
Checkout == {"expire", "supersede", "create", "insert", "reply"}

\* What the first of the two reads found is on the list the second will find.
TabOK(t) ==
  /\ tab[t] \in TabType
  /\ tab[t].awaits # None => request[tab[t].awaits].at \in Checkout
  /\ tab[t].on = "stripe" => tab[t].session \in handed
  /\ tab[t].first.invoice.status # "DRAFT" /\ tab[t].shown.status # "DRAFT"
  /\ tab[t].first.invoice.paid <= Listed
  /\ tab[t].shown.paid <= tab[t].listed

TabsOK == tab = [t \in Tabs |-> tab[t]] /\ \A t \in Tabs : TabOK(t)

Kept == Settled /\ FormOK /\ InvoiceMatchesShipment /\ DeskOK /\ TabsOK

-----------------------------------------------------------------------------
\* What the server does to what the pages look at.

LEMMA ListedIs == Listed = manual + Sum(payment, Completed)
<1>1. Rows("COMPLETED") = Completed
  BY DEF Rows, Completed
<1>2. Listed = manual + Sum(payment, Rows("COMPLETED"))
  BY DEF Listed, MapThenSumSet, MapThenFoldSet, Sum, Adding, First
<1> QED
  BY <1>1, <1>2

LEMMA ListedIsNext == Listed' = manual' + Sum(payment', Completed')
<1>1. Rows("COMPLETED")' = Completed'
  BY DEF Rows, Completed
<1>2. Listed' = manual' + Sum(payment', Rows("COMPLETED")')
  BY DEF Listed, MapThenSumSet, MapThenFoldSet, Sum, Adding, First
<1> QED
  BY <1>1, <1>2

LEMMA CompletedFinite ==
  ASSUME Settled
  PROVE  IsFiniteSet(Completed) /\ \A s \in Completed : payment[s].amount \in Nat
<1>1. Completed \in SUBSET Sessions
  BY DEF Completed
<1>2. IsFiniteSet(Completed)
  BY <1>1, BoundAssumption, FS_Subset
<1> QED
  BY <1>1, <1>2, MoneyAssumption DEF Settled, AllCover, TypeOK

\* What the invoice says is paid is on the list.
LEMMA PaidWasListed ==
  ASSUME Settled
  PROVE  Listed \in Nat /\ invoice.paid <= Listed
<1> DEFINE online == Sum(payment, Completed)
<1>1. online \in Nat
  BY CompletedFinite, SumOfAmounts
<1>2. manual \in Nat /\ Total \in Nat /\ invoice.paid \in 0..Total
  BY MoneyAssumption DEF Settled, AllCover, TypeOK
<1>3. invoice.paid = IF manual + online > Total THEN Total ELSE manual + online
  <2>1. MapThenSumSet(LAMBDA s : payment[s].amount, Completed) = online
    BY DEF MapThenSumSet, MapThenFoldSet, Sum, Adding, First
  <2> QED
    BY <2>1, PaidIsSum DEF PaidIsRecorded
<1>4. Listed = manual + online
  BY ListedIs
<1> HIDE DEF online
<1> QED
  BY <1>1, <1>2, <1>3, <1>4

LEMMA ListedIsNumber ==
  ASSUME Settled'
  PROVE  Listed' \in Nat
<1>1. IsFiniteSet(Completed') /\ \A s \in Completed' : payment'[s].amount \in Nat
  <2>1. Completed' \in SUBSET Sessions
    BY DEF Completed
  <2>2. IsFiniteSet(Completed')
    BY <2>1, BoundAssumption, FS_Subset
  <2> QED
    BY <2>1, <2>2, MoneyAssumption DEF Settled, AllCover, TypeOK
<1>2. Sum(payment', Completed') \in Nat
  BY <1>1, SumOfAmounts
<1>3. manual' \in Nat
  BY DEF Settled, AllCover, TypeOK
<1> QED
  BY <1>2, <1>3, ListedIsNext

\* A payment on the list stays there, and staff only add to what they recorded.
LEMMA ListGrows ==
  ASSUME Settled, Settled', manual <= manual', 
         \A s \in Sessions : payment[s].status = "COMPLETED" => payment'[s] = payment[s]
  PROVE  Listed <= Listed'
<1>1. Completed \subseteq Completed' /\ \A s \in Completed : payment'[s].amount = payment[s].amount
  BY DEF Completed
<1>2. IsFiniteSet(Completed') /\ \A s \in Completed' : payment'[s].amount \in Nat
  <2>1. Completed' \in SUBSET Sessions
    BY DEF Completed
  <2>2. IsFiniteSet(Completed')
    BY <2>1, BoundAssumption, FS_Subset
  <2> QED
    BY <2>1, <2>2, MoneyAssumption DEF Settled, AllCover, TypeOK
<1>3. Sum(payment, Completed) <= Sum(payment', Completed')
  BY <1>1, <1>2, SumGrows
<1>4. Sum(payment, Completed) \in Nat
  BY CompletedFinite, SumOfAmounts
<1>5. Sum(payment', Completed') \in Nat
  BY <1>2, SumOfAmounts
<1>6. manual \in Nat /\ manual' \in Nat
  BY DEF Settled, AllCover, TypeOK
<1> QED
  BY <1>3, <1>4, <1>5, <1>6, ListedIs, ListedIsNext

\* A step that moves no money and no request.
LEMMA Still ==
  ASSUME Settled, UNCHANGED <<books, stripe, handed, request>>, failures' \in 0..MaxFailures
  PROVE  Settled' /\ Listed' = Listed /\ Listed \in Nat
<1>1. TypeOK'
  BY DEF Settled, AllCover, TypeOK, books
<1>2. Listed' = Listed
  <2>1. Completed' = Completed /\ payment' = payment /\ manual' = manual
    BY DEF Completed, books
  <2> QED
    BY <2>1, ListedIs, ListedIsNext
<1> QED
  BY <1>1, <1>2, PaidWasListed
  DEF Settled, AllCover, Enough, RowsCover, StatusMatchesAmount, Covered, Settles, Completed,
      Opened, OneInserts, At, Stands, books

\* What a step of the server does to the list and to the sessions handed out.
LEMMA BooksGrow ==
  ASSUME Settled, BooksApart, Next
  PROVE  /\ Settled' /\ handed \subseteq handed'
         /\ Listed <= Listed' /\ Listed \in Nat /\ Listed' \in Nat
<1>1. Settled'
  BY SettledStep
<1>2. handed \subseteq handed'
  BY DEF Next, Begin, BeginIssue, BeginRecord, BeginCheckout, Deliver, Continue, Issue, Record,
         Expire, Supersede, CreateSession, Insert, Reply, ReadInvoice, Complete, Mark, Fail, Pay,
         Lapse
<1> DEFINE Adds ==
      /\ manual <= manual'
      /\ \A s \in Sessions : payment[s].status = "COMPLETED" => payment'[s] = payment[s]
<1>3. manual \in Nat
  BY DEF Settled, AllCover, TypeOK
<1>4. ASSUME manual' = manual, payment' = payment PROVE Adds
  BY <1>3, <1>4
<1>5. ASSUME NEW k \in Workers, Begin(k) \/ Fail(k) PROVE Adds
  BY <1>4, <1>5 DEF Begin, BeginIssue, BeginRecord, BeginCheckout, Deliver, Fail, books
<1>6. ASSUME NEW k \in Workers, Continue(k) PROVE Adds
  <2>1. PICK q \in Requests : q = request[k]
    BY DEF Settled, AllCover, TypeOK
  <2>2. Stands(q) /\ payment \in [Sessions -> RowType]
    BY <2>1 DEF Settled, AllCover, TypeOK, RowType
  <2>3. CASE Record(k)
    <3>1. q.at = "record" /\ manual' = manual + q.amount /\ payment' = payment
      BY <2>1, <2>3 DEF Record, At
    <3>2. q.amount \in Nat
      BY <3>1, MoneyAssumption DEF Requests
    <3> QED
      BY <1>3, <3>1, <3>2
  <2>4. CASE Supersede(k)
    <3>1. /\ q.at = "supersede" /\ manual' = manual
          /\ payment' = [payment EXCEPT ![q.prior].status = "FAILED"]
      BY <2>1, <2>4 DEF Supersede, At
    <3>2. q.prior \in Sessions /\ payment[q.prior].status \in {"PENDING", "FAILED"}
      BY <2>2, <3>1, Fields DEF Stands
    <3> QED
      BY <1>3, <2>2, <3>1, <3>2, StatusWritten
  <2>5. CASE Insert(k)
    <3>1. /\ q.at = "insert" /\ manual' = manual
          /\ payment' = [payment EXCEPT ![q.session] = [status |-> "PENDING", amount |-> q.amount]]
      BY <2>1, <2>5 DEF Insert, At
    <3>2. payment[q.session].status = "NONE"
      BY <2>2, <3>1 DEF Stands
    <3> QED
      BY <1>3, <2>2, <3>1, <3>2
  <2>6. CASE Complete(k)
    <3>1. /\ q.at = "complete" /\ manual' = manual
          /\ payment' = [payment EXCEPT ![q.session].status = "COMPLETED"]
      BY <2>1, <2>6 DEF Complete, At
    <3>2. q.session \in Sessions
      BY <3>1, Fields
    <3>3. payment[q.session].status = "COMPLETED" => payment' = payment
      BY <2>2, <3>1, <3>2 DEF RowType
    <3> QED
      BY <1>3, <2>2, <3>1, <3>2, <3>3, StatusWritten
  <2>7. CASE Issue(k) \/ Expire(k) \/ CreateSession(k) \/ Reply(k) \/ ReadInvoice(k) \/ Mark(k)
    BY <1>4, <2>7 DEF Issue, Expire, CreateSession, Reply, ReadInvoice, Mark, books
  <2> QED
    BY <1>6, <2>3, <2>4, <2>5, <2>6, <2>7 DEF Continue
<1>7. ASSUME NEW s \in Sessions, Pay(s) \/ Lapse(s) PROVE Adds
  BY <1>4, <1>7 DEF Pay, Lapse, books
<1>8. Adds
  BY <1>5, <1>6, <1>7 DEF Next
<1> QED
  BY <1>1, <1>2, <1>8, ListGrows, PaidWasListed, ListedIsNumber

\* A step of a checkout leads to its next place, or hands out the session.
LEMMA CheckoutGoesOn ==
  ASSUME Settled, NEW k \in Workers, Continue(k)
  PROVE  /\ request[k].at # "free"
         /\ request[k].at \in Checkout =>
              \/ request'[k].at \in Checkout
              \/ request'[k] = Free /\ request[k].session \in handed' \cap Sessions
<1>1. PICK q \in Requests : q = request[k]
  BY DEF Settled, AllCover, TypeOK
<1>2. \A r : Go(k, r) => request'[k] = r
  BY DEF Go, Settled, AllCover, TypeOK
<1>3. CASE Issue(k) \/ Record(k) \/ ReadInvoice(k) \/ Complete(k) \/ Mark(k)
  BY <1>3 DEF Issue, Record, ReadInvoice, Complete, Mark, At, Checkout
<1>4. CASE Expire(k)
  <2>1. q.at = "expire" /\ request'[k] = [q EXCEPT !.at = "supersede"]
    BY <1>1, <1>2, <1>4 DEF Expire, At
  <2>2. request'[k].at = "supersede"
    BY <2>1 DEF Requests
  <2> QED
    BY <1>1, <2>1, <2>2 DEF Checkout
<1>5. CASE Supersede(k) \/ Insert(k)
  BY <1>2, <1>5 DEF Supersede, Insert, At, Checkout
<1>6. CASE CreateSession(k)
  <2>1. PICK s \in Unused : Go(k, [at |-> "insert", session |-> s, amount |-> q.amount])
    BY <1>1, <1>6 DEF CreateSession
  <2>2. request'[k] = [at |-> "insert", session |-> s, amount |-> q.amount]
    BY <1>2, <2>1
  <2> QED
    BY <1>6, <2>2 DEF CreateSession, At, Checkout
<1>7. CASE Reply(k)
  <2>1. q.at = "reply" /\ request'[k] = Free /\ handed' = handed \cup {q.session}
    BY <1>1, <1>2, <1>7 DEF Reply, At
  <2>2. q.session \in Sessions
    BY <2>1 DEF Requests
  <2> QED
    BY <1>1, <2>1, <2>2
<1> QED
  BY <1>3, <1>4, <1>5, <1>6, <1>7 DEF Continue

LEMMA FreeIs ==
  ASSUME NEW r \in Requests, r.at = "free"
  PROVE  r = Free
BY DEF Requests, Free

-----------------------------------------------------------------------------
\* Each step of a page keeps the invariant.

LEMMA PageValues ==
  /\ Nothing \in Summaries /\ Unread \in Answers
  /\ Nothing.status = "NONE" /\ Nothing.paid = 0 /\ Unread.invoice = Nothing
  /\ Settled => Summary \in Summaries
BY DEF Nothing, Unread, Summaries, Answers, Summary, Settled, AllCover, TypeOK

\* A tab that starts over.
LEMMA Blank ==
  ASSUME NEW result \in {"none", "success", "cancelled"}, NEW session \in Sessions \cup {None}
  PROVE  LET blank == BlankTab(result, session)
         IN  /\ blank \in TabType
             /\ blank.on = "page" /\ blank.awaits = None
             /\ blank.first = Unread /\ blank.shown = Nothing /\ blank.listed = 0
BY PageValues, DeskAssumption DEF BlankTab, TabType

\* A tab that is closed or at Stripe.
Aside(on, session) == [BlankTab("none", session) EXCEPT !.on = on, !.left = 0]

LEMMA BlankAside ==
  ASSUME NEW session \in Sessions \cup {None}, NEW on \in {"closed", "stripe"}
  PROVE  LET blank == Aside(on, session)
         IN  /\ blank \in TabType
             /\ blank.on = on /\ blank.awaits = None /\ blank.session = session
             /\ blank.first = Unread /\ blank.shown = Nothing /\ blank.listed = 0
<1>1. PICK new \in TabType : new = BlankTab("none", session)
  BY Blank
<1>2. /\ new.on = "page" /\ new.awaits = None /\ new.session = session
      /\ new.first = Unread /\ new.shown = Nothing /\ new.listed = 0
  BY <1>1 DEF BlankTab
<1>3. PICK aside \in TabType : aside = [new EXCEPT !.on = on]
  <2>1. [new EXCEPT !.on = on] \in TabType
    BY DEF TabType
  <2> QED
    BY <2>1
<1>4. /\ aside.on = on /\ aside.awaits = None /\ aside.session = session
      /\ aside.first = Unread /\ aside.shown = Nothing /\ aside.listed = 0
  BY <1>2, <1>3 DEF TabType
<1>5. [aside EXCEPT !.left = 0] \in TabType
  BY DeskAssumption DEF TabType
<1>6. Aside(on, session) = [aside EXCEPT !.left = 0]
  BY <1>1, <1>3 DEF Aside
<1> QED
  BY <1>4, <1>5, <1>6 DEF TabType

LEMMA TabKept ==
  ASSUME NEW t \in Tabs, TabOK(t), tab'[t] = tab[t], Listed \in Nat, Listed' \in Nat,
         Listed <= Listed', handed \subseteq handed',
         tab[t].awaits # None => request'[tab[t].awaits].at \in Checkout
  PROVE  TabOK(t)'
<1>1. tab[t].first.invoice.paid \in Int
  BY DEF TabOK, TabType, Answers, Summaries, Nothing
<1> QED
  BY <1>1 DEF TabOK

\* Nothing but the tab t changes.
LEMMA OneTab ==
  ASSUME TabsOK, NEW t \in Tabs, NEW new, tab' = [tab EXCEPT ![t] = new], TabOK(t)',
         Listed \in Nat, Listed' \in Nat, Listed <= Listed', handed \subseteq handed',
         \A u \in Tabs : tab[u].awaits # None => request'[tab[u].awaits].at \in Checkout
  PROVE  TabsOK'
<1>1. tab' = [u \in Tabs |-> tab'[u]] /\ \A u \in Tabs : u # t => tab'[u] = tab[u]
  BY DEF TabsOK
<1>2. \A u \in Tabs : TabOK(u)'
  BY <1>1, TabKept DEF TabsOK
<1> QED
  BY <1>1, <1>2 DEF TabsOK

LEMMA AllTabs ==
  ASSUME TabsOK, tab' = tab, Listed \in Nat, Listed' \in Nat, Listed <= Listed',
         handed \subseteq handed',
         \A u \in Tabs : tab[u].awaits # None => request'[tab[u].awaits].at \in Checkout
  PROVE  TabsOK'
BY TabKept DEF TabsOK

LEMMA DeskInitially ==
  ASSUME DeskInit
  PROVE  Kept
<1>1. Settled
  BY SettledInit DEF DeskInit
<1>2. FormOK /\ InvoiceMatchesShipment
  BY DEF DeskInit, FormOK, EmptyForm, InvoiceMatchesShipment
<1>3. DeskOK
  BY PageValues DEF DeskInit, DeskOK
<1>4. ASSUME NEW t \in Tabs PROVE TabOK(t)
  <2>1. tab[t] = Aside("closed", None)
    BY DEF DeskInit, Aside
  <2>2. /\ tab[t] \in TabType /\ tab[t].awaits = None /\ tab[t].on = "closed"
        /\ tab[t].first = Unread /\ tab[t].shown = Nothing /\ tab[t].listed = 0
    BY <2>1, BlankAside
  <2>3. Listed \in Nat
    BY <1>1, PaidWasListed
  <2> QED
    BY <2>2, <2>3, PageValues DEF TabOK
<1>5. TabsOK
  BY <1>4 DEF TabsOK, DeskInit
<1> QED
  BY <1>1, <1>2, <1>3, <1>5 DEF Kept

\* A step of the form, or of the staff page alone.
LEMMA PaperStep ==
  ASSUME Kept, UNCHANGED <<books, stripe, handed, request, tab>>, failures' \in 0..MaxFailures,
         FormOK', InvoiceMatchesShipment',
         desk' \in [shown : Summaries, loads : BOOLEAN, error : BOOLEAN,
                    awaits : {desk.awaits, None}]
  PROVE  Kept'
<1>1. Settled' /\ Listed' = Listed /\ Listed \in Nat
  BY Still, PaidWasListed DEF Kept
<1>2. DeskOK'
  BY DEF Kept, DeskOK
<1>3. TabsOK'
  BY <1>1, AllTabs DEF Kept, TabsOK, TabOK
<1> QED
  BY <1>1, <1>2, <1>3 DEF Kept

LEMMA FormStep ==
  ASSUME Kept,
         \/ \E c \in Customers : ChooseCustomer(c) \/ OfferShipments(c)
         \/ \E x \in Shipments : ChooseShipment(x)
         \/ SubmitForm
  PROVE  Kept'
<1>1. UNCHANGED <<books, stripe, handed, request, tab, bills, desk, failures>>
  <2>1. CASE \E c \in Customers : ChooseCustomer(c) \/ OfferShipments(c)
    BY <2>1, Zenon DEF ChooseCustomer, OfferShipments, vars
  <2>2. CASE (\E x \in Shipments : ChooseShipment(x)) \/ SubmitForm
    BY <2>2, Zenon DEF ChooseShipment, SubmitForm, vars
  <2> QED
    BY <2>1, <2>2
<1>2. FormOK'
  <2>1. FormOK
    BY DEF Kept
  <2>2. CASE \E c \in Customers : ChooseCustomer(c) \/ OfferShipments(c)
    <3>1. PICK c \in Customers : ChooseCustomer(c) \/ OfferShipments(c)
      BY <2>2
    <3>2. form.asked \cup {c} \in SUBSET Customers /\ form.asked \ {c} \in SUBSET Customers
      BY <2>1 DEF FormOK
    <3>3. ShipmentsOf(c) \in SUBSET Shipments
      BY DEF ShipmentsOf
    <3>4. \/ form' = [form EXCEPT !.customer = c, !.shipment = None, !.asked = @ \cup {c}]
          \/ form' = [form EXCEPT !.asked = @ \ {c}, !.offered = ShipmentsOf(c)]
      BY <3>1, ZenonT(30) DEF ChooseCustomer, OfferShipments
    <3> QED
      BY <2>1, <3>2, <3>3, <3>4 DEF FormOK
  <2>3. CASE \E x \in Shipments : ChooseShipment(x)
    BY <2>1, <2>3 DEF ChooseShipment, FormOK
  <2>4. CASE SubmitForm
    BY <2>1, <2>4 DEF SubmitForm, FormOK
  <2> QED
    BY <2>2, <2>3, <2>4
<1>3. failures' \in 0..MaxFailures /\ InvoiceMatchesShipment'
  BY <1>1 DEF Kept, Settled, AllCover, TypeOK, InvoiceMatchesShipment
<1>4. desk' \in [shown : Summaries, loads : BOOLEAN, error : BOOLEAN, awaits : {desk.awaits, None}]
  BY <1>1 DEF Kept, DeskOK
<1> QED
  BY <1>1, <1>2, <1>3, <1>4, PaperStep

LEMMA CreateStep ==
  ASSUME Kept, Create
  PROVE  Kept'
<1>1. UNCHANGED <<books, stripe, handed, request, tab>>
  BY DEF Create
<1>2. failures' \in 0..MaxFailures
  BY BoundAssumption DEF Create, Kept, Settled, AllCover, TypeOK
<1>3. FormOK'
  BY DEF Create, Kept, FormOK, EmptyForm
<1>4. InvoiceMatchesShipment'
  BY DEF Create, Fits, ShipmentsOf, Kept, InvoiceMatchesShipment
<1>5. desk' \in [shown : Summaries, loads : BOOLEAN, error : BOOLEAN, awaits : {desk.awaits, None}]
  BY DEF Create, Kept, DeskOK
<1> QED
  BY <1>1, <1>2, <1>3, <1>4, <1>5, PaperStep

LEMMA DeskPageStep ==
  ASSUME Kept, OpenDesk \/ LoadDesk \/ LoadDeskFails
  PROVE  Kept'
<1>1. UNCHANGED <<books, stripe, handed, request, tab, form, bills>>
  BY DEF OpenDesk, LoadDesk, LoadDeskFails, vars
<1>2. failures' \in 0..MaxFailures
  BY BoundAssumption DEF OpenDesk, LoadDesk, LoadDeskFails, vars, Kept, Settled, AllCover, TypeOK
<1>3. FormOK' /\ InvoiceMatchesShipment'
  BY <1>1 DEF Kept, FormOK, InvoiceMatchesShipment
<1>4. desk' \in [shown : Summaries, loads : BOOLEAN, error : BOOLEAN, awaits : {desk.awaits, None}]
  <2>1. DeskOK /\ Summary \in Summaries /\ Nothing \in Summaries
    BY PageValues DEF Kept
  <2>2. CASE OpenDesk
    BY <2>1, <2>2 DEF OpenDesk
  <2>3. CASE LoadDesk
    BY <2>1, <2>3 DEF LoadDesk, DeskOK
  <2>4. CASE LoadDeskFails
    BY <2>1, <2>4 DEF LoadDeskFails, DeskOK
  <2> QED
    BY <2>2, <2>3, <2>4
<1> QED
  BY <1>1, <1>2, <1>3, <1>4, PaperStep

-----------------------------------------------------------------------------
\* A page awaits no worker that is free.
LEMMA NotAwaited ==
  ASSUME Kept, NEW k \in Workers, request[k].at = "free"
  PROVE  desk.awaits # k /\ \A t \in Tabs : tab[t].awaits # k
<1>1. k # None
  BY DeskAssumption
<1> QED
  BY <1>1 DEF Kept, DeskOK, TabsOK, TabOK, Checkout

\* What other requests are at is not changed by the step of worker k.
LEMMA OthersWait ==
  ASSUME Kept, NEW k \in Workers, NEW r, Go(k, r)
  PROVE  \A j \in Workers : j # k => request'[j] = request[j]
BY Goes DEF Kept, Settled, AllCover, TypeOK

\* The staff page starts a request.
LEMMA PressStep ==
  ASSUME Kept, BooksApart, NEW k \in Workers,
         PressIssue(k) \/ \E amount \in Amounts : PressRecord(k, amount)
  PROVE  Kept'
<1>1. request[k].at = "free" /\ UNCHANGED <<form, bills, tab>> /\ desk.awaits = None
  BY DEF PressIssue, PressRecord, BeginRecord, DeskReady, At
<1>2. \A j \in Workers : j # k => request'[j] = request[j]
  <2>1. CASE UNCHANGED vars
    BY <2>1 DEF vars
  <2>2. CASE \E r : Go(k, r)
    BY <2>2, OthersWait
  <2> QED
    BY <2>1, <2>2 DEF PressIssue, PressRecord, BeginIssue, BeginRecord
<1>3. \/ Begin(k) /\ desk' = [desk EXCEPT !.awaits = k] /\ request'[k].at # "free"
      \/ UNCHANGED vars /\ desk' = [desk EXCEPT !.error = TRUE]
  BY DEF PressIssue, PressRecord, BeginIssue, BeginRecord, Begin, Go, Kept, Settled, AllCover, TypeOK
<1>4. FormOK' /\ InvoiceMatchesShipment'
  BY <1>1 DEF Kept, FormOK, InvoiceMatchesShipment
<1>5. Settled' /\ Listed <= Listed' /\ handed \subseteq handed' /\ Listed \in Nat /\ Listed' \in Nat
  <2>1. CASE Begin(k)
    BY <2>1, BooksGrow DEF Kept, Next
  <2>2. CASE UNCHANGED vars
    <3>1. failures' \in 0..MaxFailures
      BY <2>2 DEF vars, Kept, Settled, AllCover, TypeOK
    <3> QED
      BY <2>2, <3>1, Still DEF vars, Kept
  <2> QED
    BY <1>3, <2>1, <2>2
<1>6. DeskOK'
  BY <1>1, <1>3 DEF Kept, DeskOK
<1>7. \A t \in Tabs : tab[t].awaits # None => request'[tab[t].awaits].at \in Checkout
  BY <1>1, <1>2, NotAwaited DEF Kept, TabsOK, TabOK, TabType
<1>8. TabsOK'
  BY <1>1, <1>5, <1>7, AllTabs DEF Kept
<1> QED
  BY <1>4, <1>5, <1>6, <1>8 DEF Kept

\* Stripe delivers an event, or a session lapses: no page looks.
LEMMA BehindThePages ==
  ASSUME Kept, BooksApart,
         \/ \E k \in Workers, s \in Sessions : Webhook(k, s)
         \/ \E s \in Sessions : Timeout(s)
  PROVE  Kept'
<1>1. UNCHANGED pages /\ Next
  BY DEF Webhook, Timeout, Next, Begin
<1>2. FormOK' /\ InvoiceMatchesShipment' /\ tab' = tab /\ desk' = desk
  BY <1>1 DEF pages, Kept, FormOK, InvoiceMatchesShipment
<1>3. /\ Settled' /\ handed \subseteq handed'
      /\ Listed <= Listed' /\ Listed \in Nat /\ Listed' \in Nat
  BY <1>1, BooksGrow DEF Kept
<1>4. /\ desk.awaits # None => request'[desk.awaits] = request[desk.awaits]
      /\ \A t \in Tabs : tab[t].awaits # None => request'[tab[t].awaits] = request[tab[t].awaits]
  <2>1. ASSUME NEW k \in Workers, NEW s \in Sessions, Webhook(k, s)
        PROVE  /\ \A j \in Workers : j # k => request'[j] = request[j]
               /\ desk.awaits # k /\ \A t \in Tabs : tab[t].awaits # k
    <3>1. request[k].at = "free" /\ \E r : Go(k, r)
      BY <2>1 DEF Webhook, Deliver, At
    <3> QED
      BY <3>1, OthersWait, NotAwaited
  <2>2. CASE \E s \in Sessions : Timeout(s)
    BY <2>2 DEF Timeout, Lapse
  <2> QED
    BY <2>1, <2>2 DEF Kept, DeskOK, TabsOK, TabOK, TabType
<1>5. DeskOK'
  BY <1>2, <1>4 DEF Kept, DeskOK
<1>6. TabsOK'
  BY <1>2, <1>3, <1>4, AllTabs DEF Kept, TabsOK, TabOK
<1> QED
  BY <1>2, <1>3, <1>5, <1>6 DEF Kept

\* The customer presses Pay now.
LEMMA PayNowStep ==
  ASSUME Kept, BooksApart, NEW k \in Workers, NEW t \in Tabs, PayNow(k, t)
  PROVE  Kept'
<1>1. /\ request[k].at = "free" /\ Next /\ UNCHANGED <<form, bills, desk>>
      /\ tab' = [tab EXCEPT ![t].awaits = k]
  BY DEF PayNow, BeginCheckout, At, Next, Begin
<1>2. /\ desk.awaits # None => request'[desk.awaits] = request[desk.awaits]
      /\ \A u \in Tabs : tab[u].awaits # None => request'[tab[u].awaits] = request[tab[u].awaits]
  <2>1. \E r : Go(k, r)
    BY DEF PayNow, BeginCheckout
  <2> QED
    BY <1>1, <2>1, OthersWait, NotAwaited DEF Kept, DeskOK, TabsOK, TabOK, TabType
<1>3. /\ Settled' /\ handed \subseteq handed'
      /\ Listed <= Listed' /\ Listed \in Nat /\ Listed' \in Nat
  BY <1>1, BooksGrow DEF Kept
<1>4. request'[k].at \in Checkout
  <2>1. \A r : Go(k, r) => request'[k] = r
    BY DEF Go, Kept, Settled, AllCover, TypeOK
  <2>2. \/ Go(k, [at |-> "create", amount |-> Balance])
        \/ \E p \in PriorPending : Go(k, [at |-> "expire", prior |-> p, amount |-> Balance])
    BY DEF PayNow, BeginCheckout
  <2>3. CASE Go(k, [at |-> "create", amount |-> Balance])
    BY <2>1, <2>3 DEF Checkout
  <2>4. ASSUME NEW p \in PriorPending, Go(k, [at |-> "expire", prior |-> p, amount |-> Balance])
        PROVE  request'[k].at \in Checkout
    <3>1. request'[k] = [at |-> "expire", prior |-> p, amount |-> Balance]
      BY <2>1, <2>4
    <3> QED
      BY <3>1 DEF Checkout
  <2> QED
    BY <2>2, <2>3, <2>4
<1> DEFINE new == [tab[t] EXCEPT !.awaits = k]
<1>5. tab' = [tab EXCEPT ![t] = new] /\ tab'[t] = new
  BY <1>1 DEF Kept, TabsOK
<1>6. TabOK(t)'
  <2>1. TabOK(t)
    BY DEF Kept, TabsOK
  <2>2. /\ new \in TabType /\ new.awaits = k /\ new.on = tab[t].on
        /\ new.session = tab[t].session /\ new.first = tab[t].first
        /\ new.shown = tab[t].shown /\ new.listed = tab[t].listed
    BY <2>1 DEF TabOK, TabType
  <2>3. tab[t].first.invoice.paid \in Int
    BY <2>1 DEF TabOK, TabType, Answers, Summaries, Nothing
  <2> HIDE DEF new
  <2> QED
    BY <1>3, <1>4, <1>5, <2>1, <2>2, <2>3 DEF TabOK
<1>7. TabsOK'
  <2> HIDE DEF new
  <2> QED
    BY <1>2, <1>3, <1>5, <1>6, OneTab DEF Kept, TabsOK, TabOK
<1> QED
  BY <1>1, <1>2, <1>3, <1>7 DEF Kept, FormOK, InvoiceMatchesShipment, DeskOK

\* The customer pays at Stripe, which sends the tab back.
LEMMA PayAtStripeStep ==
  ASSUME Kept, BooksApart, NEW t \in Tabs, PayAtStripe(t)
  PROVE  Kept'
<1>1. PICK s : s = tab[t].session
  OBVIOUS
<1>2. /\ s \in Sessions /\ Pay(s) /\ tab' = [tab EXCEPT ![t] = BlankTab("success", s)]
      /\ UNCHANGED <<form, bills, desk>>
  BY <1>1 DEF PayAtStripe, Pay, Kept, Settled, AllCover, TypeOK, TabsOK
<1>3. /\ Settled' /\ handed \subseteq handed'
      /\ Listed <= Listed' /\ Listed \in Nat /\ Listed' \in Nat
  BY <1>2, BooksGrow DEF Kept, Next
<1>4. request' = request
  BY <1>2 DEF Pay
<1> DEFINE new == BlankTab("success", s)
<1>5. /\ new \in TabType /\ new.on = "page" /\ new.awaits = None
      /\ new.first = Unread /\ new.shown = Nothing /\ new.listed = 0
  BY <1>2, Blank
<1> HIDE DEF new
<1>6. tab'[t] = new
  BY <1>2 DEF Kept, TabsOK, new
<1>7. TabOK(t)'
  BY <1>3, <1>5, <1>6, PageValues DEF TabOK
<1>8. TabsOK'
  BY <1>2, <1>3, <1>4, <1>7, OneTab DEF Kept, TabsOK, TabOK
<1> QED
  BY <1>2, <1>3, <1>4, <1>8 DEF Kept, FormOK, InvoiceMatchesShipment, DeskOK

\* A tab that looks, and nothing else happens.
LEMMA Looks ==
  ASSUME Kept, NEW t \in Tabs, NEW new \in TabType, tab' = [tab EXCEPT ![t] = new],
         UNCHANGED <<books, stripe, handed, request, form, bills, desk>>,
         failures' \in 0..MaxFailures,
         new.awaits \in {tab[t].awaits, None},
         new.on = "stripe" => tab[t].on = "stripe" /\ new.session = tab[t].session,
         new.first.invoice.status # "DRAFT", new.shown.status # "DRAFT",
         new.first.invoice.paid <= Listed, new.shown.paid <= new.listed
  PROVE  Kept'
<1>1. Settled' /\ Listed' = Listed /\ Listed \in Nat
  BY Still DEF Kept
<1>2. tab'[t] = new
  BY DEF Kept, TabsOK
<1>3. TabOK(t)'
  BY <1>1, <1>2 DEF Kept, TabsOK, TabOK
<1>4. TabsOK'
  BY <1>1, <1>3, OneTab DEF Kept, TabsOK, TabOK
<1> QED
  BY <1>1, <1>4 DEF Kept, FormOK, InvoiceMatchesShipment, DeskOK

\* The customer opens the page, or Stripe sends the tab back unpaid.
LEMMA BlankStep ==
  ASSUME Kept, NEW t \in Tabs, OpenTab(t) \/ GoBack(t)
  PROVE  Kept'
<1>1. tab[t] \in TabType
  BY DEF Kept, TabsOK, TabOK
<1>2. PICK result \in {"none", "success", "cancelled"}, session \in Sessions \cup {None} :
        tab' = [tab EXCEPT ![t] = BlankTab(result, session)]
  <2>1. CASE OpenTab(t)
    <3>1. PICK result \in {"none", "success", "cancelled"} :
            result = IF tab[t].on = "page" THEN tab[t].result ELSE "none"
      BY <1>1 DEF TabType
    <3>2. tab[t].session \in Sessions \cup {None}
      BY <1>1 DEF TabType
    <3> QED
      BY <2>1, <3>1, <3>2 DEF OpenTab
  <2>2. CASE GoBack(t)
    BY <2>2 DEF GoBack
  <2> QED
    BY <2>1, <2>2
<1> DEFINE new == BlankTab(result, session)
<1>3. /\ new \in TabType /\ new.on = "page" /\ new.awaits = None
      /\ new.first = Unread /\ new.shown = Nothing /\ new.listed = 0
  BY Blank
<1> HIDE DEF new
<1>4. tab' = [tab EXCEPT ![t] = new]
  BY <1>2 DEF new
<1>5. /\ UNCHANGED <<books, stripe, handed, request, form, bills, desk>>
      /\ failures' \in 0..MaxFailures
  BY DEF OpenTab, GoBack, vars, Kept, Settled, AllCover, TypeOK
<1>6. Listed \in Nat
  BY PaidWasListed DEF Kept
<1>7. /\ new.first.invoice.status # "DRAFT" /\ new.shown.status # "DRAFT"
      /\ new.first.invoice.paid <= Listed /\ new.shown.paid <= new.listed
  BY <1>3, <1>6, PageValues
<1> QED
  BY <1>3, <1>4, <1>5, <1>7, Looks

\* The two reads of the page, between which the books may change.
LEMMA QueryStep ==
  ASSUME Kept, NEW t \in Tabs, FirstQuery(t) \/ SecondQuery(t) \/ QueryFails(t)
  PROVE  Kept'
<1>1. TabOK(t) /\ tab[t] \in TabType
  BY DEF Kept, TabsOK, TabOK
<1>2. /\ UNCHANGED <<books, stripe, handed, request, form, bills, desk>>
      /\ failures' \in 0..MaxFailures
  <2>1. failures \in 0..MaxFailures
    BY DEF Kept, Settled, AllCover, TypeOK
  <2>2. CASE FirstQuery(t) \/ SecondQuery(t)
    BY <2>1, <2>2 DEF FirstQuery, SecondQuery, vars
  <2>3. CASE QueryFails(t)
    BY <2>1, <2>3, BoundAssumption DEF QueryFails
  <2> QED
    BY <2>2, <2>3
<1>3. Listed \in Nat /\ invoice.paid <= Listed
  BY PaidWasListed DEF Kept
<1>4. 0 \in 0..Attempts
  BY DeskAssumption
<1>5. CASE FirstQuery(t)
  <2>1. CASE invoice.status = "DRAFT"
    <3> DEFINE new == [tab[t] EXCEPT !.left = 0]
    <3>1. tab' = [tab EXCEPT ![t] = new]
      BY <1>5, <2>1 DEF FirstQuery
    <3>2. /\ new \in TabType /\ new.awaits = tab[t].awaits /\ new.on = tab[t].on
          /\ new.session = tab[t].session /\ new.first = tab[t].first
          /\ new.shown = tab[t].shown /\ new.listed = tab[t].listed
      BY <1>1, <1>4 DEF TabType
    <3> HIDE DEF new
    <3> QED
      BY <1>1, <1>2, <3>1, <3>2, Looks DEF TabOK
  <2>2. CASE invoice.status # "DRAFT"
    <3>1. PICK found \in Answers : found = Database
      BY <1>3, PageValues DEF Database, Answers, Kept
    <3> DEFINE new == [tab[t] EXCEPT !.first = found]
    <3>2. tab' = [tab EXCEPT ![t] = new]
      BY <1>5, <2>2, <3>1 DEF FirstQuery
    <3>3. /\ new \in TabType /\ new.awaits = tab[t].awaits /\ new.on = tab[t].on
          /\ new.session = tab[t].session /\ new.first = found
          /\ new.shown = tab[t].shown /\ new.listed = tab[t].listed
      BY <1>1 DEF TabType
    <3>4. found.invoice.status # "DRAFT" /\ found.invoice.paid <= Listed
      BY <1>3, <2>2, <3>1 DEF Database, Summary
    <3> HIDE DEF new
    <3> QED
      BY <1>1, <1>2, <3>2, <3>3, <3>4, Looks DEF TabOK
  <2> QED
    BY <2>1, <2>2
<1>6. CASE SecondQuery(t)
  <2> DEFINE waits == Rows("PENDING") # {}
             left == IF waits THEN tab[t].left - 1 ELSE 0
             new == [tab[t] EXCEPT !.shown = tab[t].first.invoice, !.listed = Listed,
                       !.pending = waits, !.first = Unread, !.left = left]
  <2>1. tab' = [tab EXCEPT ![t] = new]
    BY <1>6 DEF SecondQuery, InvoiceFirst
  <2>2. left \in 0..Attempts
    BY <1>1, <1>4, <1>6, DeskAssumption DEF SecondQuery, TabType
  <2>3. waits \in BOOLEAN /\ Unread \in Answers /\ tab[t].first.invoice \in Summaries
    BY <1>1, PageValues DEF TabType, Answers
  <2> HIDE DEF waits, left
  <2>4. /\ new \in TabType /\ new.awaits = tab[t].awaits /\ new.on = tab[t].on
        /\ new.session = tab[t].session /\ new.first = Unread
        /\ new.shown = tab[t].first.invoice /\ new.listed = Listed
    BY <1>1, <1>3, <2>2, <2>3 DEF TabType
  <2> HIDE DEF new
  <2> QED
    <3>1. /\ new.first.invoice.status # "DRAFT" /\ new.first.invoice.paid <= Listed
          /\ new.shown.status # "DRAFT" /\ new.shown.paid <= new.listed
      BY <1>1, <1>3, <2>4, PageValues DEF TabOK
    <3> QED
      BY <1>2, <2>1, <2>4, <3>1, Looks
<1>7. CASE QueryFails(t)
  <2> DEFINE new == [tab[t] EXCEPT !.left = 0, !.first = Unread]
  <2>1. tab' = [tab EXCEPT ![t] = new]
    BY <1>7 DEF QueryFails
  <2>2. /\ new \in TabType /\ new.awaits = tab[t].awaits /\ new.on = tab[t].on
        /\ new.session = tab[t].session /\ new.first = Unread
        /\ new.shown = tab[t].shown /\ new.listed = tab[t].listed
    BY <1>1, <1>4, PageValues DEF TabType
  <2> HIDE DEF new
  <2> QED
    <3>1. /\ new.first.invoice.status # "DRAFT" /\ new.first.invoice.paid <= Listed
          /\ new.shown.status # "DRAFT" /\ new.shown.paid <= new.listed
      BY <1>1, <1>3, <2>2, PageValues DEF TabOK
    <3> QED
      BY <1>2, <2>1, <2>2, <3>1, Looks
<1> QED
  BY <1>5, <1>6, <1>7

\* A request that ends is answered: the staff page loads again or shows the
\* error, and a portal page leaves with the session it was given or stays.
LEMMA Answering ==
  ASSUME Kept, NEW k \in Workers, NEW ok \in BOOLEAN, Answer(k, ok),
         \A j \in Workers : j # k => request'[j] = request[j],
         Settled', handed \subseteq handed',
         Listed <= Listed', Listed \in Nat, Listed' \in Nat,
         ok => \A t \in Tabs : tab[t].awaits = k => request[k].session \in handed' \cap Sessions
  PROVE  Kept'
<1>1. FormOK' /\ InvoiceMatchesShipment'
  BY DEF Answer, Kept, FormOK, InvoiceMatchesShipment
<1>3. k # None
  BY DeskAssumption
<1>4. DeskOK'
  <2>1. DeskOK /\ desk' = DeskAfter(k, ok)
    BY DEF Answer, Kept
  <2>2. CASE desk.awaits = k
    <3>1. (~ok /\ At(k, "issue")) \in BOOLEAN
      OBVIOUS
    <3>2. desk' = [desk EXCEPT !.awaits = None, !.loads = ok, !.error = ~ok /\ At(k, "issue")]
      BY <2>1, <2>2 DEF DeskAfter
    <3>3. /\ desk' \in [shown : Summaries, loads : BOOLEAN, error : BOOLEAN,
                        awaits : Workers \cup {None}]
          /\ desk'.awaits = None
      BY <2>1, <3>1, <3>2 DEF DeskOK
    <3> QED
      BY <3>3 DEF DeskOK
  <2>3. CASE desk.awaits # k
    <3>1. desk' = desk /\ desk.awaits \in Workers \cup {None}
      BY <2>1, <2>3 DEF DeskAfter, DeskOK
    <3> QED
      BY <2>1, <2>3, <3>1 DEF DeskOK
  <2> QED
    BY <2>2, <2>3
<1>5. tab' = [t \in Tabs |-> TabAfter(t, k, ok)]
  BY DEF Answer
<1>6. ASSUME NEW t \in Tabs PROVE TabOK(t)'
  <2>1. TabOK(t) /\ tab'[t] = TabAfter(t, k, ok)
    BY <1>5 DEF Kept, TabsOK
  <2>2. CASE tab[t].awaits # k
    <3>1. tab'[t] = tab[t] /\ tab[t].awaits \in Workers \cup {None}
      BY <2>1, <2>2 DEF TabAfter, TabOK, TabType
    <3>2. tab[t].awaits # None => request'[tab[t].awaits].at \in Checkout
      BY <2>1, <2>2, <3>1 DEF TabOK
    <3> QED
      BY <2>1, <3>1, <3>2, TabKept
  <2>3. CASE tab[t].awaits = k /\ ok
    <3>1. PICK session \in Sessions : session = request[k].session /\ session \in handed'
      BY <2>3
    <3>2. tab'[t] = Aside("stripe", session)
      BY <2>1, <2>3, <3>1 DEF TabAfter, Aside
    <3>3. /\ tab'[t] \in TabType /\ tab'[t].awaits = None /\ tab'[t].session = session
          /\ tab'[t].first = Unread /\ tab'[t].shown = Nothing /\ tab'[t].listed = 0
      BY <3>2, BlankAside
    <3> QED
      BY <3>1, <3>3, PageValues DEF TabOK
  <2>4. CASE tab[t].awaits = k /\ ~ok
    <3>1. tab'[t] = [tab[t] EXCEPT !.awaits = None]
      BY <2>1, <2>4 DEF TabAfter
    <3>2. /\ tab'[t] \in TabType /\ tab'[t].awaits = None /\ tab'[t].on = tab[t].on
          /\ tab'[t].session = tab[t].session /\ tab'[t].first = tab[t].first
          /\ tab'[t].shown = tab[t].shown /\ tab'[t].listed = tab[t].listed
      BY <2>1, <3>1 DEF TabOK, TabType
    <3>3. tab[t].first.invoice.paid \in Int
      BY <2>1 DEF TabOK, TabType, Answers, Summaries, Nothing
    <3> QED
      BY <2>1, <3>2, <3>3 DEF TabOK
  <2> QED
    BY <2>2, <2>3, <2>4
<1>7. TabsOK'
  BY <1>5, <1>6 DEF TabsOK
<1> QED
  BY <1>1, <1>4, <1>7 DEF Kept

LEMMA RequestStep ==
  ASSUME Kept, BooksApart, NEW k \in Workers, Working(k) \/ CutShort(k)
  PROVE  Kept'
<1>1. Next
  BY DEF Working, CutShort, Next
<1>2. /\ Settled' /\ handed \subseteq handed'
      /\ Listed <= Listed' /\ Listed \in Nat /\ Listed' \in Nat
  BY <1>1, BooksGrow DEF Kept
<1>3. CASE CutShort(k)
  <2>1. Answer(k, FALSE) /\ Go(k, Free)
    BY <1>3 DEF CutShort, Fail
  <2> QED
    BY <1>2, <2>1, OthersWait, Answering
<1>4. CASE Working(k)
  <2>1. Continue(k) /\ Settled
    BY <1>4 DEF Working, Kept
  <2>2. \A j \in Workers : j # k => request'[j] = request[j]
    <3>1. \E r : Go(k, r)
      BY <2>1 DEF Continue, Issue, Record, Expire, Supersede, CreateSession, Insert, Reply,
                  ReadInvoice, Complete, Mark
    <3> QED
      BY <3>1, OthersWait
  <2>3. \A t \in Tabs : tab[t].awaits = k =>
          \/ request'[k].at \in Checkout
          \/ request'[k] = Free /\ request[k].session \in handed' \cap Sessions
    BY <2>1, CheckoutGoesOn, DeskAssumption DEF Kept, TabsOK, TabOK
  <2>4. CASE request'[k] = Free
    <3>1. Answer(k, TRUE)
      BY <1>4, <2>4 DEF Working
    <3>2. \A t \in Tabs : tab[t].awaits = k => request[k].session \in handed' \cap Sessions
      BY <2>3, <2>4 DEF Free, Checkout
    <3> QED
      BY <1>2, <2>2, <3>1, <3>2, Answering
  <2>5. CASE request'[k] # Free
    <3>1. UNCHANGED pages
      BY <1>4, <2>5 DEF Working
    <3>2. FormOK' /\ InvoiceMatchesShipment' /\ tab' = tab /\ desk' = desk
      BY <3>1 DEF pages, Kept, FormOK, InvoiceMatchesShipment
    <3>3. request'[k].at # "free"
      BY <1>2, <2>5, FreeIs DEF Settled, AllCover, TypeOK
    <3>4. DeskOK'
      BY <2>2, <3>2, <3>3 DEF Kept, DeskOK
    <3>5. \A t \in Tabs : tab[t].awaits # None => request'[tab[t].awaits].at \in Checkout
      BY <2>3, <2>5, <2>2 DEF Kept, TabsOK, TabOK, TabType
    <3>6. TabsOK'
      BY <1>2, <3>2, <3>5, AllTabs DEF Kept
    <3> QED
      BY <1>2, <3>2, <3>4, <3>6 DEF Kept
  <2> QED
    BY <2>4, <2>5
<1> QED
  BY <1>3, <1>4

-----------------------------------------------------------------------------
\* The pages of an invoice stay with its books: a page awaits only a request on
\* its way, a tab at Stripe was handed its session, and what a portal page has
\* read as paid is on the list it reads next.
THEOREM KeptInvariant == DeskSpec /\ []BooksApart => []Kept
<1>1. DeskInit => Kept
  BY DeskInitially
<1>2. Kept /\ BooksApart /\ [DeskNext]_allVars => Kept'
  <2> SUFFICES ASSUME Kept, BooksApart, [DeskNext]_allVars PROVE Kept'
    OBVIOUS
  <2>1. CASE UNCHANGED allVars
    <3>1. /\ UNCHANGED <<books, stripe, handed, request, tab, form, bills, desk, failures>>
      BY <2>1 DEF allVars, vars, pages
    <3>2. FormOK' /\ InvoiceMatchesShipment' /\ failures' \in 0..MaxFailures
      BY <3>1 DEF Kept, FormOK, InvoiceMatchesShipment, Settled, AllCover, TypeOK
    <3>3. desk' \in [shown : Summaries, loads : BOOLEAN, error : BOOLEAN,
                     awaits : {desk.awaits, None}]
      BY <3>1 DEF Kept, DeskOK
    <3> QED
      BY <3>1, <3>2, <3>3, PaperStep
  <2>2. CASE DeskNext
    <3>1. CASE \/ \E c \in Customers : ChooseCustomer(c) \/ OfferShipments(c)
               \/ \E x \in Shipments : ChooseShipment(x)
               \/ SubmitForm
      BY <3>1, FormStep
    <3>2. CASE Create \/ OpenDesk \/ LoadDesk \/ LoadDeskFails
      BY <3>2, CreateStep, DeskPageStep
    <3>3. CASE \E k \in Workers : Working(k) \/ CutShort(k)
      BY <3>3, RequestStep
    <3>4. CASE \E k \in Workers : PressIssue(k) \/ \E amount \in Amounts : PressRecord(k, amount)
      BY <3>4, PressStep
    <3>5. CASE \/ \E k \in Workers, s \in Sessions : Webhook(k, s)
               \/ \E s \in Sessions : Timeout(s)
      BY <3>5, BehindThePages
    <3>6. CASE \E t \in Tabs : OpenTab(t) \/ GoBack(t)
      BY <3>6, BlankStep
    <3>7. CASE \E t \in Tabs : FirstQuery(t) \/ SecondQuery(t) \/ QueryFails(t)
      BY <3>7, QueryStep
    <3>8. CASE \E t \in Tabs : PayAtStripe(t)
      BY <3>8, PayAtStripeStep
    <3>9. CASE \E k \in Workers, t \in Tabs : PayNow(k, t)
      BY <3>9, PayNowStep
    <3> QED
      BY <2>2, <3>1, <3>2, <3>3, <3>4, <3>5, <3>6, <3>7, <3>8, <3>9 DEF DeskNext
  <2> QED
    BY <2>1, <2>2
<1> QED
  BY <1>1, <1>2, PTL DEF DeskSpec

\* What is billed is billed to the shipment's customer, and what the portal shows
\* as paid is accounted for by the payments it lists beside it, for any number of
\* customers, shipments and tabs, whatever is recorded or confirmed between the
\* two reads. (InvoicesService.create, CustomerPortalService.getInvoice.)
THEOREM DeskStaysRight == DeskSpec /\ []BooksApart => []DeskIsRight
<1>1. Kept => DeskIsRight
  <2> SUFFICES ASSUME Kept PROVE DeskIsRight
    OBVIOUS
  <2>1. TypeOK /\ InvoiceMatchesShipment
    BY DEF Kept, Settled, AllCover
  <2>2. form.offered \subseteq Shipments /\ form.asked \subseteq Customers
    BY DEF Kept, FormOK
  <2>3. \A x \in Summaries : x.status \in InvoiceStatuses \cup {"NONE"} /\ x.paid \in 0..Total
    BY MoneyAssumption DEF Summaries, Nothing
  <2>4. /\ desk.shown.status \in InvoiceStatuses \cup {"NONE"} /\ desk.shown.paid \in 0..Total
        /\ desk.awaits # None => ~At(desk.awaits, "free")
    BY <2>3 DEF Kept, DeskOK, At
  <2>5. ASSUME NEW t \in Tabs
        PROVE  /\ tab[t].shown.status \in (InvoiceStatuses \cup {"NONE"}) \ {"DRAFT"}
               /\ tab[t].left \in 0..Attempts
               /\ tab[t].awaits # None => ~At(tab[t].awaits, "free")
               /\ tab[t].on = "stripe" => tab[t].session \in handed
               /\ tab[t].shown.paid <= tab[t].listed
    BY <2>3 DEF Kept, TabsOK, TabOK, TabType, Checkout, At
  <2> QED
    BY <2>1, <2>2, <2>4, <2>5 DEF DeskIsRight, DeskTypeOK, PaidIsListed
<1> QED
  BY <1>1, KeptInvariant, PTL

=============================================================================

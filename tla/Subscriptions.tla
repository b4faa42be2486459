----------------------------- MODULE Subscriptions -----------------------------
(***************************************************************************)
(* The TenantSubscription row of a tenant that signed up for a trial: its  *)
(* activation through a Stripe Checkout, the events of the Stripe          *)
(* subscription, and the two places that suspend a tenant by the clock     *)
(* (SubscriptionStatusGuard on a request, the hourly sweep).               *)
(*                                                                         *)
(* Stripe repeats an event until it is acknowledged and keeps no order.    *)
(* A worker is one HTTP request: it reads the row, and writes it in a      *)
(* later step from what it read; a restart ends it in between.             *)
(*                                                                         *)
(* No request touches two tenants, so there is one. Left out: billing      *)
(* periods, the promotional price, the e-mails, and how the trial tenant   *)
(* came to be (TenantProvisioningService, another module's matter).        *)
(***************************************************************************)
EXTENDS Integers

CONSTANTS
  Subs,          \* bound: the Stripe subscriptions the tenant may ever buy
  Workers,
  None,          \* null
  TrialDays, GraceDays,
  MaxTime,       \* bound of the clock
  MaxChanges,    \* bound: what happens to subscriptions at Stripe, and to
                 \* requests that are cut short, in all
  MaxFailures    \* bound: requests cut short

ASSUME SubsAssumption == None \notin Subs \cup Nat
ASSUME TimeAssumption == TrialDays \in Nat /\ GraceDays \in Nat /\ MaxTime \in Nat
ASSUME BoundsAssumption == MaxChanges \in Nat /\ MaxFailures \in Nat

VARIABLES
  row,        \* status, stripeSubscriptionId, gracePeriodEndsAt, trialEndsAt
  now,
  stripe,     \* subscription -> its status at Stripe
  offered,    \* subscriptions whose checkout URL the owner was given
  changes,    \* how often something changed at Stripe
  events,     \* the events Stripe has emitted
  ledger,     \* StripeWebhookEvent: those processed
  request,    \* worker -> what it still has to do, with the values it read
  failures

atStripe == <<stripe, changes, events>>
vars == <<row, now, atStripe, offered, ledger, request, failures>>

SubscriptionStatuses ==
  {"TRIALING", "ACTIVE", "PAST_DUE", "UNPAID", "CANCELED", "SUSPENDED"}

Free == [at |-> "free"]

Init ==
  /\ row = [status |-> "TRIALING", sub |-> None, grace |-> None, trialEnds |-> TrialDays]
  /\ now = 0
  /\ stripe = [s \in Subs |-> "none"]
  /\ offered = {} /\ changes = 0 /\ events = {} /\ ledger = {}
  /\ request = [k \in Workers |-> Free]
  /\ failures = 0

At(k, place) == request[k].at = place
Go(k, next) == request' = [request EXCEPT ![k] = next]

-----------------------------------------------------------------------------
\* Outside: time passes, and the owner and Stripe do what they do. An event
\* carries the status the subscription had when it was emitted.

Tick ==
  /\ now < MaxTime
  /\ now' = now + 1
  /\ UNCHANGED <<row, atStripe, offered, ledger, request, failures>>

Change(s, to, types) ==
  /\ changes + failures < MaxChanges
  /\ changes' = changes + 1
  /\ stripe' = [stripe EXCEPT ![s] = to]
  /\ events' = events \cup
       {[type |-> t, sub |-> s, status |-> to, change |-> changes] : t \in types}
  /\ UNCHANGED <<row, now, offered, ledger, request, failures>>

\* A checkout has no subscription until it is paid: which one Stripe makes is all one.
Unbought == {s \in offered : stripe[s] = "none"}
Subscribe(s) ==
  /\ s \in Unbought
  /\ s = CHOOSE x \in Unbought : TRUE
  /\ Change(s, "active", {"checkout", "paid"})
PaymentFails(s) ==
  stripe[s] \in {"active", "past_due"} /\ Change(s, "past_due", {"failed", "updated"})
PaymentSucceeds(s) ==
  stripe[s] \in {"active", "past_due"} /\ Change(s, "active", {"paid", "updated"})
GiveUp(s) == stripe[s] = "past_due" /\ Change(s, "unpaid", {"updated"})
Cancel(s) == stripe[s] \in {"active", "past_due"} /\ Change(s, "canceled", {"deleted"})

-----------------------------------------------------------------------------
\* OnboardingService.startPaidSubscription: a checkout, for a row without a
\* Stripe subscription. Nothing is written; asking again gives another one.

StartPaidSubscription ==
  /\ row.sub = None
  /\ Subs \ offered # {}
  /\ offered' = offered \cup {CHOOSE s \in Subs \ offered : TRUE}
  /\ UNCHANGED <<row, now, atStripe, ledger, request, failures>>

-----------------------------------------------------------------------------
\* handleStripeWebhook. Deliver is the ledger check and the first read of the
\* handler: the row of the event's subscription, or the subscription itself at
\* Stripe. An event about a subscription no row has is only marked.

\* mapStripeSubscriptionStatus (trialing is never sent: no checkout asks for a trial).
MapStatus(st) ==
  CASE st = "active" -> "ACTIVE"
    [] st = "past_due" -> "PAST_DUE"
    [] st = "canceled" -> "CANCELED"
    [] OTHER -> "UNPAID"

Known(s) == row.sub = s

\* What the handler of an event writes, from the row as read.
Written(e) ==
  CASE e.type = "paid" -> [row EXCEPT !.status = "ACTIVE", !.grace = None]
    [] e.type = "failed" -> [row EXCEPT !.status = "PAST_DUE", !.grace = now + GraceDays]
    [] e.type = "deleted" -> [row EXCEPT !.status = "CANCELED"]
    [] e.type = "updated" ->
         [row EXCEPT !.status = MapStatus(e.status),
                     !.grace = IF e.status = "active" THEN None ELSE @]

\* Mistake for EventsAcknowledged: an unknown subscription is an error, not ignored.
DeliverKnown(k, e) ==
  /\ At(k, "free")
  /\ e \notin ledger
  /\ IF e.type = "checkout"
     THEN Go(k, [at |-> "attach", event |-> e, status |-> stripe[e.sub]])
     ELSE Known(e.sub) /\ Go(k, [at |-> "write", event |-> e, row |-> Written(e)])
  /\ UNCHANGED <<row, now, atStripe, offered, ledger, failures>>

Deliver(k, e) ==
  /\ At(k, "free")
  /\ e \notin ledger
  /\ Go(k, IF e.type = "checkout"
           THEN [at |-> "attach", event |-> e, status |-> stripe[e.sub]]
           ELSE IF Known(e.sub) THEN [at |-> "write", event |-> e, row |-> Written(e)]
                                ELSE [at |-> "mark", event |-> e])
  /\ UNCHANGED <<row, now, atStripe, offered, ledger, failures>>

\* An update sets only the columns of its data: the subscription id stays.
Write(k) ==
  /\ At(k, "write")
  /\ row' = [row EXCEPT !.status = request[k].row.status, !.grace = request[k].row.grace]
  /\ Go(k, [at |-> "mark", event |-> request[k].event])
  /\ UNCHANGED <<now, atStripe, offered, ledger, failures>>

\* activateTrialSubscription: its reads, and its transaction with the status
\* retrieved from Stripe before them.

\* Mistake for OneActivation: only the same subscription counts as attached.
MayAttachOther(s) == row.sub # s
MayAttach(s) == row.sub = None

Attach(k) ==
  /\ At(k, "attach")
  /\ Go(k, [request[k] EXCEPT !.at = IF MayAttach(request[k].event.sub) THEN "activate"
                                     ELSE "mark"])
  /\ UNCHANGED <<row, now, atStripe, offered, ledger, failures>>

Activate(k) ==
  /\ At(k, "activate")
  /\ row' = [row EXCEPT !.sub = request[k].event.sub, !.status = MapStatus(request[k].status)]
  /\ Go(k, [at |-> "mark", event |-> request[k].event])
  /\ UNCHANGED <<now, atStripe, offered, ledger, failures>>

\* StripeWebhookLedgerService.markProcessed, after the handler.
Mark(k) ==
  /\ At(k, "mark")
  /\ ledger' = ledger \cup {request[k].event}
  /\ Go(k, Free)
  /\ UNCHANGED <<row, now, atStripe, offered, failures>>

-----------------------------------------------------------------------------
\* Suspension by the clock.

\* Mistake for AccessFollowsPayment: no deadline is taken for one long past.
OverdueOrNull ==
  row.status = "PAST_DUE" /\ (IF row.grace = None THEN TRUE ELSE row.grace < now)
Overdue == row.status = "PAST_DUE" /\ row.grace # None /\ row.grace < now

TrialOver == row.status = "TRIALING" /\ row.trialEnds < now

\* SubscriptionStatusGuard.resolveIsSuspended: reads, and then writes by id. A
\* request of a tenant in good standing changes nothing.
Guard(k) ==
  /\ At(k, "free")
  /\ Overdue \/ TrialOver
  /\ Go(k, [at |-> "suspend"])
  /\ UNCHANGED <<row, now, atStripe, offered, ledger, failures>>

Suspend(k) ==
  /\ At(k, "suspend")
  /\ row' = [row EXCEPT !.status = "SUSPENDED"]
  /\ Go(k, Free)
  /\ UNCHANGED <<now, atStripe, offered, ledger, failures>>

\* BillingSchedulerService: one conditional statement.

\* Mistake for OverdueIsSuspended: the comparison the wrong way round.
SweepEarly ==
  /\ row.status = "PAST_DUE" /\ row.grace # None /\ row.grace > now
  /\ row' = [row EXCEPT !.status = "SUSPENDED"]
  /\ UNCHANGED <<now, atStripe, offered, ledger, request, failures>>

SweepExpiredGracePeriods ==
  /\ row.status = "PAST_DUE" /\ row.grace # None /\ row.grace < now
  /\ row' = [row EXCEPT !.status = "SUSPENDED"]
  /\ UNCHANGED <<now, atStripe, offered, ledger, request, failures>>

-----------------------------------------------------------------------------
\* A request ends early: a lost connection or a restart.
Fail(k) ==
  /\ ~ At(k, "free")
  /\ failures < MaxFailures /\ changes + failures < MaxChanges
  /\ failures' = failures + 1
  /\ Go(k, Free)
  /\ UNCHANGED <<row, now, atStripe, offered, ledger>>

Continue(k) == Write(k) \/ Attach(k) \/ Activate(k) \/ Mark(k) \/ Suspend(k)

Next ==
  \/ Tick \/ StartPaidSubscription \/ SweepExpiredGracePeriods
  \/ \E s \in Subs :
       Subscribe(s) \/ PaymentFails(s) \/ PaymentSucceeds(s) \/ GiveUp(s) \/ Cancel(s)
  \/ \E k \in Workers : Guard(k) \/ Continue(k) \/ Fail(k) \/ \E e \in events : Deliver(k, e)

Spec == Init /\ [][Next]_vars

\* The events there can be.
Events ==
  [type : {"checkout", "paid", "failed", "updated", "deleted"}, sub : Subs,
   status : {"active", "past_due", "unpaid", "canceled"}, change : 0..(MaxChanges - 1)]

\* A request runs on unless it is cut short, Stripe goes on delivering while an
\* event is not acknowledged, and the sweep runs every hour. Customers and staff
\* need not do anything, and time may stand still.
Fairness ==
  /\ \A k \in Workers : WF_vars(Continue(k))
  /\ WF_vars(\E k \in Workers, e \in events : Deliver(k, e))
  /\ WF_vars(SweepExpiredGracePeriods)

-----------------------------------------------------------------------------
\* What keeps two requests apart is nothing in the code: each reads the row and
\* writes it later by its id. What is promised is promised while those that would
\* undo each other do not overlap.

\* No two activations wait to write, both having read a row without a subscription.
ActivationsApart ==
  \A j, k \in Workers : At(j, "activate") /\ At(k, "activate") => j = k

\* Nothing about the tenant's subscription is to be written between the guard's
\* reading of the row and its suspension.
GuardApart ==
  \A j, k \in Workers : At(j, "suspend") => ~ At(k, "write") /\ ~ At(k, "activate")

\* All other requests overlap as they like.
ApartSpec == Init /\ [][Next /\ ActivationsApart' /\ GuardApart']_vars /\ Fairness

-----------------------------------------------------------------------------
\* Properties.

Rows ==
  [status : SubscriptionStatuses, sub : Subs \cup {None},
   grace : (0..(MaxTime + GraceDays)) \cup {None}, trialEnds : {TrialDays}]

StripeStatuses == {"none", "active", "past_due", "unpaid", "canceled"}

\* What a request carries, by what it still has to do.
Requests ==
  [at : {"free", "suspend"}]
    \cup [at : {"attach", "activate", "mark"}, event : Events, status : StripeStatuses]
    \cup [at : {"write"}, event : Events, row : Rows]
    \cup [at : {"mark"}, event : Events]

\* The row, the clock, Stripe and the requests hold values of their types.
TypeOK ==
  /\ row \in Rows
  /\ now \in 0..MaxTime
  /\ stripe \in [Subs -> StripeStatuses]
  /\ offered \subseteq Subs
  /\ events \subseteq Events /\ ledger \subseteq events
  /\ request \in [Workers -> Requests]
  /\ changes \in 0..MaxChanges /\ failures \in 0..MaxFailures

\* A tenant that never activated billing is trialing or suspended, and what an
\* expired trial is suspended by only an activation ends: no event about another
\* subscription, and no repetition of one, gives access back.
TrialIsLeftByActivation ==
  row.sub = None =>
    \/ row'.sub # None
    \/ row' = row
    \/ row.status = "TRIALING" /\ row' = [row EXCEPT !.status = "SUSPENDED"]

\* A tenant keeps the Stripe subscription it was activated with, also when a second
\* checkout opened before was paid too, or an event is repeated.
AttachedForGood == row.sub # None => row'.sub = row.sub

\* A tenant is activated once, by one checkout, and by nothing else
\* (activateTrialSubscription, handleSubscriptionUpdated).
OneActivation == [][TrialIsLeftByActivation /\ AttachedForGood]_vars

\* Nobody is suspended before their time: a suspended row has a deadline that
\* passed, of the trial or of the grace period, whatever order and however often
\* events come. An event that makes the row PAST_DUE without a deadline (an update
\* that overtook the failure) must not count.
SuspendedIsOverdue ==
  row.status = "SUSPENDED" =>
    \/ row.grace # None /\ row.grace < now
    \/ row.sub = None /\ row.trialEnds < now

\* A tenant whose payments never failed and who did not cancel has access: neither
\* the guard, nor the sweep, nor a late or repeated event takes it away, although
\* the end of the trial has passed.
PayingNotRestricted ==
  row.sub # None /\ (\A e \in events : e.sub = row.sub => e.status = "active") =>
    row.status = "ACTIVE"

\* A tenant's access follows its payments and deadlines: it is not taken before a
\* deadline passed, nor from one whose every event says that it pays. (What a guard
\* that read before a payment writes after it, GuardApart leaves out.)
AccessFollowsPayment == TypeOK /\ SuspendedIsOverdue /\ PayingNotRestricted

\* A grace period that ran out ends in suspension also when nobody at the tenant
\* makes a request, unless an event about the subscription comes first.
OverdueIsSuspended == Overdue ~> ~ Overdue

\* Every event is acknowledged in the end, also one about a subscription no row
\* knows or whose processing was cut short: Stripe need not repeat it forever, and
\* again and again none is waiting.
EventsAcknowledged == []<>(events = ledger)

=============================================================================

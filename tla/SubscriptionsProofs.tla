-------------------------- MODULE SubscriptionsProofs --------------------------
(***************************************************************************)
(* What Subscriptions promises for any number of subscriptions, events,    *)
(* overlapping requests and failures and any length of the trial and the   *)
(* grace period: a tenant is activated once, while two activations do not  *)
(* overlap; nobody is suspended early and who pays has access, while the   *)
(* guard does not overlap with what is written of a payment, either.       *)
(***************************************************************************)
EXTENDS Subscriptions, TLAPS

\* Something went wrong with subscription s: an event said so.
Failing(s) == \E e \in events : e.sub = s /\ e.status # "active"

\* A deadline of the tenant's has passed.
Ended == \/ row.grace # None /\ row.grace < now
         \/ row.sub = None /\ row.trialEnds < now

\* The trial is over with the activation and does not come back.
AtTrial ==
  IF row.sub = None THEN row.status \in {"TRIALING", "SUSPENDED"} ELSE row.status # "TRIALING"

\* What a request read of the row's subscription is still so.
Carries(r) ==
  /\ r.at \notin {"free", "suspend"} => r.event \in events
  /\ r.at = "activate" => row.sub = None
  /\ r.at = "write" =>
       row.sub = r.event.sub /\ r.row.status \notin {"SUSPENDED", "TRIALING"}

Ordered == TypeOK /\ AtTrial /\ \A k \in Workers : Carries(request[k])

\* What a request read justifies what it will write.
Justified(r) ==
  /\ r.at \in {"attach", "activate"} => r.status = "active" \/ Failing(r.event.sub)
  /\ r.at = "write" => r.row.status = "ACTIVE" \/ Failing(r.event.sub)
  /\ r.at = "suspend" => Ended /\ (row.sub # None => Failing(row.sub))

\* What Stripe knows of a subscription, an event has said.
Told ==
  /\ \A e \in events : e.type = "paid" => e.status = "active"
  /\ \A e \in events : e.type \in {"failed", "deleted"} => e.status # "active"
  /\ \A e \in events : stripe[e.sub] # "none"
  /\ \A s \in Subs : stripe[s] \in {"none", "active"} \/ Failing(s)

Fair ==
  /\ Told /\ SuspendedIsOverdue /\ PayingNotRestricted
  /\ \A k \in Workers : Justified(request[k])

-----------------------------------------------------------------------------
\* The row and the subscription it has.

LEMMA FreeFits == Free \in Requests /\ Free.at = "free"
BY DEF Free, Requests

LEMMA OrderedAtFirst ==
  ASSUME Init
  PROVE  Ordered
<1>1. TypeOK
  BY FreeFits, TimeAssumption, BoundsAssumption
  DEF Init, TypeOK, Rows, SubscriptionStatuses, StripeStatuses
<1> QED
  BY <1>1, FreeFits DEF Init, Ordered, AtTrial, Carries

\* Request k goes on as r, the others stay as they are.
LEMMA Turn ==
  ASSUME Ordered, NEW k \in Workers, NEW r \in Requests, Go(k, r), Carries(r)',
         \A j \in Workers \ {k}, q \in Requests : q = request[j] /\ Carries(q) => Carries(q)'
  PROVE  /\ request' \in [Workers -> Requests]
         /\ \A j \in Workers : Carries(request[j])'
<1>1. request' \in [Workers -> Requests]
  BY DEF Ordered, TypeOK, Go
<1>2. ASSUME NEW j \in Workers
      PROVE  Carries(request[j])'
  <2>1. CASE j = k
    <3>1. request'[j] = r
      BY <2>1 DEF Ordered, TypeOK, Go
    <3> QED
      BY <3>1 DEF Carries
  <2>2. CASE j # k
    <3>1. PICK q \in Requests : q = request[j]
      BY DEF Ordered, TypeOK
    <3>2. Carries(q)'
      BY <2>2, <3>1 DEF Ordered
    <3>3. request'[j] = q
      BY <2>2, <3>1 DEF Ordered, TypeOK, Go
    <3> QED
      BY <3>2, <3>3 DEF Carries
  <2> QED
    BY <2>1, <2>2
<1> QED
  BY <1>1, <1>2

\* A step of a request that only reads.
LEMMA TurnReading ==
  ASSUME Ordered, NEW k \in Workers, NEW r \in Requests, Go(k, r), Carries(r),
         UNCHANGED <<row, now, atStripe, offered>>,
         ledger' \subseteq events, failures' \in 0..MaxFailures
  PROVE  Ordered'
<1>1. \A q : Carries(q) => Carries(q)'
  BY DEF Carries, atStripe
<1>2. /\ request' \in [Workers -> Requests]
      /\ \A j \in Workers : Carries(request[j])'
  BY <1>1, Turn
<1>3. TypeOK'
  BY <1>2 DEF Ordered, TypeOK, atStripe
<1> QED
  BY <1>2, <1>3 DEF Ordered, AtTrial

\* A step that no request takes.
LEMMA NoTurn ==
  ASSUME Ordered, UNCHANGED request, row'.sub = row.sub, events \subseteq events'
  PROVE  /\ request' \in [Workers -> Requests]
         /\ \A j \in Workers : Carries(request[j])'
BY DEF Ordered, TypeOK, Carries

\* Something happens to a subscription, and its events say what.
LEMMA NewEvents ==
  ASSUME Ordered, NEW s \in Subs, NEW to \in StripeStatuses \ {"none"},
         NEW types \in SUBSET {"checkout", "paid", "failed", "updated", "deleted"},
         Change(s, to, types), types # {}
  PROVE  /\ Ordered'
         /\ \A e \in events' \ events : e.sub = s /\ e.status = to /\ e.type \in types
         /\ \E e \in events' : e.sub = s /\ e.status = to
         /\ events \subseteq events'
         /\ \A x \in Subs : stripe'[x] = IF x = s THEN to ELSE stripe[x]
         /\ UNCHANGED <<row, now, request>>
<1> DEFINE new == {[type |-> t, sub |-> s, status |-> to, change |-> changes] : t \in types}
<1>1. /\ events' = events \cup new /\ stripe' = [stripe EXCEPT ![s] = to]
      /\ UNCHANGED <<row, now, offered, ledger, request, failures>>
      /\ changes' \in 0..MaxChanges /\ changes \in 0..(MaxChanges - 1)
  BY BoundsAssumption DEF Change, Ordered, TypeOK
<1>2. \A e \in new : /\ e.sub = s /\ e.status = to /\ e.type \in types
                     /\ e \in Events
  BY <1>1 DEF Events, StripeStatuses
<1>3. \E e \in new : e.sub = s /\ e.status = to
  <2>1. PICK t \in types : TRUE
    OBVIOUS
  <2>2. [type |-> t, sub |-> s, status |-> to, change |-> changes] \in new
    BY <2>1
  <2> QED
    BY <1>2, <2>2
<1> HIDE DEF new
<1>4. /\ request' \in [Workers -> Requests]
      /\ \A j \in Workers : Carries(request[j])'
  BY <1>1, NoTurn
<1>5. /\ stripe' \in [Subs -> StripeStatuses]
      /\ \A x \in Subs : stripe'[x] = IF x = s THEN to ELSE stripe[x]
  BY <1>1 DEF Ordered, TypeOK
<1>6. TypeOK'
  BY <1>1, <1>2, <1>4, <1>5 DEF Ordered, TypeOK
<1> QED
  BY <1>1, <1>2, <1>3, <1>4, <1>5, <1>6 DEF Ordered, AtTrial

\* What Stripe does with a subscription is a change of which the events tell the truth.
LEMMA StripeChanges ==
  ASSUME NEW s \in Subs,
         Subscribe(s) \/ PaymentFails(s) \/ PaymentSucceeds(s) \/ GiveUp(s) \/ Cancel(s)
  PROVE  \E to \in StripeStatuses \ {"none"},
            types \in SUBSET {"checkout", "paid", "failed", "updated", "deleted"} :
           /\ Change(s, to, types) /\ types # {}
           /\ "paid" \in types => to = "active"
           /\ "failed" \in types \/ "deleted" \in types => to # "active"
<1> DEFINE Types == {"checkout", "paid", "failed", "updated", "deleted"}
<1>1. {"active", "past_due", "unpaid", "canceled"} \subseteq StripeStatuses \ {"none"}
  BY DEF StripeStatuses
<1> USE <1>1
<1>2. CASE Subscribe(s)
  <2> WITNESS "active" \in StripeStatuses \ {"none"}, {"checkout", "paid"} \in SUBSET Types
  <2> QED
    BY <1>2 DEF Subscribe
<1>3. CASE PaymentFails(s)
  <2> WITNESS "past_due" \in StripeStatuses \ {"none"}, {"failed", "updated"} \in SUBSET Types
  <2> QED
    BY <1>3 DEF PaymentFails
<1>4. CASE PaymentSucceeds(s)
  <2> WITNESS "active" \in StripeStatuses \ {"none"}, {"paid", "updated"} \in SUBSET Types
  <2> QED
    BY <1>4 DEF PaymentSucceeds
<1>5. CASE GiveUp(s)
  <2> WITNESS "unpaid" \in StripeStatuses \ {"none"}, {"updated"} \in SUBSET Types
  <2> QED
    BY <1>5 DEF GiveUp
<1>6. CASE Cancel(s)
  <2> WITNESS "canceled" \in StripeStatuses \ {"none"}, {"deleted"} \in SUBSET Types
  <2> QED
    BY <1>6 DEF Cancel
<1> QED
  BY <1>2, <1>3, <1>4, <1>5, <1>6

\* What a handler will write of an event.
LEMMA WrittenIsRow ==
  ASSUME Ordered, NEW e \in events, e.type # "checkout"
  PROVE  /\ Written(e) \in Rows
         /\ Written(e).status \notin {"SUSPENDED", "TRIALING"}
         /\ e.type = "paid" => Written(e).status = "ACTIVE"
         /\ e.type = "updated" /\ e.status = "active" => Written(e).status = "ACTIVE"
<1>1. e.type \in {"paid", "failed", "updated", "deleted"} /\ row \in Rows
  BY DEF Ordered, TypeOK, Events
<1>2. /\ row.grace \in (0..(MaxTime + GraceDays)) \cup {None}
      /\ row = [status |-> row.status, sub |-> row.sub, grace |-> row.grace,
                trialEnds |-> row.trialEnds]
      /\ row.status \in SubscriptionStatuses /\ row.sub \in Subs \cup {None}
      /\ row.trialEnds \in {TrialDays}
  BY <1>1 DEF Rows
<1>3. CASE e.type = "paid"
  <2>1. Written(e) = [row EXCEPT !.status = "ACTIVE", !.grace = None]
    BY <1>3 DEF Written
  <2> QED
    BY <1>2, <1>3, <2>1 DEF Rows, SubscriptionStatuses
<1>4. CASE e.type = "failed"
  <2>1. Written(e) = [row EXCEPT !.status = "PAST_DUE", !.grace = now + GraceDays]
    BY <1>4 DEF Written
  <2>2. now + GraceDays \in 0..(MaxTime + GraceDays)
    BY TimeAssumption DEF Ordered, TypeOK
  <2> QED
    BY <1>2, <1>4, <2>1, <2>2 DEF Rows, SubscriptionStatuses
<1>5. CASE e.type = "deleted"
  <2>1. Written(e) = [row EXCEPT !.status = "CANCELED"]
    BY <1>5 DEF Written
  <2> QED
    BY <1>2, <1>5, <2>1 DEF Rows, SubscriptionStatuses
<1>6. CASE e.type = "updated"
  <2> DEFINE g == IF e.status = "active" THEN None ELSE row.grace
             st == MapStatus(e.status)
  <2>1. Written(e) = [row EXCEPT !.status = st, !.grace = g]
    BY <1>6 DEF Written
  <2>2. /\ st \in SubscriptionStatuses \ {"SUSPENDED", "TRIALING"}
        /\ e.status = "active" => st = "ACTIVE"
    BY DEF MapStatus, SubscriptionStatuses
  <2>3. g \in (0..(MaxTime + GraceDays)) \cup {None}
    BY <1>2
  <2> HIDE DEF st, g
  <2> QED
    BY <1>2, <1>6, <2>1, <2>2, <2>3 DEF Rows
<1> QED
  BY <1>1, <1>3, <1>4, <1>5, <1>6

\* An event is taken up as one of three requests.
LEMMA Delivering ==
  ASSUME Ordered, NEW k \in Workers, NEW e \in events, Deliver(k, e)
  PROVE  /\ UNCHANGED <<row, now, atStripe, offered>>
         /\ \E r \in Requests :
              /\ Go(k, r) /\ Carries(r) /\ r.event = e
              /\ \/ r.at = "attach" /\ r.status = stripe[e.sub]
                 \/ r.at = "write" /\ e.type # "checkout" /\ r.row = Written(e)
                 \/ r.at = "mark"
<1>1. UNCHANGED <<row, now, atStripe, offered>> /\ e \in Events /\ e.sub \in Subs
  BY DEF Deliver, Ordered, TypeOK, Events
<1>2. CASE e.type = "checkout"
  <2> DEFINE r == [at |-> "attach", event |-> e, status |-> stripe[e.sub]]
  <2>1. r \in Requests
    BY <1>1 DEF Ordered, TypeOK, Requests
  <2>2. Carries(r) /\ Go(k, r)
    BY <1>2 DEF Carries, Deliver
  <2> QED
    BY <1>1, <2>1, <2>2
<1>3. CASE e.type # "checkout" /\ Known(e.sub)
  <2> DEFINE r == [at |-> "write", event |-> e, row |-> Written(e)]
  <2>1. Written(e) \in Rows /\ Written(e).status \notin {"SUSPENDED", "TRIALING"}
    BY <1>3, WrittenIsRow
  <2>2. r \in Requests /\ Carries(r)
    BY <1>1, <1>3, <2>1 DEF Requests, Carries, Known
  <2>3. Go(k, r)
    BY <1>3 DEF Deliver
  <2> QED
    BY <1>1, <1>3, <2>2, <2>3
<1>4. CASE e.type # "checkout" /\ ~Known(e.sub)
  <2> DEFINE r == [at |-> "mark", event |-> e]
  <2>1. r \in Requests /\ Carries(r)
    BY <1>1 DEF Requests, Carries
  <2>2. Go(k, r)
    BY <1>4 DEF Deliver
  <2> QED
    BY <1>1, <2>1, <2>2
<1> QED
  BY <1>2, <1>3, <1>4

\* A handler's update: of the row it read, whose subscription is still its event's.
LEMMA Writing ==
  ASSUME Ordered, NEW k \in Workers, Write(k)
  PROVE  /\ Ordered'
         /\ request[k].at = "write" /\ row.sub = request[k].event.sub /\ row.sub # None
         /\ row'.status = request[k].row.status /\ row'.sub = row.sub
         /\ row'.status \notin {"SUSPENDED", "TRIALING"}
         /\ Go(k, [at |-> "mark", event |-> request[k].event])
         /\ UNCHANGED <<now, atStripe>>
<1>1. PICK q \in Requests : q = request[k]
  BY DEF Ordered, TypeOK
<1>2. q.at = "write" /\ Carries(q) /\ q.event \in events /\ q.event \in Events /\ q.row \in Rows
  BY <1>1 DEF Write, At, Ordered, Requests, Carries
<1>3. /\ row.sub = q.event.sub /\ row.sub # None
      /\ q.row.status \notin {"SUSPENDED", "TRIALING"}
  BY <1>2, SubsAssumption DEF Carries, Events
<1>4. /\ row' = [row EXCEPT !.status = q.row.status, !.grace = q.row.grace]
      /\ Go(k, [at |-> "mark", event |-> q.event])
      /\ UNCHANGED <<now, atStripe, offered, ledger, failures>>
  BY <1>1 DEF Write
<1>5. row' \in Rows /\ row'.status = q.row.status /\ row'.sub = row.sub
  BY <1>2, <1>4 DEF Ordered, TypeOK, Rows
<1> DEFINE r == [at |-> "mark", event |-> q.event]
<1>6. r \in Requests /\ Carries(r)'
  BY <1>2, <1>4 DEF Requests, Carries, atStripe
<1>7. \A p : Carries(p) => Carries(p)'
  BY <1>4, <1>5 DEF Carries, atStripe
<1>8. /\ request' \in [Workers -> Requests]
      /\ \A j \in Workers : Carries(request[j])'
  <2> HIDE DEF r
  <2> QED
    BY <1>4, <1>6, <1>7, Turn DEF r
<1>9. TypeOK'
  BY <1>4, <1>5, <1>8 DEF Ordered, TypeOK, atStripe
<1> QED
  BY <1>1, <1>2, <1>3, <1>4, <1>5, <1>8, <1>9 DEF Ordered, AtTrial

LEMMA Attaching ==
  ASSUME Ordered, NEW k \in Workers, Attach(k)
  PROVE  /\ UNCHANGED <<row, now, atStripe, offered>>
         /\ \E r \in Requests :
              /\ Go(k, r) /\ Carries(r) /\ r.at \in {"activate", "mark"}
              /\ r.event = request[k].event /\ r.status = request[k].status
<1>1. PICK q \in Requests : q = request[k]
  BY DEF Ordered, TypeOK
<1>2. /\ q.at = "attach" /\ q.event \in events
      /\ q \in [at : {"attach", "activate", "mark"}, event : Events, status : StripeStatuses]
  BY <1>1 DEF Attach, At, Ordered, Requests, Carries
<1>3. PICK place \in {"activate", "mark"} :
         /\ place = "activate" => row.sub = None
         /\ Go(k, [q EXCEPT !.at = place])
  BY <1>1 DEF Attach, MayAttach
<1> DEFINE r == [q EXCEPT !.at = place]
<1>4. r \in Requests /\ r.at = place /\ r.event = q.event /\ r.status = q.status
  BY <1>2 DEF Requests
<1>5. Go(k, r)
  BY <1>3
<1> HIDE DEF r
<1>6. Carries(r)
  BY <1>2, <1>3, <1>4 DEF Carries
<1> QED
  BY <1>1, <1>4, <1>5, <1>6 DEF Attach

\* The activation: the row still has no subscription, because no other waits to.
LEMMA Activating ==
  ASSUME Ordered, ActivationsApart, NEW k \in Workers, Activate(k)
  PROVE  /\ Ordered'
         /\ request[k].at = "activate" /\ row.sub = None
         /\ row'.sub = request[k].event.sub /\ row'.sub # None
         /\ row'.status = MapStatus(request[k].status)
         /\ row'.status \notin {"SUSPENDED", "TRIALING"}
         /\ Go(k, [at |-> "mark", event |-> request[k].event])
         /\ UNCHANGED <<now, atStripe>>
<1>1. PICK q \in Requests : q = request[k]
  BY DEF Ordered, TypeOK
<1>2. q.at = "activate" /\ Carries(q) /\ q.event \in events /\ q.event \in Events
  BY <1>1 DEF Activate, At, Ordered, Requests, Carries
<1>3. row.sub = None /\ q.event.sub \in Subs /\ q.event.sub # None
  BY <1>2, SubsAssumption DEF Carries, Events
<1>4. /\ row' = [row EXCEPT !.sub = q.event.sub, !.status = MapStatus(q.status)]
      /\ Go(k, [at |-> "mark", event |-> q.event])
      /\ UNCHANGED <<now, atStripe, offered, ledger, failures>>
  BY <1>1 DEF Activate
<1>5. MapStatus(q.status) \in SubscriptionStatuses \ {"SUSPENDED", "TRIALING"}
  BY DEF MapStatus, SubscriptionStatuses
<1>6. row' \in Rows /\ row'.status = MapStatus(q.status) /\ row'.sub = q.event.sub
  BY <1>3, <1>4, <1>5 DEF Ordered, TypeOK, Rows
<1> DEFINE r == [at |-> "mark", event |-> q.event]
<1>7. r \in Requests /\ Carries(r)'
  BY <1>2, <1>4 DEF Requests, Carries, atStripe
<1>8. ASSUME NEW j \in Workers \ {k}, NEW p \in Requests, p = request[j], Carries(p)
      PROVE  Carries(p)'
  <2>1. p.at # "activate"
    BY <1>1, <1>2, <1>8 DEF ActivationsApart, At
  <2>2. p.at # "write"
    <3>1. p.at = "write" => p.event \in Events
      BY <1>8 DEF Carries, Ordered, TypeOK
    <3> QED
      BY <1>3, <1>8, <3>1, SubsAssumption DEF Carries, Events
  <2> QED
    BY <1>4, <1>8, <2>1, <2>2 DEF Carries, atStripe
<1>9. /\ request' \in [Workers -> Requests]
      /\ \A j \in Workers : Carries(request[j])'
  <2> HIDE DEF r
  <2> QED
    BY <1>4, <1>7, <1>8, Turn DEF r
<1>10. TypeOK'
  BY <1>4, <1>6, <1>9 DEF Ordered, TypeOK, atStripe
<1> QED
  BY <1>1, <1>2, <1>3, <1>4, <1>5, <1>6, <1>9, <1>10 DEF Ordered, AtTrial

\* Suspending, by the guard or by the sweep.
LEMMA Suspending ==
  ASSUME Ordered, row' = [row EXCEPT !.status = "SUSPENDED"]
  PROVE  /\ row' \in Rows /\ row'.status = "SUSPENDED" /\ row'.sub = row.sub
         /\ row'.grace = row.grace /\ row'.trialEnds = row.trialEnds
         /\ AtTrial'
         /\ row.sub = None => row.status = "TRIALING" \/ row' = row
<1>1. row \in Rows
  BY DEF Ordered, TypeOK
<1>2. /\ row' \in Rows /\ row'.status = "SUSPENDED" /\ row'.sub = row.sub
      /\ row'.grace = row.grace /\ row'.trialEnds = row.trialEnds
  BY <1>1 DEF Rows, SubscriptionStatuses
<1>3. row.sub = None /\ row.status # "TRIALING" => row' = row
  BY <1>1 DEF Ordered, AtTrial, Rows
<1> QED
  BY <1>2, <1>3 DEF AtTrial

LEMMA SuspendStep ==
  ASSUME Ordered, NEW k \in Workers, Suspend(k)
  PROVE  Ordered'
<1>1. /\ row' \in Rows /\ row'.sub = row.sub /\ AtTrial'
  BY Suspending DEF Suspend
<1>2. \A q : Carries(q) => Carries(q)'
  BY <1>1 DEF Suspend, Carries, atStripe
<1>3. Carries(Free)'
  BY FreeFits DEF Carries
<1>4. /\ request' \in [Workers -> Requests]
      /\ \A j \in Workers : Carries(request[j])'
  BY <1>2, <1>3, FreeFits, Turn DEF Suspend
<1> QED
  BY <1>1, <1>4 DEF Suspend, Ordered, TypeOK, atStripe

LEMMA SweepStep ==
  ASSUME Ordered, SweepExpiredGracePeriods
  PROVE  Ordered'
<1>1. /\ row' \in Rows /\ row'.sub = row.sub /\ AtTrial'
  BY Suspending DEF SweepExpiredGracePeriods
<1>2. /\ request' \in [Workers -> Requests]
      /\ \A j \in Workers : Carries(request[j])'
  BY <1>1, NoTurn DEF SweepExpiredGracePeriods, atStripe
<1> QED
  BY <1>1, <1>2 DEF SweepExpiredGracePeriods, Ordered, TypeOK, atStripe

LEMMA TickStep ==
  ASSUME Ordered, Tick
  PROVE  Ordered' /\ now' \in Nat /\ now <= now'
<1>1. now' \in 0..MaxTime /\ now' \in Nat /\ now <= now'
  BY TimeAssumption DEF Tick, Ordered, TypeOK
<1>2. /\ request' \in [Workers -> Requests]
      /\ \A j \in Workers : Carries(request[j])'
  BY NoTurn DEF Tick, atStripe
<1> QED
  BY <1>1, <1>2 DEF Tick, Ordered, TypeOK, AtTrial, atStripe

LEMMA StartStep ==
  ASSUME Ordered, StartPaidSubscription
  PROVE  Ordered'
<1>1. /\ request' \in [Workers -> Requests]
      /\ \A j \in Workers : Carries(request[j])'
  BY NoTurn DEF StartPaidSubscription, atStripe
<1> QED
  BY <1>1 DEF StartPaidSubscription, Ordered, TypeOK, AtTrial, atStripe

\* A request that ends, or that the guard begins, read nothing of a subscription.
LEMMA PlainTurn ==
  ASSUME Ordered, NEW k \in Workers, Mark(k) \/ Guard(k) \/ Fail(k)
  PROVE  /\ Ordered'
         /\ UNCHANGED <<row, now, atStripe>>
         /\ Go(k, Free) \/ (Guard(k) /\ Go(k, [at |-> "suspend"]))
<1> DEFINE s == [at |-> "suspend"]
<1>1. s \in Requests /\ Carries(s) /\ Carries(Free)
  BY FreeFits DEF Requests, Carries
<1>2. ledger' \subseteq events
  BY DEF Mark, Guard, Fail, At, Ordered, TypeOK, Carries
<1>3. /\ UNCHANGED <<row, now, atStripe, offered>> /\ failures' \in 0..MaxFailures
  BY BoundsAssumption DEF Mark, Guard, Fail, Ordered, TypeOK
<1>4. Go(k, Free) \/ (Guard(k) /\ Go(k, s))
  BY DEF Mark, Guard, Fail
<1> HIDE DEF s
<1>5. Ordered'
  BY <1>1, <1>2, <1>3, <1>4, FreeFits, TurnReading
<1> QED
  BY <1>3, <1>4, <1>5 DEF s

LEMMA ReadingStep ==
  ASSUME Ordered, NEW k \in Workers, Attach(k) \/ \E e \in events : Deliver(k, e)
  PROVE  Ordered'
<1>1. ledger' \subseteq events /\ failures' \in 0..MaxFailures
  BY DEF Attach, Deliver, Ordered, TypeOK
<1> QED
  BY <1>1, Attaching, Delivering, TurnReading

LEMMA OrderedStep ==
  ASSUME Ordered, ActivationsApart, [Next]_vars
  PROVE  Ordered'
<1>1. CASE UNCHANGED vars
  BY <1>1 DEF vars, atStripe, Ordered, TypeOK, AtTrial, Carries
<1>2. CASE Tick \/ StartPaidSubscription \/ SweepExpiredGracePeriods
  BY <1>2, TickStep, StartStep, SweepStep
<1>3. CASE \E s \in Subs :
             Subscribe(s) \/ PaymentFails(s) \/ PaymentSucceeds(s) \/ GiveUp(s) \/ Cancel(s)
  BY <1>3, StripeChanges, NewEvents
<1>4. CASE \E k \in Workers :
             Guard(k) \/ Continue(k) \/ Fail(k) \/ \E e \in events : Deliver(k, e)
  BY <1>4, PlainTurn, ReadingStep, Writing, Activating, SuspendStep DEF Continue
<1> QED
  BY <1>1, <1>2, <1>3, <1>4 DEF Next

\* What may become of the subscription a row has, and of a row that has none.
LEMMA RowStep ==
  ASSUME Ordered, ActivationsApart, [Next]_vars
  PROVE  TrialIsLeftByActivation /\ AttachedForGood
<1>1. CASE row' = row
  BY <1>1 DEF TrialIsLeftByActivation, AttachedForGood
<1>2. ASSUME row' = [row EXCEPT !.status = "SUSPENDED"]
      PROVE  TrialIsLeftByActivation /\ AttachedForGood
  BY <1>2, Suspending DEF TrialIsLeftByActivation, AttachedForGood
<1>3. CASE Tick \/ StartPaidSubscription \/ SweepExpiredGracePeriods
  BY <1>1, <1>2, <1>3 DEF Tick, StartPaidSubscription, SweepExpiredGracePeriods
<1>4. CASE \E s \in Subs :
             Subscribe(s) \/ PaymentFails(s) \/ PaymentSucceeds(s) \/ GiveUp(s) \/ Cancel(s)
  BY <1>1, <1>4 DEF Subscribe, PaymentFails, PaymentSucceeds, GiveUp, Cancel, Change
<1>5. CASE \E k \in Workers : Guard(k) \/ Fail(k) \/ Attach(k) \/ Mark(k) \/ \E e \in events : Deliver(k, e)
  BY <1>1, <1>5 DEF Guard, Fail, Attach, Mark, Deliver
<1>6. CASE \E k \in Workers : Write(k) \/ Activate(k)
  BY <1>6, Writing, Activating DEF TrialIsLeftByActivation, AttachedForGood
<1>7. CASE \E k \in Workers : Suspend(k)
  BY <1>2, <1>7 DEF Suspend
<1>8. CASE UNCHANGED vars
  BY <1>1, <1>8 DEF vars
<1> QED
  BY <1>3, <1>4, <1>5, <1>6, <1>7, <1>8 DEF Next, Continue

-----------------------------------------------------------------------------
\* The access.

LEMMA FairAtFirst ==
  ASSUME Init
  PROVE  Fair
BY FreeFits DEF Init, Fair, Told, SuspendedIsOverdue, PayingNotRestricted, Justified

\* While the row keeps its subscription and its deadlines, the clock does not go back
\* and no event is taken back, what was justified is.
Later ==
  /\ row'.sub = row.sub /\ row'.grace = row.grace /\ row'.trialEnds = row.trialEnds
  /\ now' \in Nat /\ now <= now' /\ events \subseteq events'

LEMMA JustifiedLater ==
  ASSUME Ordered, Later
  PROVE  /\ \A r : Justified(r) => Justified(r)'
         /\ Ended => Ended'
         /\ \A s : Failing(s) => Failing(s)'
<1>1. Ended => Ended'
  <2>1. /\ row.grace # None => row.grace \in Nat
        /\ row.trialEnds \in Nat /\ now \in Nat
    BY TimeAssumption DEF Ordered, TypeOK, Rows
  <2> QED
    BY <2>1 DEF Ended, Later
<1>2. \A s : Failing(s) => Failing(s)'
  BY DEF Later, Failing
<1> QED
  BY <1>1, <1>2 DEF Justified, Later

\* Request k goes on as r, the others stay as they are.
LEMMA JustTurn ==
  ASSUME Ordered, Fair, NEW k \in Workers, NEW r, Go(k, r), Justified(r)',
         \A j \in Workers \ {k}, q \in Requests : q = request[j] /\ Justified(q) => Justified(q)'
  PROVE  \A j \in Workers : Justified(request[j])'
<1> TAKE j \in Workers
<1>1. CASE j = k
  <2>1. request'[j] = r
    BY <1>1 DEF Ordered, TypeOK, Go
  <2> QED
    BY <2>1 DEF Justified, Ended, Failing
<1>2. CASE j # k
  <2>1. PICK q \in Requests : q = request[j]
    BY DEF Ordered, TypeOK
  <2>2. Justified(q)'
    BY <1>2, <2>1 DEF Fair
  <2>3. request'[j] = q
    BY <1>2, <2>1 DEF Ordered, TypeOK, Go
  <2> QED
    BY <2>2, <2>3 DEF Justified, Ended, Failing
<1> QED
  BY <1>1, <1>2

LEMMA NoJustTurn ==
  ASSUME Ordered, Fair, Later, UNCHANGED request
  PROVE  \A j \in Workers : Justified(request[j])'
<1> TAKE j \in Workers
<1>1. PICK q \in Requests : q = request[j]
  BY DEF Ordered, TypeOK
<1>2. Justified(q)'
  BY <1>1, JustifiedLater DEF Fair
<1> QED
  BY <1>1, <1>2 DEF Justified, Ended, Failing

\* A step of a request that only reads.
LEMMA FairReading ==
  ASSUME Ordered, Fair, NEW k \in Workers, NEW r, Go(k, r), Justified(r),
         UNCHANGED <<row, now, atStripe>>
  PROVE  Fair'
<1>1. \A q : Justified(q) => Justified(q)'
  BY DEF Justified, Ended, Failing, atStripe
<1>2. \A j \in Workers : Justified(request[j])'
  BY <1>1, JustTurn
<1> QED
  BY <1>2 DEF Fair, Told, Failing, SuspendedIsOverdue, PayingNotRestricted, atStripe

LEMMA FairTick ==
  ASSUME Ordered, Fair, Tick
  PROVE  Fair'
<1>1. Later
  BY TickStep DEF Tick, Later, atStripe
<1>2. \A j \in Workers : Justified(request[j])'
  BY <1>1, NoJustTurn DEF Tick
<1>3. SuspendedIsOverdue'
  <2>1. Ended => Ended'
    BY <1>1, JustifiedLater
  <2> QED
    BY <2>1 DEF Tick, Fair, SuspendedIsOverdue, Ended
<1> QED
  BY <1>2, <1>3 DEF Tick, Fair, Told, Failing, PayingNotRestricted, atStripe

LEMMA FairStart ==
  ASSUME Ordered, Fair, StartPaidSubscription
  PROVE  Fair'
<1>1. Later
  BY TimeAssumption DEF StartPaidSubscription, Later, atStripe, Ordered, TypeOK
<1>2. \A j \in Workers : Justified(request[j])'
  BY <1>1, NoJustTurn DEF StartPaidSubscription
<1> QED
  BY <1>2
  DEF StartPaidSubscription, Fair, Told, Failing, SuspendedIsOverdue, PayingNotRestricted, atStripe

LEMMA FairStripe ==
  ASSUME Ordered, Fair, NEW s \in Subs,
         Subscribe(s) \/ PaymentFails(s) \/ PaymentSucceeds(s) \/ GiveUp(s) \/ Cancel(s)
  PROVE  Fair'
<1>1. PICK to \in StripeStatuses \ {"none"},
           types \in SUBSET {"checkout", "paid", "failed", "updated", "deleted"} :
         /\ Change(s, to, types) /\ types # {}
         /\ "paid" \in types => to = "active"
         /\ "failed" \in types \/ "deleted" \in types => to # "active"
  BY StripeChanges
<1>2. /\ Ordered'
      /\ \A e \in events' \ events : e.sub = s /\ e.status = to /\ e.type \in types
      /\ \E e \in events' : e.sub = s /\ e.status = to
      /\ events \subseteq events'
      /\ \A x \in Subs : stripe'[x] = IF x = s THEN to ELSE stripe[x]
      /\ UNCHANGED <<row, now, request>>
  BY <1>1, NewEvents
<1>3. Later
  BY <1>2, TimeAssumption DEF Later, Ordered, TypeOK
<1>4. \A j \in Workers : Justified(request[j])'
  BY <1>2, <1>3, NoJustTurn
<1>5. Told'
  <2>1. \A e \in events' : /\ e.type = "paid" => e.status = "active"
                           /\ e.type \in {"failed", "deleted"} => e.status # "active"
    BY <1>1, <1>2 DEF Fair, Told
  <2>2. \A e \in events' : stripe'[e.sub] # "none"
    <3> TAKE e \in events'
    <3>1. e.sub \in Subs
      BY <1>2 DEF Ordered, TypeOK, Events
    <3>2. CASE e.sub = s
      BY <1>1, <1>2, <3>2
    <3>3. CASE e.sub # s
      BY <1>2, <3>1, <3>3 DEF Fair, Told
    <3> QED
      BY <3>2, <3>3
  <2>3. \A x \in Subs : stripe'[x] \in {"none", "active"} \/ Failing(x)'
    <3> TAKE x \in Subs
    <3>1. CASE x = s
      BY <1>2, <3>1 DEF Failing
    <3>2. CASE x # s
      BY <1>2, <3>2 DEF Fair, Told, Failing
    <3> QED
      BY <3>1, <3>2
  <2> QED
    BY <2>1, <2>2, <2>3 DEF Told
<1>6. PayingNotRestricted'
  BY <1>2 DEF Fair, PayingNotRestricted
<1> QED
  BY <1>2, <1>4, <1>5, <1>6 DEF Fair, SuspendedIsOverdue

LEMMA FairDeliver ==
  ASSUME Ordered, Fair, NEW k \in Workers, NEW e \in events, Deliver(k, e)
  PROVE  Fair'
<1>1. PICK r \in Requests :
         /\ Go(k, r) /\ Carries(r) /\ r.event = e
         /\ \/ r.at = "attach" /\ r.status = stripe[e.sub]
            \/ r.at = "write" /\ e.type # "checkout" /\ r.row = Written(e)
            \/ r.at = "mark"
  BY Delivering
<1>2. e.sub \in Subs /\ e.type \in {"checkout", "paid", "failed", "updated", "deleted"}
  BY DEF Ordered, TypeOK, Events
<1>3. stripe[e.sub] = "active" \/ Failing(e.sub)
  BY <1>2 DEF Fair, Told
<1>4. e.type # "checkout" => Written(e).status = "ACTIVE" \/ Failing(e.sub)
  <2>1. e.status # "active" => Failing(e.sub)
    BY DEF Failing
  <2>2. e.type \in {"failed", "deleted"} => e.status # "active"
    BY DEF Fair, Told
  <2> QED
    BY <1>2, <2>1, <2>2, WrittenIsRow
<1>5. Justified(r)
  BY <1>1, <1>3, <1>4 DEF Justified
<1> QED
  BY <1>1, <1>5, Delivering, FairReading

\* A handler's update while no guard waits to suspend.
LEMMA FairWrite ==
  ASSUME Ordered, Fair, GuardApart, NEW k \in Workers, Write(k)
  PROVE  Fair'
<1>1. /\ request[k].at = "write" /\ row.sub = request[k].event.sub /\ row.sub # None
      /\ row'.status = request[k].row.status /\ row'.sub = row.sub
      /\ row'.status \notin {"SUSPENDED", "TRIALING"}
      /\ Go(k, [at |-> "mark", event |-> request[k].event])
      /\ UNCHANGED <<now, atStripe>>
  BY Writing
<1>2. request[k].row.status = "ACTIVE" \/ Failing(row.sub)
  BY <1>1 DEF Fair, Justified
<1> PICK e : e = request[k].event
  OBVIOUS
<1> DEFINE r == [at |-> "mark", event |-> e]
<1>3. Justified(r)'
  BY DEF Justified
<1>4. ASSUME NEW j \in Workers \ {k}, NEW q \in Requests, q = request[j], Justified(q)
      PROVE  Justified(q)'
  <2>1. q.at # "suspend"
    BY <1>1, <1>4 DEF GuardApart, At
  <2> QED
    BY <1>1, <1>4, <2>1 DEF Justified, Failing, atStripe
<1>5. \A j \in Workers : Justified(request[j])'
  <2> HIDE DEF r
  <2> QED
    BY <1>1, <1>3, <1>4, JustTurn DEF r
<1>6. PayingNotRestricted'
  BY <1>1, <1>2 DEF PayingNotRestricted, Failing, atStripe
<1> QED
  BY <1>1, <1>5, <1>6 DEF Fair, Told, Failing, SuspendedIsOverdue, atStripe

LEMMA FairAttach ==
  ASSUME Ordered, Fair, NEW k \in Workers, Attach(k)
  PROVE  Fair'
<1>1. PICK r \in Requests :
         /\ Go(k, r) /\ Carries(r) /\ r.at \in {"activate", "mark"}
         /\ r.event = request[k].event /\ r.status = request[k].status
  BY Attaching
<1>2. Justified(r)
  BY <1>1 DEF Attach, At, Fair, Justified
<1> QED
  BY <1>1, <1>2, Attaching, FairReading

\* What Stripe said of the subscription before was true, or an event said otherwise.
LEMMA FairActivate ==
  ASSUME Ordered, Fair, ActivationsApart, GuardApart, NEW k \in Workers, Activate(k)
  PROVE  Fair'
<1>1. /\ request[k].at = "activate" /\ row.sub = None
      /\ row'.sub = request[k].event.sub /\ row'.sub # None
      /\ row'.status = MapStatus(request[k].status)
      /\ row'.status \notin {"SUSPENDED", "TRIALING"}
      /\ Go(k, [at |-> "mark", event |-> request[k].event])
      /\ UNCHANGED <<now, atStripe>>
  BY Activating
<1>2. request[k].status = "active" \/ Failing(row'.sub)
  BY <1>1 DEF Fair, Justified
<1>3. request[k].status = "active" => row'.status = "ACTIVE"
  BY <1>1 DEF MapStatus
<1> PICK e : e = request[k].event
  OBVIOUS
<1> DEFINE r == [at |-> "mark", event |-> e]
<1>4. Justified(r)'
  BY DEF Justified
<1>5. ASSUME NEW j \in Workers \ {k}, NEW q \in Requests, q = request[j], Justified(q)
      PROVE  Justified(q)'
  <2>1. q.at # "suspend"
    BY <1>1, <1>5 DEF GuardApart, At
  <2> QED
    BY <1>1, <1>5, <2>1 DEF Justified, Failing, atStripe
<1>6. \A j \in Workers : Justified(request[j])'
  <2> HIDE DEF r
  <2> QED
    BY <1>1, <1>4, <1>5, JustTurn DEF r
<1>7. PayingNotRestricted'
  BY <1>1, <1>2, <1>3 DEF PayingNotRestricted, Failing, atStripe
<1> QED
  BY <1>1, <1>6, <1>7 DEF Fair, Told, Failing, SuspendedIsOverdue, atStripe

\* Who is suspended is in arrears: PAST_DUE means that an event told of a failure.
LEMMA FairGuard ==
  ASSUME Ordered, Fair, NEW k \in Workers, Mark(k) \/ Guard(k) \/ Fail(k)
  PROVE  Fair'
<1>1. /\ UNCHANGED <<row, now, atStripe>>
      /\ Go(k, Free) \/ (Guard(k) /\ Go(k, [at |-> "suspend"]))
  BY PlainTurn
<1>2. Justified(Free)
  BY FreeFits DEF Justified
<1>3. Guard(k) => Ended /\ (row.sub # None => Failing(row.sub))
  BY DEF Guard, Overdue, TrialOver, Ended, Ordered, AtTrial, Fair, PayingNotRestricted, Failing
<1>4. Guard(k) => Justified([at |-> "suspend"])
  BY <1>3 DEF Justified
<1> QED
  BY <1>1, <1>2, <1>4, FairReading

\* Suspending whoever is in arrears.
LEMMA FairSuspending ==
  ASSUME Ordered, Fair, row' = [row EXCEPT !.status = "SUSPENDED"],
         Ended, row.sub # None => Failing(row.sub), UNCHANGED <<now, atStripe>>,
         \A j \in Workers : Justified(request[j])'
  PROVE  Fair'
<1>1. /\ row'.status = "SUSPENDED" /\ row'.sub = row.sub
      /\ row'.grace = row.grace /\ row'.trialEnds = row.trialEnds
  BY Suspending
<1>2. SuspendedIsOverdue'
  BY <1>1 DEF SuspendedIsOverdue, Ended
<1>3. PayingNotRestricted'
  BY <1>1 DEF PayingNotRestricted, Failing, atStripe
<1> QED
  BY <1>2, <1>3 DEF Fair, Told, Failing, atStripe

LEMMA SuspendedLater ==
  ASSUME Ordered, row' = [row EXCEPT !.status = "SUSPENDED"], UNCHANGED <<now, atStripe>>
  PROVE  Later
BY Suspending, TimeAssumption DEF Later, atStripe, Ordered, TypeOK

LEMMA FairSuspend ==
  ASSUME Ordered, Fair, NEW k \in Workers, Suspend(k)
  PROVE  Fair'
<1>1. Ended /\ (row.sub # None => Failing(row.sub))
  BY DEF Suspend, At, Fair, Justified
<1>2. \A q : Justified(q) => Justified(q)'
  BY SuspendedLater, JustifiedLater DEF Suspend
<1>3. Justified(Free)'
  BY FreeFits DEF Justified
<1>4. \A j \in Workers : Justified(request[j])'
  BY <1>2, <1>3, JustTurn DEF Suspend
<1> QED
  BY <1>1, <1>4, FairSuspending DEF Suspend

LEMMA FairSweep ==
  ASSUME Ordered, Fair, SweepExpiredGracePeriods
  PROVE  Fair'
<1>1. Ended /\ (row.sub # None => Failing(row.sub))
  BY DEF SweepExpiredGracePeriods, Ended, Fair, PayingNotRestricted, Failing
<1>2. \A j \in Workers : Justified(request[j])'
  BY SuspendedLater, NoJustTurn DEF SweepExpiredGracePeriods
<1> QED
  BY <1>1, <1>2, FairSuspending DEF SweepExpiredGracePeriods

LEMMA FairStep ==
  ASSUME Ordered, Fair, ActivationsApart, GuardApart, [Next]_vars
  PROVE  Fair'
<1>1. CASE UNCHANGED vars
  BY <1>1
  DEF vars, atStripe, Fair, Told, Failing, SuspendedIsOverdue, PayingNotRestricted, Justified, Ended
<1>2. CASE Tick \/ StartPaidSubscription \/ SweepExpiredGracePeriods
  BY <1>2, FairTick, FairStart, FairSweep
<1>3. CASE \E s \in Subs :
             Subscribe(s) \/ PaymentFails(s) \/ PaymentSucceeds(s) \/ GiveUp(s) \/ Cancel(s)
  BY <1>3, FairStripe
<1>4. CASE \E k \in Workers :
             Guard(k) \/ Continue(k) \/ Fail(k) \/ \E e \in events : Deliver(k, e)
  BY <1>4, FairGuard, FairDeliver, FairWrite, FairAttach, FairActivate, FairSuspend DEF Continue
<1> QED
  BY <1>1, <1>2, <1>3, <1>4 DEF Next

-----------------------------------------------------------------------------
\* While two activations do not overlap, the row says of its subscription what is so:
\* a trial only before one, and a request that waits to write has read the
\* subscription the row still has, whatever else overlaps. (activateTrialSubscription,
\* the handlers of Stripe's events.)
THEOREM OrderedInvariant == Spec /\ []ActivationsApart => []Ordered
<1>1. Init => Ordered
  BY OrderedAtFirst
<1>2. Ordered /\ ActivationsApart /\ [Next]_vars => Ordered'
  BY OrderedStep
<1> QED
  BY <1>1, <1>2, PTL DEF Spec

\* A trial ends by an activation or a suspension, a suspended trial by an activation
\* alone, and an activated tenant keeps its subscription: of any number of checkouts
\* paid and events repeated, one counts, while no two of the checkouts are completed
\* at the same moment, the second having read the row before the first wrote it.
\* (activateTrialSubscription.)
THEOREM ActivatedOnce == Spec /\ []ActivationsApart => OneActivation
<1>1. Ordered /\ ActivationsApart /\ [Next]_vars
        => [TrialIsLeftByActivation /\ AttachedForGood]_vars
  BY RowStep
<1> QED
  BY <1>1, OrderedInvariant, PTL DEF Spec, OneActivation

\* Nobody is suspended before a deadline of theirs has passed, and who pays is never
\* kept out, whatever order and however often Stripe's events come and overlap,
\* whenever the clock and the sweep strike and wherever a request ends; while no two
\* activations overlap and nothing is to be written of a payment between the guard's
\* reading of the row and its suspension. (StripeWebhooksController,
\* SubscriptionStatusGuard, BillingSchedulerService.)
THEOREM AccessIsFair ==
  Spec /\ []ActivationsApart /\ []GuardApart => []AccessFollowsPayment
<1>1. Init => Fair
  BY FairAtFirst
<1>2. Ordered /\ Fair /\ ActivationsApart /\ GuardApart /\ [Next]_vars => Fair'
  BY FairStep
<1>3. Ordered /\ Fair => AccessFollowsPayment
  BY DEF Ordered, Fair, AccessFollowsPayment
<1> QED
  BY <1>1, <1>2, <1>3, OrderedInvariant, PTL DEF Spec

=============================================================================

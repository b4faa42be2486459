-------------------------- MODULE NotificationsProofs --------------------------
(***************************************************************************)
(* What Notifications promises of every behaviour, proved for any number   *)
(* of items, customers, documents, requests at a time and failures: what   *)
(* the tables record happened once, and a shipment's customer gets at most *)
(* one final e-mail.                                                       *)
(***************************************************************************)
EXTENDS Notifications, FiniteSetTheorems, TLAPS

\* Where a request tells customers of an occurrence, and where it is about to.
Telling == {"create", "send", "outcome"}
Fired == {"event"} \cup Telling

\* What a request is to do is about what is there.
Tasked(r) ==
  /\ r.at = "roll" => r.rolls # <<>>
  /\ r.at = "record" =>
       r.key.kind = "delivery" /\ r.key \in Tasks /\ items[r.key.what] = "DELIVERED"
  /\ r.at \in {"row", "show"} =>
       r.key.kind # "delivery" /\ r.key \in Tasks /\ r.key.what \in stored
  /\ r.at = "show" => documents[r.key.what] # "none"
  /\ r.at \in {"write", "content"} => r.key \in Occurrences /\ r.key.kind = "shipment"
  /\ r.at \in Fired =>
       /\ r.key \in Occurrences
       /\ r.at # "event" => r.to # <<>>
       /\ \A i, j \in DOMAIN r.to : r.to[i] = r.to[j] => i = j
       /\ r.key.kind = "shipment" => \A i \in DOMAIN r.to : r.to[i] = Owner

\* None of those whom a request still has to tell has been told.
Untold(r) ==
  \A n \in DOMAIN rows : n.key = r.key =>
    /\ \A i \in DOMAIN r.to : i > 1 => n.to # r.to[i]
    /\ n.to = Head(r.to) => n.channel \notin r.channels

Tells(r) ==
  r.at \in Telling =>
    /\ r.key \in events /\ Untold(r)
    /\ \A ch \in r.channels : ch # "IN_APP" => ch \in Wants[Head(r.to)]
    /\ r.at = "create" => r.channels # {}
    /\ "EMAIL" \in r.channels => r.mail

\* The row that a request is sending awaits its outcome.
Sends(r) ==
  r.at \in {"send", "outcome"} =>
    r.row \in DOMAIN rows /\ ~rows[r.row].messageId /\ r.row.key = r.key

\* The event row lets one request through: no two tell of the same.
Alone ==
  \A j, k \in Workers :
    request[j].at \in Telling /\ request[k].at \in Telling /\ request[j].key = request[k].key
      => j = k

RowsOnce ==
  \A n \in DOMAIN rows :
    /\ n.copy = 1
    /\ n.channel = "WHATSAPP" /\ rows[n].status = "READ" => rows[n].messageId

\* A callback being handled is about a message that was sent.
Matched(c) ==
  /\ c.at \in {"READ", "FAILED"}
  /\ c.row \in DOMAIN rows /\ c.row.channel = "WHATSAPP"
  /\ rows[c.row].messageId

CallbacksFind == \A h \in Hooks : callback[h] # Idle => Matched(callback[h])

Informed ==
  /\ TypeOK /\ DocumentHasItsFile /\ Alone /\ RowsOnce /\ CallbacksFind
  /\ \A k \in Workers : Tasked(request[k]) /\ Tells(request[k]) /\ Sends(request[k])

-----------------------------------------------------------------------------
\* The requests there are.

LEMMA IdleIs ==
  /\ Idle \in Requests
  /\ Idle.at = "free" /\ Idle.rolls = <<>> /\ Idle.to = <<>> /\ Idle.channels = {}
  /\ Idle.row = None /\ Idle.mail = TRUE
BY DEF Idle, Requests, Places, InFire

Rolls == Seq({"DELIVERED", "COMPLETED"})

LEMMA ContinueIs ==
  ASSUME NEW rolls \in Rolls
  PROVE  /\ Continue(rolls) \in Requests
         /\ Continue(rolls).at \in {"free", "roll"}
         /\ Continue(rolls).at = "roll" => rolls # <<>>
         /\ Continue(rolls).rolls = rolls
<1>1. CASE rolls = <<>>
  BY <1>1, IdleIs DEF Continue
<1>2. CASE rolls # <<>>
  <2>1. Continue(rolls) = [Idle EXCEPT !.at = "roll", !.rolls = rolls]
    BY <1>2 DEF Continue
  <2> QED
    BY <1>2, <2>1, IdleIs DEF Rolls, Requests, Places
<1> QED
  BY <1>1, <1>2

LEMMA FireIs ==
  ASSUME NEW key \in Occurrences, NEW rolls \in Rolls
  PROVE  /\ Fire(key, rolls) \in Requests
         /\ Fire(key, rolls).at = "event" /\ Fire(key, rolls).key = key
         /\ Fire(key, rolls).to = <<Owner>> /\ Fire(key, rolls).rolls = rolls
<1>1. <<Owner>> \in Seq(Customers)
  BY CustomersAssumption
<1>2. "event" \in Places
  BY DEF Places, InFire
<1>3. Fire(key, rolls) =
        [Idle EXCEPT !.at = "event", !.key = key, !.to = <<Owner>>, !.rolls = rolls]
  BY DEF Fire
<1> QED
  BY <1>1, <1>2, <1>3, IdleIs DEF Rolls, Requests


LEMMA FireAllIs ==
  ASSUME NEW key \in Occurrences, NEW to \in Seq(Customers)
  PROVE  /\ FireAll(key, to) \in Requests
         /\ FireAll(key, to).at = "event" /\ FireAll(key, to).key = key
         /\ FireAll(key, to).to = to /\ FireAll(key, to).rolls = <<>>
<1>1. "event" \in Places
  BY DEF Places, InFire
<1>2. FireAll(key, to) = [Idle EXCEPT !.at = "event", !.key = key, !.to = to]
  BY DEF FireAll
<1> QED
  BY <1>1, <1>2, IdleIs DEF Requests

\* resolveAffectedCustomers: nobody is in the list twice.
LEMMA AffectedOnce ==
  /\ Affected \in Seq(Customers)
  /\ \A i, j \in DOMAIN Affected : Affected[i] = Affected[j] => i = j
<1> DEFINE S == {Loaded[n] : n \in DOMAIN Loaded}
<1>1. IsFiniteSet(S) /\ S \subseteq Customers
  <2>1. Loaded \in Seq(Customers)
    BY CustomersAssumption
  <2>2. IsFiniteSet(DOMAIN Loaded)
    <3>1. PICK n \in Nat : DOMAIN Loaded = 1..n
      BY <2>1
    <3>2. 1 \in Int /\ n \in Int
      OBVIOUS
    <3> QED
      BY <3>1, <3>2, FS_Interval
  <2>3. Loaded \in Surjection(DOMAIN Loaded, S)
    BY <2>1 DEF Surjection
  <2>4. IsFiniteSet(S)
    BY <2>2, <2>3, FS_Surjection
  <2>5. S \subseteq Customers
    BY <2>1
  <2> QED
    BY <2>4, <2>5
<1> HIDE DEF S
<1>2. Cardinality(S) \in Nat /\ ExistsBijection(1..Cardinality(S), S)
  BY <1>1, FS_CardinalityType
<1>3. \E f \in [1..Cardinality(S) -> S] : IsInjective(f)
  BY <1>2 DEF ExistsBijection, Bijection, Injection, IsInjective
<1>4. Affected = CHOOSE f \in [1..Cardinality(S) -> S] : IsInjective(f)
  BY DEF Affected, SetToSeq, S
<1>5. Affected \in [1..Cardinality(S) -> S] /\ IsInjective(Affected)
  BY <1>3, <1>4
<1> QED
  BY <1>1, <1>2, <1>5 DEF IsInjective


-----------------------------------------------------------------------------
\* A request that does not tell anybody writes no event and no row.

Later ==
  /\ \A i \in Items : items[i] = "DELIVERED" => items'[i] = "DELIVERED"
  /\ \A d \in Documents : documents[d] # "none" => documents'[d] # "none"
  /\ stored \subseteq stored'

LEMMA TaskedLater ==
  ASSUME Later, NEW r, Tasked(r)
  PROVE  Tasked(r)'
<1>1. \A key \in Tasks : /\ key.kind = "delivery" => key.what \in Items
                         /\ key.kind # "delivery" => key.what \in Documents
  BY DEF Tasks
<1> QED
  BY <1>1 DEF Later, Tasked

LEMMA Goes ==
  ASSUME Informed, NEW k \in Workers, NEW r \in Requests, Go(k, r)
  PROVE  /\ request' \in [Workers -> Requests] /\ request'[k] = r
         /\ \A j \in Workers \ {k} : request'[j] = request[j]
BY DEF Informed, TypeOK, Go

LEMMA Quiet ==
  ASSUME Informed, Later, NEW k \in Workers, NEW r \in Requests, Go(k, r), Tasked(r)',
         r.at \notin Telling, UNCHANGED <<events, rows, callback>>
  PROVE  /\ request' \in [Workers -> Requests]
         /\ \A j \in Workers : request'[j].at \in {"send", "outcome"} =>
              request'[j].row \in DOMAIN rows
         /\ Alone' /\ RowsOnce' /\ CallbacksFind'
         /\ \A j \in Workers : (Tasked(request[j]) /\ Tells(request[j]) /\ Sends(request[j]))'
<1>1. /\ request' \in [Workers -> Requests] /\ request'[k] = r
      /\ \A j \in Workers \ {k} : request'[j] = request[j]
  BY Goes
<1>2. r.at \notin {"send", "outcome"}
  BY DEF Telling
<1>3. \A j \in Workers : Tasked(request[j])'
  <2> TAKE j \in Workers
  <2>1. CASE j = k
    BY <1>1, <2>1 DEF Tasked
  <2>2. CASE j # k
    <3>1. PICK q \in Requests : q = request[j]
      BY DEF Informed, TypeOK
    <3>2. Tasked(q)'
      BY <3>1, TaskedLater DEF Informed
    <3> QED
      BY <1>1, <2>2, <3>1, <3>2 DEF Tasked
  <2> QED
    BY <2>1, <2>2
<1>4. Alone'
  BY <1>1 DEF Informed, Alone
<1>5. \A j \in Workers : Tells(request[j])' /\ Sends(request[j])'
  <2> TAKE j \in Workers
  <2>1. CASE j = k
    BY <1>1, <1>2, <2>1 DEF Tells, Sends
  <2>2. CASE j # k
    BY <1>1, <2>2 DEF Informed, Tells, Sends, Untold
  <2> QED
    BY <2>1, <2>2
<1>6. RowsOnce' /\ CallbacksFind'
  BY DEF Informed, RowsOnce, CallbacksFind, Matched
<1>7. \A j \in Workers : request'[j].at \in {"send", "outcome"} => request'[j].row \in DOMAIN rows
  BY <1>1, <1>2 DEF Informed, TypeOK
<1> QED
  BY <1>1, <1>3, <1>4, <1>5, <1>6, <1>7

\* Such a step that changes nothing but its request.
LEMMA QuietGo ==
  ASSUME Informed, NEW k \in Workers, NEW r \in Requests, Go(k, r), Tasked(r),
         r.at \notin Telling, UNCHANGED <<business, events, rows, callback>>
  PROVE  Informed'
<1>1. Later /\ Tasked(r)'
  BY DEF Later, business, Tasked
<1>2. TypeOK'
  BY <1>1, Quiet DEF Informed, TypeOK, business
<1>3. DocumentHasItsFile'
  BY DEF Informed, DocumentHasItsFile, business
<1> QED
  BY <1>1, <1>2, <1>3, Quiet DEF Informed

LEMMA Ends ==
  ASSUME Informed, NEW k \in Workers, NEW rolls \in Rolls, Go(k, Continue(rolls)),
         UNCHANGED <<business, events, rows, callback>>
  PROVE  Informed'
<1>1. /\ Continue(rolls) \in Requests /\ Continue(rolls).at \notin Telling
      /\ Tasked(Continue(rolls))
  BY ContinueIs DEF Telling, Tasked, Fired
<1> QED
  BY <1>1, QuietGo

-----------------------------------------------------------------------------
\* Hand-overs, corrections, documents, invoices and disruptions.

LEMMA DeliverStep ==
  ASSUME Informed, NEW k \in Workers, NEW i \in Items, Deliver(k, i) \/ PickUp(k, i)
  PROVE  Informed'
<1>1. CASE Deliver(k, i)
  <2> DEFINE rolls == <<"DELIVERED", "COMPLETED">>
             key == About("delivery", i)
             r == [Idle EXCEPT !.at = "record", !.key = key, !.rolls = rolls]
  <2>1. /\ items' = [items EXCEPT ![i] = "DELIVERED"] /\ Go(k, r)
        /\ UNCHANGED <<shipment, delivered, stored, documents, events, rows, callback>>
    BY <1>1 DEF Deliver
  <2>2. rolls \in Rolls /\ key \in Tasks /\ key.kind = "delivery" /\ key.what = i
        /\ "record" \in Places
    BY DEF Rolls, About, Tasks, Places
  <2> HIDE DEF rolls, key
  <2>3. r \in Requests /\ r.at = "record" /\ r.key = key
    BY <2>2, IdleIs DEF Rolls, Requests
  <2> HIDE DEF r
  <2>4. /\ items' \in [Items -> ItemStatuses] /\ items'[i] = "DELIVERED"
        /\ \A j \in Items : items[j] = "DELIVERED" => items'[j] = "DELIVERED"
    BY <2>1 DEF Informed, TypeOK, ItemStatuses
  <2>5. Later
    BY <2>1, <2>4 DEF Later
  <2>6. Tasked(r)' /\ r.at \notin Telling
    BY <2>2, <2>3, <2>4 DEF Tasked, Telling, Fired
  <2>7. TypeOK'
    BY <2>1, <2>3, <2>4, <2>5, <2>6, Quiet DEF Informed, TypeOK
  <2>8. DocumentHasItsFile'
    BY <2>1 DEF Informed, DocumentHasItsFile
  <2> QED
    BY <2>1, <2>3, <2>5, <2>6, <2>7, <2>8, Quiet DEF Informed
<1>2. CASE PickUp(k, i)
  <2> DEFINE rolls == <<"COMPLETED">>
             r == Continue(rolls)
  <2>1. /\ items' = [items EXCEPT ![i] = "PICKED_UP"] /\ Go(k, r)
        /\ items[i] = "RECEIVED_DESTINATION_WAREHOUSE"
        /\ UNCHANGED <<shipment, delivered, stored, documents, events, rows, callback>>
    BY <1>2 DEF PickUp
  <2>2. rolls \in Rolls
    BY DEF Rolls
  <2> HIDE DEF rolls
  <2>3. r \in Requests /\ r.at \in {"free", "roll"} /\ (r.at = "roll" => r.rolls # <<>>)
    BY <2>2, ContinueIs
  <2> HIDE DEF r
  <2>4. /\ items' \in [Items -> ItemStatuses]
        /\ \A j \in Items : items[j] = "DELIVERED" => items'[j] = "DELIVERED"
    BY <2>1 DEF Informed, TypeOK, ItemStatuses
  <2>5. Later
    BY <2>1, <2>4 DEF Later
  <2>6. Tasked(r)' /\ r.at \notin Telling
    BY <2>3 DEF Tasked, Telling, Fired
  <2>7. TypeOK'
    BY <2>1, <2>3, <2>4, <2>5, <2>6, Quiet DEF Informed, TypeOK
  <2>8. DocumentHasItsFile'
    BY <2>1 DEF Informed, DocumentHasItsFile
  <2> QED
    BY <2>1, <2>3, <2>5, <2>6, <2>7, <2>8, Quiet DEF Informed
<1> QED
  BY <1>1, <1>2

LEMMA RecordStep ==
  ASSUME Informed, NEW k \in Workers, Record(k)
  PROVE  Informed'
<1>1. PICK q \in Requests : q = request[k]
  BY DEF Informed, TypeOK
<1>2. q.at = "record" /\ q.key \in Tasks /\ q.key.kind = "delivery" /\ q.rolls \in Rolls
      /\ items[q.key.what] = "DELIVERED"
  BY <1>1 DEF Informed, Tasked, Record, At, Requests, Rolls
<1>3. q.key.what \in Items
  BY <1>2 DEF Tasks
<1> DEFINE r == Continue(q.rolls)
<1>4. /\ delivered' = delivered \cup {q.key.what} /\ Go(k, r)
      /\ UNCHANGED <<shipment, items, stored, documents, events, rows, callback>>
  BY <1>1 DEF Record
<1>5. Later
  BY <1>4 DEF Later
<1>6. r \in Requests /\ Tasked(r)' /\ r.at \notin Telling
  BY <1>2, ContinueIs DEF Telling, Tasked, Fired
<1> HIDE DEF r
<1>7. TypeOK'
  BY <1>2, <1>3, <1>4, <1>5, <1>6, Quiet DEF Informed, TypeOK
<1>8. DocumentHasItsFile'
  BY <1>4 DEF Informed, DocumentHasItsFile
<1> QED
  BY <1>4, <1>5, <1>6, <1>7, <1>8, Quiet DEF Informed

LEMMA RolledIs ==
  ASSUME shipment \in ShipmentStatuses, NEW roll
  PROVE  Rolled(roll) \in ShipmentStatuses
BY DEF Rolled, RollupDelivered, RollupCompletion, AdvanceIgnoringCancelled, Advance,
       ShipmentStatuses

LEMMA RollStep ==
  ASSUME Informed, NEW k \in Workers, Roll(k)
  PROVE  Informed'
<1>1. PICK q \in Requests : q = request[k]
  BY DEF Informed, TypeOK
<1>2. q.rolls \in Rolls /\ q.rolls # <<>> /\ Tail(q.rolls) \in Rolls
  BY <1>1 DEF Informed, Tasked, Roll, At, Requests, Rolls
<1> DEFINE to == Rolled(Head(q.rolls))
           key == About("shipment", to)
           rolls == Tail(q.rolls)
           r == [Idle EXCEPT !.at = "write", !.key = key, !.rolls = rolls]
<1>3. Go(k, IF to = shipment THEN Continue(rolls) ELSE r)
      /\ UNCHANGED <<business, events, rows, callback>>
  BY <1>1 DEF Roll
<1>4. to \in ShipmentStatuses
  BY RolledIs DEF Informed, TypeOK
<1>5. key \in Occurrences /\ key.kind = "shipment" /\ "write" \in Places
  BY <1>4 DEF About, Occurrences, Places
<1> HIDE DEF to, key, rolls
<1>6. CASE to = shipment
  BY <1>2, <1>3, <1>6, Ends DEF rolls
<1>7. CASE to # shipment
  <2>1. r \in Requests /\ r.at = "write" /\ r.key = key
    BY <1>2, <1>5, IdleIs DEF Rolls, Requests, rolls
  <2> HIDE DEF r
  <2>2. Tasked(r) /\ r.at \notin Telling /\ Go(k, r)
    BY <1>3, <1>5, <1>7, <2>1 DEF Tasked, Telling, Fired
  <2> QED
    BY <1>3, <2>1, <2>2, QuietGo
<1> QED
  BY <1>6, <1>7

LEMMA CorrectStep ==
  ASSUME Informed, NEW k \in Workers, NEW st \in ManualStatuses, Correct(k, st)
  PROVE  Informed'
<1> DEFINE key == About("shipment", st)
           r == [Idle EXCEPT !.at = "write", !.key = key]
<1>1. Go(k, r) /\ UNCHANGED <<business, events, rows, callback>>
  BY DEF Correct
<1>2. key \in Occurrences /\ key.kind = "shipment" /\ "write" \in Places
  BY ManualAssumption DEF About, Occurrences, Places
<1> HIDE DEF key
<1>3. r \in Requests /\ r.at = "write" /\ r.key = key
  BY <1>2, IdleIs DEF Requests
<1> HIDE DEF r
<1>4. Tasked(r) /\ r.at \notin Telling
  BY <1>2, <1>3 DEF Tasked, Telling, Fired
<1> QED
  BY <1>1, <1>3, <1>4, QuietGo

LEMMA WriteStep ==
  ASSUME Informed, NEW k \in Workers, Write(k)
  PROVE  Informed'
<1>1. PICK q \in Requests : q = request[k]
  BY DEF Informed, TypeOK
<1>2. q.at = "write" /\ q.key \in Occurrences /\ q.key.kind = "shipment" /\ q.rolls \in Rolls
  BY <1>1 DEF Informed, Tasked, Write, At, Requests, Rolls
<1> DEFINE s == [q EXCEPT !.at = "content"]
           r == IF q.key.what \in Notifiable THEN s ELSE Continue(q.rolls)
<1>3. /\ shipment' = q.key.what /\ Go(k, r)
      /\ UNCHANGED <<items, delivered, stored, documents, events, rows, callback>>
  BY <1>1 DEF Write
<1>4. q.key.what \in ShipmentStatuses
  BY <1>2 DEF Occurrences
<1>5. Later
  BY <1>3 DEF Later
<1>6. s \in Requests /\ s.at = "content" /\ s.key = q.key
  BY DEF Requests, Places, InFire
<1>7. Tasked(s)' /\ s.at \notin Telling
  BY <1>2, <1>6 DEF Tasked, Telling, Fired
<1>8. r \in Requests /\ Tasked(r)' /\ r.at \notin Telling
  <2>1. CASE q.key.what \in Notifiable
    BY <1>6, <1>7, <2>1
  <2>2. CASE q.key.what \notin Notifiable
    BY <1>2, <2>2, ContinueIs DEF Telling, Tasked, Fired
  <2> QED
    BY <2>1, <2>2
<1> HIDE DEF r
<1>9. TypeOK'
  BY <1>3, <1>4, <1>5, <1>8, Quiet DEF Informed, TypeOK
<1>10. DocumentHasItsFile'
  BY <1>3 DEF Informed, DocumentHasItsFile
<1> QED
  BY <1>3, <1>5, <1>8, <1>9, <1>10, Quiet DEF Informed

LEMMA ContentStep ==
  ASSUME Informed, NEW k \in Workers, Content(k)
  PROVE  Informed'
<1>1. PICK q \in Requests : q = request[k]
  BY DEF Informed, TypeOK
<1>2. q.key \in Occurrences /\ q.key.kind = "shipment" /\ q.rolls \in Rolls
  BY <1>1 DEF Informed, Tasked, Content, At, Requests, Rolls
<1> DEFINE f == Fire(q.key, q.rolls)
           r == [f EXCEPT !.mail = ~ Suppressed(q.key)]
<1>3. Go(k, r) /\ UNCHANGED <<business, events, rows, callback>>
  BY <1>1 DEF Content
<1>4. f \in Requests /\ f.at = "event" /\ f.key = q.key /\ f.to = <<Owner>> /\ f.rolls = q.rolls
  BY <1>2, FireIs
<1> HIDE DEF f
<1>5. r \in Requests /\ r.at = "event" /\ r.key = q.key /\ r.to = <<Owner>> /\ r.rolls = q.rolls
  BY <1>4 DEF Requests
<1> HIDE DEF r
<1>6. Tasked(r) /\ r.at \notin Telling
  BY <1>2, <1>5 DEF Tasked, Telling, Fired
<1> QED
  BY <1>3, <1>5, <1>6, QuietGo

LEMMA FiredOnly ==
  ASSUME Informed, NEW k \in Workers, NEW r \in Requests, Go(k, r),
         UNCHANGED <<business, events, rows, callback>>,
         r.at = "event", r.key \in Occurrences, r.key.kind = "shipment" => r.to = <<Owner>>,
         \A i, j \in DOMAIN r.to : r.to[i] = r.to[j] => i = j
  PROVE  Informed'
<1>1. Tasked(r) /\ r.at \notin Telling
  BY DEF Tasked, Telling, Fired
<1> QED
  BY <1>1, QuietGo

LEMMA IssuedStep ==
  ASSUME Informed, NEW k \in Workers, InvoiceIssued(k)
  PROVE  Informed'
<1> DEFINE key == About("invoice", "issued")
           r == Fire(key, <<>>)
<1>1. Go(k, r) /\ UNCHANGED <<business, events, rows, callback>>
  BY DEF InvoiceIssued
<1>2. key \in Occurrences /\ <<>> \in Rolls
  BY DEF About, Occurrences, Rolls
<1> HIDE DEF key
<1>3. r \in Requests /\ r.at = "event" /\ r.key = key /\ r.to = <<Owner>>
  BY <1>2, FireIs
<1> HIDE DEF r
<1> QED
  BY <1>1, <1>2, <1>3, FiredOnly

LEMMA DisruptStep ==
  ASSUME Informed, NEW k \in Workers, NEW x \in Disruptions, Disrupt(k, x)
  PROVE  Informed'
<1> DEFINE key == About("disruption", x)
           r == FireAll(key, Affected)
<1>1. Go(k, r) /\ UNCHANGED <<business, events, rows, callback>>
  BY DEF Disrupt
<1>2. key \in Occurrences /\ key.kind = "disruption"
  BY DEF About, Occurrences
<1> HIDE DEF key
<1>3. r \in Requests /\ r.at = "event" /\ r.key = key /\ r.to = Affected
  BY <1>2, AffectedOnce, FireAllIs
<1> HIDE DEF r
<1> QED
  BY <1>1, <1>2, <1>3, AffectedOnce, FiredOnly

-----------------------------------------------------------------------------
\* Documents: the bytes are stored before a row can show.

LEMMA UploadStep ==
  ASSUME Informed, NEW k \in Workers, NEW d \in Documents, NEW v \in {"hidden", "visible"},
         Upload(k, d, v)
  PROVE  Informed'
<1> DEFINE key == About(v, d)
           r == [Idle EXCEPT !.at = "row", !.key = key]
<1>1. /\ stored' = stored \cup {d} /\ Go(k, r)
      /\ UNCHANGED <<shipment, items, delivered, documents, events, rows, callback>>
  BY DEF Upload
<1>2. key \in Tasks /\ key.kind \in {"hidden", "visible"} /\ key.what = d /\ "row" \in Places
  BY DEF About, Tasks, Places
<1> HIDE DEF key
<1>3. r \in Requests /\ r.at = "row" /\ r.key = key
  BY <1>2, IdleIs DEF Requests
<1> HIDE DEF r
<1>4. Later
  BY <1>1 DEF Later
<1>5. Tasked(r)' /\ r.at \notin Telling
  BY <1>1, <1>2, <1>3 DEF Tasked, Telling, Fired
<1>6. TypeOK'
  BY <1>1, <1>3, <1>4, <1>5, Quiet DEF Informed, TypeOK
<1>7. DocumentHasItsFile'
  BY <1>1 DEF Informed, DocumentHasItsFile
<1> QED
  BY <1>1, <1>3, <1>4, <1>5, <1>6, <1>7, Quiet DEF Informed

LEMMA AddDocumentStep ==
  ASSUME Informed, NEW k \in Workers, AddDocument(k)
  PROVE  Informed'
<1>1. PICK q \in Requests : q = request[k]
  BY DEF Informed, TypeOK
<1>2. q.key \in Tasks /\ q.key.kind # "delivery" /\ q.key.what \in stored
  BY <1>1 DEF Informed, Tasked, AddDocument, At
<1>3. q.key.what \in Documents /\ q.key.kind \in {"hidden", "visible"}
  BY <1>2 DEF Tasks
<1>4. /\ documents' = [documents EXCEPT ![q.key.what] = q.key.kind] /\ Go(k, Idle)
      /\ UNCHANGED <<shipment, items, delivered, stored, events, rows, callback>>
  BY <1>1 DEF AddDocument
<1>5. /\ documents' \in [Documents -> {"none", "hidden", "visible"}]
      /\ \A d \in Documents : documents'[d] # "none" => documents[d] # "none" \/ d \in stored
      /\ \A d \in Documents : documents[d] # "none" => documents'[d] # "none"
  BY <1>2, <1>3, <1>4 DEF Informed, TypeOK
<1>6. Later
  BY <1>4, <1>5 DEF Later
<1>7. Idle \in Requests /\ Tasked(Idle)' /\ Idle.at \notin Telling
  BY IdleIs DEF Tasked, Telling, Fired
<1>8. TypeOK'
  BY <1>4, <1>5, <1>6, <1>7, Quiet DEF Informed, TypeOK
<1>9. DocumentHasItsFile'
  BY <1>4, <1>5 DEF Informed, DocumentHasItsFile
<1> QED
  BY <1>4, <1>6, <1>7, <1>8, <1>9, Quiet DEF Informed

LEMMA UpdateDocumentStep ==
  ASSUME Informed, NEW k \in Workers, NEW d \in Documents, NEW v \in {"hidden", "visible"},
         UpdateDocument(k, d, v)
  PROVE  Informed'
<1> DEFINE key == About(v, d)
           ok == documents[d] = "hidden"
           r == [Idle EXCEPT !.at = "show", !.key = key, !.ok = ok]
<1>1. /\ Go(k, r) /\ documents[d] # "none"
      /\ UNCHANGED <<business, events, rows, callback>>
  BY DEF UpdateDocument
<1>2. key \in Tasks /\ key.kind \in {"hidden", "visible"} /\ key.what = d /\ "show" \in Places
  BY DEF About, Tasks, Places
<1>3. d \in stored /\ ok \in BOOLEAN
  BY <1>1 DEF Informed, DocumentHasItsFile
<1> HIDE DEF key, ok
<1>4. r \in Requests /\ r.at = "show" /\ r.key = key
  BY <1>2, <1>3, IdleIs DEF Requests
<1> HIDE DEF r
<1>5. Tasked(r) /\ r.at \notin Telling
  BY <1>1, <1>2, <1>3, <1>4 DEF Tasked, Telling, Fired
<1> QED
  BY <1>1, <1>4, <1>5, QuietGo

LEMMA ShowDocumentStep ==
  ASSUME Informed, NEW k \in Workers, ShowDocument(k)
  PROVE  Informed'
<1>1. PICK q \in Requests : q = request[k]
  BY DEF Informed, TypeOK
<1>2. q.key \in Tasks /\ q.key.kind # "delivery" /\ q.key.what \in stored
  BY <1>1 DEF Informed, Tasked, ShowDocument, At
<1>3. q.key.what \in Documents /\ q.key.kind \in {"hidden", "visible"}
  BY <1>2 DEF Tasks
<1> DEFINE key == About("document", q.key.what)
           f == Fire(key, <<>>)
           r == IF q.key.kind = "visible" /\ q.ok THEN f ELSE Idle
<1>4. /\ documents' = [documents EXCEPT ![q.key.what] = q.key.kind] /\ Go(k, r)
      /\ UNCHANGED <<shipment, items, delivered, stored, events, rows, callback>>
  BY <1>1 DEF ShowDocument
<1>5. /\ documents' \in [Documents -> {"none", "hidden", "visible"}]
      /\ \A d \in Documents : documents'[d] # "none" => documents[d] # "none" \/ d \in stored
      /\ \A d \in Documents : documents[d] # "none" => documents'[d] # "none"
  BY <1>2, <1>3, <1>4 DEF Informed, TypeOK
<1>6. Later
  BY <1>4, <1>5 DEF Later
<1>7. key \in Occurrences /\ key.kind = "document" /\ <<>> \in Rolls
  BY <1>3 DEF About, Occurrences, Rolls
<1> HIDE DEF key
<1>8. f \in Requests /\ f.at = "event" /\ f.key = key /\ f.to = <<Owner>>
  BY <1>7, FireIs
<1> HIDE DEF f
<1>9. r \in Requests /\ Tasked(r)' /\ r.at \notin Telling
  BY <1>7, <1>8, IdleIs DEF Tasked, Telling, Fired
<1> HIDE DEF r
<1>10. TypeOK'
  BY <1>4, <1>5, <1>6, <1>9, Quiet DEF Informed, TypeOK
<1>11. DocumentHasItsFile'
  BY <1>4, <1>5 DEF Informed, DocumentHasItsFile
<1> QED
  BY <1>4, <1>6, <1>9, <1>10, <1>11, Quiet DEF Informed

-----------------------------------------------------------------------------
\* A request that is cut short.

LEMMA CutShortStep ==
  ASSUME Informed, NEW k \in Workers, Restart(k) \/ Swallow(k)
  PROVE  Informed'
<1>1. CASE Restart(k)
  <2>1. Tasked(Idle) /\ Idle.at \notin Telling /\ Idle \in Requests
    BY IdleIs DEF Tasked, Telling, Fired
  <2>2. Go(k, Idle) /\ UNCHANGED <<business, events, rows, callback>>
    BY <1>1 DEF Restart
  <2> QED
    BY <2>1, <2>2, QuietGo
<1>2. CASE Swallow(k)
  <2>1. request[k].rolls \in Rolls
    BY DEF Informed, TypeOK, Requests, Rolls
  <2>2. PICK rolls \in Rolls : rolls = request[k].rolls
    BY <2>1
  <2>3. Go(k, Continue(rolls)) /\ UNCHANGED <<business, events, rows, callback>>
    BY <1>2, <2>2 DEF Swallow
  <2> QED
    BY <2>3, Ends
<1> QED
  BY <1>1, <1>2

-----------------------------------------------------------------------------
\* A request that tells. Whatever it writes is about its own occurrence.

Ours(k) ==
  /\ \A n \in DOMAIN rows : n \in DOMAIN rows'
  /\ \A n \in DOMAIN rows' :
       \/ n \in DOMAIN rows /\ rows'[n] = rows[n]
       \/ request[k].at \in Telling /\ n.key = request[k].key

LEMMA Aloud ==
  ASSUME Informed, NEW k \in Workers, NEW r \in Requests, Go(k, r),
         UNCHANGED business, events \subseteq events', Ours(k),
         Tasked(r), Tells(r)', Sends(r)',
         r.at \in Telling =>
           \A j \in Workers \ {k} : request[j].at \in Telling => request[j].key # r.key
  PROVE  /\ request' \in [Workers -> Requests]
         /\ \A j \in Workers : request'[j].at \in {"send", "outcome"} =>
              request'[j].row \in DOMAIN rows'
         /\ Alone'
         /\ \A j \in Workers : (Tasked(request[j]) /\ Tells(request[j]) /\ Sends(request[j]))'
<1>1. /\ request' \in [Workers -> Requests] /\ request'[k] = r
      /\ \A j \in Workers \ {k} : request'[j] = request[j]
  BY Goes
<1>2. \A j \in Workers : Tasked(request[j])'
  BY <1>1 DEF Informed, Tasked, business
<1>3. Alone'
  BY <1>1 DEF Informed, Alone
<1>4. \A j \in Workers \ {k} :
        request[j].at \in Telling =>
          \A n \in DOMAIN rows' : n.key = request[j].key =>
            n \in DOMAIN rows /\ rows'[n] = rows[n]
  BY DEF Ours, Informed, Alone
<1>5. \A j \in Workers : Tells(request[j])'
  <2> TAKE j \in Workers
  <2>1. CASE j = k
    BY <1>1, <2>1 DEF Tells, Untold
  <2>2. CASE j # k
    <3>1. PICK q \in Requests : q = request[j]
      BY DEF Informed, TypeOK
    <3>2. Tells(q) /\ q = request'[j]
      BY <1>1, <2>2, <3>1 DEF Informed
    <3>3. q.at \in Telling => Untold(q)'
      BY ZenonT(30), <1>4, <2>2, <3>1, <3>2 DEF Tells, Untold
    <3> QED
      BY <3>2, <3>3 DEF Tells, Untold
  <2> QED
    BY <2>1, <2>2
<1>6. \A j \in Workers : Sends(request[j])'
  <2> TAKE j \in Workers
  <2>1. CASE j = k
    BY <1>1, <2>1 DEF Sends
  <2>2. CASE j # k
    <3>1. Sends(request[j]) /\ request'[j] = request[j]
      BY <1>1, <2>2 DEF Informed
    <3>2. request[j].at \in {"send", "outcome"} => request[j].at \in Telling
      BY DEF Telling
    <3> QED
      BY <1>4, <2>2, <3>1, <3>2 DEF Sends, Ours
  <2> QED
    BY <2>1, <2>2
<1>7. \A j \in Workers : request'[j].at \in {"send", "outcome"} => request'[j].row \in DOMAIN rows'
  BY <1>6 DEF Sends
<1> QED
  BY <1>1, <1>2, <1>3, <1>5, <1>6, <1>7

\* The next recipient, or on with the rollups.
LEMMA NotifyIs ==
  ASSUME NEW r \in Requests
  PROVE  /\ NotifyCustomer(r) \in Requests
         /\ r.to = <<>> => NotifyCustomer(r) = Continue(r.rolls)
         /\ r.to # <<>> =>
              /\ NotifyCustomer(r).at = "create" /\ NotifyCustomer(r).key = r.key
              /\ NotifyCustomer(r).to = r.to /\ NotifyCustomer(r).rolls = r.rolls
              /\ NotifyCustomer(r).mail = r.mail
              /\ NotifyCustomer(r).channels =
                   {ch \in Channels : Due(Head(r.to), ch, r.key, r.mail)}
<1> DEFINE channels == {ch \in Channels : Due(Head(r.to), ch, r.key, r.mail)}
<1>1. "create" \in Places /\ channels \in SUBSET Channels /\ r.rolls \in Rolls
  BY DEF Places, InFire, Requests, Rolls
<1>2. NotifyCustomer(r) =
        IF r.to = <<>> THEN Continue(r.rolls)
        ELSE [r EXCEPT !.at = "create", !.channels = channels]
  BY DEF NotifyCustomer
<1> HIDE DEF channels
<1>3. CASE r.to = <<>>
  <2>1. PICK rolls \in Rolls : rolls = r.rolls
    BY <1>1
  <2> QED
    BY <1>2, <1>3, <2>1, ContinueIs
<1>4. CASE r.to # <<>>
  BY <1>1, <1>2, <1>4 DEF Requests, channels
<1> QED
  BY <1>3, <1>4

LEMMA TellsNext ==
  ASSUME NEW r \in Requests, r.key \in Occurrences,
         \A i, j \in DOMAIN r.to : r.to[i] = r.to[j] => i = j,
         r.key.kind = "shipment" => \A i \in DOMAIN r.to : r.to[i] = Owner,
         r.key \in events',
         \A n \in DOMAIN rows' : n.key = r.key => \A i \in DOMAIN r.to : n.to # r.to[i]
  PROVE  /\ NotifyCustomer(r) \in Requests
         /\ Tasked(NotifyCustomer(r)) /\ Tells(NotifyCustomer(r))' /\ Sends(NotifyCustomer(r))'
         /\ NotifyCustomer(r).at \in Telling => NotifyCustomer(r).key = r.key
<1> DEFINE s == NotifyCustomer(r)
<1>1. s \in Requests
  BY NotifyIs
<1>2. r.to \in Seq(Customers) /\ r.rolls \in Rolls
  BY DEF Requests, Rolls
<1>3. CASE r.to = <<>>
  <2>1. PICK rolls \in Rolls : rolls = r.rolls
    BY <1>2
  <2>2. s = Continue(rolls)
    BY <1>3, <2>1, NotifyIs
  <2>3. s.at \in {"free", "roll"} /\ (s.at = "roll" => s.rolls # <<>>)
    BY <2>2, ContinueIs
  <2> HIDE DEF s
  <2>4. Tasked(s) /\ s.at \notin Telling /\ Tells(s)' /\ Sends(s)'
    BY <2>3 DEF Tasked, Tells, Sends, Telling, Fired
  <2> QED
    BY <1>1, <2>4 DEF s
<1>4. CASE r.to # <<>>
  <2>1. /\ s.at = "create" /\ s.key = r.key /\ s.to = r.to /\ s.mail = r.mail
        /\ s.channels = {ch \in Channels : Due(Head(r.to), ch, r.key, r.mail)}
    BY <1>4, NotifyIs
  <2> HIDE DEF s
  <2>2. Tasked(s)
    BY <1>4, <2>1 DEF Tasked, Fired, Telling
  <2>3. "IN_APP" \in s.channels /\ s.channels # {}
    BY <2>1 DEF Due, Channels
  <2>4. \A ch \in s.channels : ch # "IN_APP" => ch \in Wants[Head(s.to)]
    BY <2>1 DEF Due
  <2>5. "EMAIL" \in s.channels => s.mail
    BY <2>1 DEF Due
  <2>6. Untold(s)'
    BY <1>2, <1>4, <2>1 DEF Untold
  <2>7. Tells(s)'
    BY <2>1, <2>3, <2>4, <2>5, <2>6 DEF Tells
  <2>8. Sends(s)'
    BY <2>1 DEF Sends
  <2> QED
    BY <1>1, <2>1, <2>2, <2>7, <2>8 DEF s
<1> QED
  BY <1>3, <1>4

LEMMA RecordEventStep ==
  ASSUME Informed, NEW k \in Workers, RecordEvent(k)
  PROVE  Informed'
<1>1. PICK q \in Requests : q = request[k]
  BY DEF Informed, TypeOK
<1>2. /\ q.key \in Occurrences /\ q.rolls \in Rolls
      /\ \A i, j \in DOMAIN q.to : q.to[i] = q.to[j] => i = j
      /\ q.key.kind = "shipment" => \A i \in DOMAIN q.to : q.to[i] = Owner
  BY <1>1 DEF Informed, Tasked, RecordEvent, At, Requests, Rolls, Fired
<1>3. UNCHANGED <<business, rows, callback>>
  BY DEF RecordEvent
<1>4. CASE q.key \in events
  <2>1. Go(k, Continue(q.rolls)) /\ UNCHANGED events
    BY <1>1, <1>4 DEF RecordEvent
  <2>2. PICK rolls \in Rolls : rolls = q.rolls
    BY <1>2
  <2> QED
    BY <1>3, <2>1, <2>2, Ends
<1>5. CASE q.key \notin events
  <2> DEFINE r == NotifyCustomer(q)
  <2>1. events' = events \cup {q.key} /\ Go(k, r)
    BY <1>1, <1>5 DEF RecordEvent
  <2>2. \A n \in DOMAIN rows' : n.key # q.key
    BY <1>3, <1>5 DEF Informed, TypeOK
  <2>3. q.key \in events'
    BY <2>1
  <2>4. /\ r \in Requests /\ Tasked(r) /\ Tells(r)' /\ Sends(r)'
        /\ r.at \in Telling => r.key = q.key
    BY <1>2, <2>2, <2>3, TellsNext
  <2> HIDE DEF r
  <2>5. Ours(k)
    BY <1>3 DEF Ours
  <2>6. \A j \in Workers : request[j].at \in Telling => request[j].key # q.key
    BY <1>5 DEF Informed, Tells
  <2>7. events \subseteq events' /\ events' \subseteq Occurrences
    BY <1>2, <2>1 DEF Informed, TypeOK
  <2>8. /\ request' \in [Workers -> Requests]
        /\ \A j \in Workers : request'[j].at \in {"send", "outcome"} =>
             request'[j].row \in DOMAIN rows'
        /\ Alone'
        /\ \A j \in Workers : (Tasked(request[j]) /\ Tells(request[j]) /\ Sends(request[j]))'
    BY <1>3, <2>1, <2>4, <2>5, <2>6, <2>7, Aloud
  <2>9. TypeOK'
    BY <1>3, <2>7, <2>8 DEF Informed, TypeOK, business
  <2>10. RowsOnce' /\ CallbacksFind' /\ DocumentHasItsFile'
    BY <1>3 DEF Informed, RowsOnce, CallbacksFind, Matched, DocumentHasItsFile, business
  <2> QED
    BY <2>8, <2>9, <2>10 DEF Informed
<1> QED
  BY <1>4, <1>5

\* No copy is ever made: the row that is created is the first of its kind.
NewRow == [status |-> "PENDING", messageId |-> FALSE]

LEMMA CreatedIs ==
  ASSUME Informed, NEW k \in Workers, NEW q \in Requests, q = request[k], CreateRow(k)
  PROVE  /\ q.at = "create" /\ Tasked(q) /\ Tells(q)
         /\ UNCHANGED <<business, events, callback>>
         /\ \E id \in Ids, r \in Requests :
              /\ id \notin DOMAIN rows /\ rows' = [n \in DOMAIN rows \cup {id} |->
                                                   IF n = id THEN NewRow ELSE rows[n]]
              /\ id.key = q.key /\ id.to = Head(q.to) /\ id.channel \in q.channels
              /\ id.copy = 1
              /\ Go(k, r) /\ r.at = "send" /\ r.row = id
              /\ r.channels = q.channels \ {id.channel}
              /\ r.key = q.key /\ r.to = q.to /\ r.mail = q.mail /\ r.rolls = q.rolls
<1> DEFINE c == Head(q.to)
           ch == FirstOf(q.channels)
           copy == Cardinality(RowIds(q.key, c, ch)) + 1
           made == [key |-> q.key, to |-> c, channel |-> ch, copy |-> copy]
           channels == q.channels \ {ch}
<1>2. /\ q.at = "create"
      /\ Go(k, [q EXCEPT !.at = "send", !.row = made, !.channels = channels])
      /\ rows' = [n \in DOMAIN rows \cup {made} |-> IF n = made THEN NewRow ELSE rows[n]]
      /\ UNCHANGED <<business, events, callback>>
  BY DEF CreateRow, At, NewRow
<1>3. /\ q.key \in Occurrences /\ q.to # <<>> /\ q.to \in Seq(Customers)
      /\ q.key \in events /\ Untold(q) /\ Tasked(q)
      /\ q.channels # {} /\ q.channels \in SUBSET Channels
      /\ \A x \in q.channels : x # "IN_APP" => x \in Wants[c]
      /\ "EMAIL" \in q.channels => q.mail
  <2>1. Tasked(q) /\ Tells(q)
    BY DEF Informed
  <2>2. q.at \in Telling /\ q.at \in Fired /\ q.at # "event"
    BY <1>2 DEF Telling, Fired
  <2> QED
    BY <1>2, <2>1, <2>2 DEF Tasked, Tells, Requests
<1>4. ch \in q.channels /\ ch \in Channels /\ c \in Customers
  BY <1>3 DEF FirstOf, Channels
<1> HIDE DEF c, ch
<1>5. RowIds(q.key, c, ch) = {}
  BY <1>3, <1>4 DEF RowIds, Untold, c
<1>6. copy = 1
  BY <1>5, FS_EmptySet
<1> HIDE DEF copy
<1>7. PICK id \in Ids :
        id = made /\ id.key = q.key /\ id.to = c /\ id.channel = ch /\ id.copy = 1
  <2>1. 1 \in Nat
    OBVIOUS
  <2>2. made \in Ids
    BY <1>3, <1>4, <1>6, <2>1 DEF Ids
  <2>3. made.key = q.key /\ made.to = c /\ made.channel = ch /\ made.copy = 1
    BY <1>6
  <2> HIDE DEF made
  <2> QED
    BY <2>2, <2>3
<1> HIDE DEF made
<1>8. id \notin DOMAIN rows
  BY <1>5, <1>7 DEF RowIds
<1>9. rows' = [n \in DOMAIN rows \cup {id} |-> IF n = id THEN NewRow ELSE rows[n]]
  BY <1>2, <1>7
<1>10. q.at = "create" /\ Tasked(q) /\ Tells(q)
  BY <1>2 DEF Informed
<1>11. PICK r \in Requests :
         /\ Go(k, r) /\ r.at = "send" /\ r.row = id /\ r.channels = channels
         /\ r.key = q.key /\ r.to = q.to /\ r.mail = q.mail /\ r.rolls = q.rolls
  <2> DEFINE s == [q EXCEPT !.at = "send", !.row = id, !.channels = channels]
  <2>1. "send" \in Places /\ channels \in SUBSET Channels /\ id \in Ids
    BY <1>3, <1>7 DEF Places, InFire
  <2> HIDE DEF channels
  <2>2. s \in Requests
    BY <2>1 DEF Requests
  <2>3. /\ s.at = "send" /\ s.row = id /\ s.channels = channels
        /\ s.key = q.key /\ s.to = q.to /\ s.mail = q.mail /\ s.rolls = q.rolls
    BY DEF Requests
  <2>4. Go(k, s)
    BY <1>2, <1>7
  <2> QED
    BY <2>2, <2>3, <2>4
<1>12. r.channels = q.channels \ {id.channel} /\ id.channel \in q.channels
       /\ id.to = Head(q.to)
  BY <1>4, <1>7, <1>11 DEF c
<1> QED
  BY <1>2, <1>7, <1>8, <1>9, <1>10, <1>11, <1>12

LEMMA CreateRowStep ==
  ASSUME Informed, NEW k \in Workers, CreateRow(k)
  PROVE  Informed'
<1>1. PICK q \in Requests : q = request[k]
  BY DEF Informed, TypeOK
<1>2. q.at = "create" /\ Tasked(q) /\ Tells(q) /\ UNCHANGED <<business, events, callback>>
  BY <1>1, CreatedIs
<1>3. /\ q.key \in Occurrences /\ q.to # <<>> /\ q.to \in Seq(Customers)
      /\ q.key \in events /\ Untold(q)
      /\ q.channels \in SUBSET Channels
      /\ \A x \in q.channels : x # "IN_APP" => x \in Wants[Head(q.to)]
      /\ "EMAIL" \in q.channels => q.mail
  <2>1. q.at \in Telling /\ q.at \in Fired /\ q.at # "event"
    BY <1>2 DEF Telling, Fired
  <2> QED
    BY <1>2, <2>1 DEF Tasked, Tells, Requests
<1>4. PICK id \in Ids, r \in Requests :
        /\ id \notin DOMAIN rows /\ rows' = [n \in DOMAIN rows \cup {id} |->
                                             IF n = id THEN NewRow ELSE rows[n]]
        /\ id.key = q.key /\ id.to = Head(q.to) /\ id.channel \in q.channels
        /\ id.copy = 1
        /\ Go(k, r) /\ r.at = "send" /\ r.row = id
        /\ r.channels = q.channels \ {id.channel}
        /\ r.key = q.key /\ r.to = q.to /\ r.mail = q.mail /\ r.rolls = q.rolls
  BY <1>1, CreatedIs
<1>5. /\ NewRow.status = "PENDING" /\ NewRow.messageId = FALSE
      /\ NewRow \in [status : {"PENDING", "SENT", "FAILED", "READ"}, messageId : BOOLEAN]
  BY DEF NewRow
<1>6. /\ DOMAIN rows' = DOMAIN rows \cup {id}
      /\ rows'[id] = NewRow
      /\ \A n \in DOMAIN rows : rows'[n] = rows[n]
      /\ rows' = [o \in DOMAIN rows' |-> rows'[o]]
  BY <1>4
<1>7. Ours(k)
  BY <1>1, <1>2, <1>4, <1>6 DEF Ours, Telling
<1>8. Tasked(r)
  BY <1>2, <1>3, <1>4 DEF Tasked, Fired, Telling
<1>9. Sends(r)'
  BY <1>4, <1>5, <1>6 DEF Sends
<1>10. Untold(r)'
  <2> SUFFICES ASSUME NEW n \in DOMAIN rows', n.key = q.key
               PROVE  /\ \A i \in DOMAIN q.to : i > 1 => n.to # q.to[i]
                      /\ n.to = Head(q.to) => n.channel \notin q.channels \ {id.channel}
    BY <1>4 DEF Untold
  <2>1. CASE n \in DOMAIN rows
    BY <1>3, <2>1 DEF Untold
  <2>2. CASE n = id
    <3>1. 1 \in DOMAIN q.to /\ Head(q.to) = q.to[1]
      BY <1>3
    <3>2. \A i, j \in DOMAIN q.to : q.to[i] = q.to[j] => i = j
      BY <1>2, <1>3 DEF Tasked, Fired, Telling
    <3>3. DOMAIN q.to \subseteq Nat
      BY <1>3
    <3>4. \A i \in DOMAIN q.to : i > 1 => n.to # q.to[i]
      BY <1>4, <2>2, <3>1, <3>2, <3>3
    <3>5. n.channel \notin q.channels \ {id.channel}
      BY <1>4, <2>2
    <3> QED
      BY <3>4, <3>5
  <2> QED
    BY <1>6, <2>1, <2>2
<1>11. Tells(r)'
  BY <1>2, <1>3, <1>4, <1>10 DEF Tells, Telling
<1>12. \A j \in Workers \ {k} : request[j].at \in Telling => request[j].key # r.key
  BY <1>1, <1>2, <1>4 DEF Informed, Alone, Telling
<1>13. /\ request' \in [Workers -> Requests]
       /\ \A j \in Workers : request'[j].at \in {"send", "outcome"} =>
            request'[j].row \in DOMAIN rows'
       /\ Alone'
       /\ \A j \in Workers : (Tasked(request[j]) /\ Tells(request[j]) /\ Sends(request[j]))'
  <2>1. Go(k, r) /\ UNCHANGED business /\ events \subseteq events'
    BY <1>2, <1>4
  <2> QED
    BY <1>4, <1>7, <1>8, <1>9, <1>11, <1>12, <2>1, Aloud
<1>14. TypeOK'
  <2>1. DOMAIN rows' \subseteq Ids
    BY <1>4, <1>6 DEF Informed, TypeOK
  <2>2. rows' \in [DOMAIN rows' -> [status : {"PENDING", "SENT", "FAILED", "READ"},
                                   messageId : BOOLEAN]]
    <3> DEFINE Status == [status : {"PENDING", "SENT", "FAILED", "READ"}, messageId : BOOLEAN]
    <3>1. NewRow \in Status /\ rows \in [DOMAIN rows -> Status]
      BY <1>5 DEF Informed, TypeOK
    <3> HIDE DEF Status
    <3>2. rows' \in [DOMAIN rows \cup {id} -> Status]
      BY <1>4, <3>1
    <3>3. rows' \in [DOMAIN rows' -> Status]
      <4>1. DOMAIN rows' = DOMAIN rows \cup {id}
        BY <1>6
      <4> QED
        BY <3>2, <4>1
    <3> QED
      BY <3>3 DEF Status
  <2>3. \A n \in DOMAIN rows' :
          n.key \in events' /\ (n.channel # "IN_APP" => n.channel \in Wants[n.to])
    BY <1>2, <1>3, <1>4, <1>6 DEF Informed, TypeOK
  <2>4. \A h \in Hooks : callback'[h] # Idle => callback'[h].row \in DOMAIN rows'
    BY <1>2, <1>6 DEF Informed, TypeOK
  <2> QED
    BY <1>2, <1>13, <2>1, <2>2, <2>3, <2>4 DEF Informed, TypeOK, business
<1>15. RowsOnce'
  BY <1>4, <1>5, <1>6 DEF Informed, RowsOnce
<1>16. CallbacksFind' /\ DocumentHasItsFile'
  BY <1>2, <1>6 DEF Informed, CallbacksFind, Matched, DocumentHasItsFile, business
<1> QED
  BY <1>13, <1>14, <1>15, <1>16 DEF Informed

\* After a row, the next channel or the next recipient.
LEMMA AfterRowIs ==
  ASSUME NEW q \in Requests, Tasked(q), q.at \in {"send", "outcome"}, q.key \in events',
         NEW status,
         \A ch \in q.channels : ch # "IN_APP" => ch \in Wants[Head(q.to)],
         "EMAIL" \in q.channels => q.mail,
         Untold(q)'
  PROVE  /\ AfterRow(q, status) \in Requests
         /\ AfterRow(q, status).at \notin {"send", "outcome"}
         /\ Tasked(AfterRow(q, status)) /\ Tells(AfterRow(q, status))'
         /\ Sends(AfterRow(q, status))'
         /\ AfterRow(q, status).at \in Telling => AfterRow(q, status).key = q.key
<1> DEFINE r == AfterRow(q, status)
<1>1. /\ q.key \in Occurrences /\ q.to # <<>> /\ q.to \in Seq(Customers)
      /\ \A i, j \in DOMAIN q.to : q.to[i] = q.to[j] => i = j
      /\ q.key.kind = "shipment" => \A i \in DOMAIN q.to : q.to[i] = Owner
  BY DEF Tasked, Fired, Telling, Requests
<1>2. CASE q.channels # {}
  <2>1. r = [q EXCEPT !.at = "create"]
    BY <1>2 DEF AfterRow
  <2>2. "create" \in Places
    BY DEF Places, InFire
  <2>3. /\ r \in Requests /\ r.at = "create" /\ r.key = q.key /\ r.to = q.to
        /\ r.channels = q.channels /\ r.mail = q.mail
    BY <2>1, <2>2 DEF Requests
  <2> HIDE DEF r
  <2>4. Tasked(r)
    BY <1>1, <2>3 DEF Tasked, Fired, Telling
  <2>5. Tells(r)'
    BY <1>2, <2>3 DEF Tells, Untold
  <2>6. Sends(r)'
    BY <2>3 DEF Sends
  <2> QED
    BY <2>3, <2>4, <2>5, <2>6 DEF r
<1>3. CASE q.channels = {}
  <2> DEFINE to == Tail(q.to)
  <2>1. to \in Seq(Customers) /\ DOMAIN q.to = 1..Len(q.to) /\ Len(q.to) \in Nat
        /\ DOMAIN to = 1..(Len(q.to) - 1)
        /\ \A i \in DOMAIN to : i + 1 \in DOMAIN q.to /\ i + 1 > 1 /\ to[i] = q.to[i + 1]
    BY <1>1
  <2> HIDE DEF to
  <2> DEFINE rest == [q EXCEPT !.to = to]
  <2>0. rest \in Requests /\ rest.to = to /\ rest.key = q.key
    BY <2>1 DEF Requests
  <2> HIDE DEF rest
  <2>2. PICK n \in Requests : n = rest /\ n.to = to /\ n.key = q.key
    BY <2>0
  <2>3. r = NotifyCustomer(n)
    BY <1>3, <2>2 DEF AfterRow, to, rest
  <2>4. \A i, j \in DOMAIN to : to[i] = to[j] => i = j
    <3> TAKE i, j \in DOMAIN to
    <3> HAVE to[i] = to[j]
    <3>1. i + 1 = j + 1
      BY <1>1, <2>1
    <3> QED
      BY <2>1, <3>1
  <2>5. n.key.kind = "shipment" => \A i \in DOMAIN n.to : n.to[i] = Owner
    BY <1>1, <2>1, <2>2
  <2>6. \A m \in DOMAIN rows' : m.key = n.key => \A i \in DOMAIN n.to : m.to # n.to[i]
    BY <2>1, <2>2 DEF Untold
  <2>7. n.key \in Occurrences /\ n.key \in events'
    BY <1>1, <2>2
  <2>8. /\ NotifyCustomer(n) \in Requests
        /\ Tasked(NotifyCustomer(n)) /\ Tells(NotifyCustomer(n))' /\ Sends(NotifyCustomer(n))'
        /\ NotifyCustomer(n).at \in Telling => NotifyCustomer(n).key = n.key
    BY <2>2, <2>4, <2>5, <2>6, <2>7, TellsNext
  <2>9. NotifyCustomer(n).at \notin {"send", "outcome"}
    <3>1. CASE n.to = <<>>
      <4>1. PICK rolls \in Rolls : rolls = n.rolls
        BY DEF Requests, Rolls
      <4> QED
        BY <3>1, <4>1, NotifyIs, ContinueIs
    <3>2. CASE n.to # <<>>
      BY <3>2, NotifyIs
    <3> QED
      BY <3>1, <3>2
  <2> QED
    BY <2>2, <2>3, <2>8, <2>9
<1> QED
  BY <1>2, <1>3

\* The outcome of a row, wherever the callbacks of earlier ones are.
LEMMA SettleStep ==
  ASSUME Informed, NEW k \in Workers, request[k].at \in {"send", "outcome"},
         NEW status \in {"SENT", "FAILED"}, NEW sent \in BOOLEAN,
         SettleRow(k, status, sent), UNCHANGED <<business, events, callback>>
  PROVE  Informed'
<1>1. PICK q \in Requests : q = request[k]
  BY DEF Informed, TypeOK
<1>2. /\ Tasked(q) /\ q.at \in {"send", "outcome"} /\ q.at \in Telling
      /\ q.key \in events /\ Untold(q)
      /\ \A ch \in q.channels : ch # "IN_APP" => ch \in Wants[Head(q.to)]
      /\ "EMAIL" \in q.channels => q.mail
      /\ q.row \in DOMAIN rows /\ ~rows[q.row].messageId /\ q.row.key = q.key
  <2>1. Tasked(q) /\ Tells(q) /\ Sends(q)
    BY <1>1 DEF Informed
  <2>2. q.at \in {"send", "outcome"} /\ q.at \in Telling
    BY <1>1 DEF Telling
  <2> QED
    BY <2>1, <2>2 DEF Tells, Sends
<1> DEFINE n == q.row
           r == AfterRow(q, status)
           Status == [status : {"PENDING", "SENT", "FAILED", "READ"}, messageId : BOOLEAN]
<1>3. /\ rows' = [rows EXCEPT ![n].status = status, ![n].messageId = sent]
      /\ Go(k, r)
  BY <1>1 DEF SettleRow
<1>4. rows \in [DOMAIN rows -> Status]
  BY DEF Informed, TypeOK
<1>5. /\ DOMAIN rows' = DOMAIN rows /\ rows' \in [DOMAIN rows -> Status]
      /\ rows'[n].status = status /\ rows'[n].messageId = sent
      /\ \A m \in DOMAIN rows : m # n => rows'[m] = rows[m]
  BY <1>2, <1>3, <1>4
<1>6. Untold(q)' /\ q.key \in events'
  BY <1>2, <1>5 DEF Untold
<1>7. /\ r \in Requests /\ r.at \notin {"send", "outcome"}
      /\ Tasked(r) /\ Tells(r)' /\ Sends(r)'
      /\ r.at \in Telling => r.key = q.key
  BY <1>2, <1>6, AfterRowIs
<1> HIDE DEF r, n
<1>8. Ours(k)
  BY <1>1, <1>2, <1>5 DEF Ours, n
<1>9. r.at \in Telling =>
        \A j \in Workers \ {k} : request[j].at \in Telling => request[j].key # r.key
  BY <1>1, <1>2, <1>7 DEF Informed, Alone
<1>10. events \subseteq events' /\ UNCHANGED business
  OBVIOUS
<1>11. /\ request' \in [Workers -> Requests]
       /\ \A j \in Workers : request'[j].at \in {"send", "outcome"} =>
            request'[j].row \in DOMAIN rows'
       /\ Alone'
       /\ \A j \in Workers : (Tasked(request[j]) /\ Tells(request[j]) /\ Sends(request[j]))'
  BY <1>3, <1>7, <1>8, <1>9, <1>10, Aloud
<1>12. TypeOK'
  BY <1>5, <1>11 DEF Informed, TypeOK, business
<1>13. RowsOnce'
  BY <1>5 DEF Informed, RowsOnce
<1>14. CallbacksFind'
  BY <1>2, <1>5 DEF Informed, CallbacksFind, Matched, n
<1>15. DocumentHasItsFile'
  BY DEF Informed, DocumentHasItsFile, business
<1> QED
  BY <1>11, <1>12, <1>13, <1>14, <1>15 DEF Informed

LEMMA SendStep ==
  ASSUME Informed, NEW k \in Workers, Send(k)
  PROVE  Informed'
<1>1. PICK q \in Requests : q = request[k]
  BY DEF Informed, TypeOK
<1>2. q.at = "send" /\ UNCHANGED <<business, events, callback>>
  BY <1>1 DEF Send, At
<1>3. CASE SettleRow(k, "SENT", FALSE)
  BY <1>1, <1>2, <1>3, SettleStep
<1>4. CASE SettleRow(k, "FAILED", FALSE)
  BY <1>1, <1>2, <1>4, SettleStep
<1>5. CASE \E ok \in BOOLEAN : Go(k, [q EXCEPT !.at = "outcome", !.ok = ok]) /\ UNCHANGED rows
  <2>1. PICK ok \in BOOLEAN : Go(k, [q EXCEPT !.at = "outcome", !.ok = ok]) /\ UNCHANGED rows
    BY <1>5
  <2> DEFINE r == [q EXCEPT !.at = "outcome", !.ok = ok]
  <2>2. "outcome" \in Places
    BY DEF Places, InFire
  <2>3. /\ r \in Requests /\ r.at = "outcome" /\ r.key = q.key /\ r.to = q.to
        /\ r.channels = q.channels /\ r.mail = q.mail /\ r.row = q.row
    BY <2>2 DEF Requests
  <2>4. Go(k, r)
    BY <2>1
  <2> HIDE DEF r
  <2>5. Tasked(q) /\ Tells(q) /\ Sends(q) /\ q.at \in Telling
    BY <1>1, <1>2 DEF Informed, Telling
  <2>6. Tasked(r)
    BY <1>2, <2>3, <2>5 DEF Tasked, Fired, Telling
  <2>7. Tells(r)' /\ Sends(r)'
    BY <1>2, <2>1, <2>3, <2>5 DEF Tells, Sends, Untold
  <2>8. \A j \in Workers \ {k} : request[j].at \in Telling => request[j].key # r.key
    BY <1>1, <2>3, <2>5 DEF Informed, Alone
  <2>9. Ours(k) /\ events \subseteq events' /\ UNCHANGED business
    BY <1>2, <2>1 DEF Ours
  <2>10. /\ request' \in [Workers -> Requests]
         /\ \A j \in Workers : request'[j].at \in {"send", "outcome"} =>
              request'[j].row \in DOMAIN rows'
         /\ Alone'
         /\ \A j \in Workers : (Tasked(request[j]) /\ Tells(request[j]) /\ Sends(request[j]))'
    BY <2>3, <2>4, <2>6, <2>7, <2>8, <2>9, Aloud
  <2>11. TypeOK'
    BY <1>2, <2>1, <2>10 DEF Informed, TypeOK, business
  <2>12. RowsOnce' /\ CallbacksFind' /\ DocumentHasItsFile'
    BY <1>2, <2>1 DEF Informed, RowsOnce, CallbacksFind, Matched, DocumentHasItsFile, business
  <2> QED
    BY <2>10, <2>11, <2>12 DEF Informed
<1> QED
  BY <1>1, <1>3, <1>4, <1>5 DEF Send

LEMMA OutcomeStep ==
  ASSUME Informed, NEW k \in Workers, Outcome(k)
  PROVE  Informed'
<1> DEFINE status == IF request[k].ok THEN "SENT" ELSE "FAILED"
           ok == request[k].ok
<1>1. status \in {"SENT", "FAILED"} /\ ok \in BOOLEAN
  BY DEF Informed, TypeOK, Requests
<1>2. PICK st \in {"SENT", "FAILED"}, sent \in BOOLEAN : st = status /\ sent = ok
  BY <1>1
<1>3. /\ request[k].at \in {"send", "outcome"} /\ SettleRow(k, st, sent)
      /\ UNCHANGED <<business, events, callback>>
  BY <1>2 DEF Outcome, At
<1> QED
  BY <1>3, SettleStep

-----------------------------------------------------------------------------
\* The recipients: rows change, requests do not.

LEMMA RecipientStep ==
  ASSUME Informed, UNCHANGED <<business, events, request>>, DOMAIN rows' = DOMAIN rows,
         rows' \in [DOMAIN rows' -> [status : {"PENDING", "SENT", "FAILED", "READ"},
                                    messageId : BOOLEAN]],
         \A n \in DOMAIN rows : rows'[n].messageId = rows[n].messageId,
         RowsOnce', CallbacksFind', DOMAIN callback' = Hooks
  PROVE  Informed'
<1>1. TypeOK'
  BY DEF Informed, TypeOK, business, CallbacksFind, Matched
<1>2. Alone' /\ DocumentHasItsFile'
  BY DEF Informed, Alone, DocumentHasItsFile, business
<1>3. \A k \in Workers : (Tasked(request[k]) /\ Tells(request[k]) /\ Sends(request[k]))'
  BY DEF Informed, Tasked, Tells, Untold, Sends, business
<1> QED
  BY <1>1, <1>2, <1>3 DEF Informed

LEMMA MarkReadStep ==
  ASSUME Informed, NEW n \in DOMAIN rows, MarkRead(n)
  PROVE  Informed'
<1>1. /\ n.channel = "IN_APP" /\ rows' = [rows EXCEPT ![n].status = "READ"]
      /\ UNCHANGED <<business, events, request, callback>>
  BY DEF MarkRead
<1>2. /\ DOMAIN rows' = DOMAIN rows
      /\ rows' \in [DOMAIN rows' -> [status : {"PENDING", "SENT", "FAILED", "READ"},
                                    messageId : BOOLEAN]]
      /\ \A m \in DOMAIN rows : rows'[m].messageId = rows[m].messageId
      /\ \A m \in DOMAIN rows : m # n => rows'[m] = rows[m]
  BY <1>1 DEF Informed, TypeOK
<1>3. RowsOnce'
  BY <1>1, <1>2 DEF Informed, RowsOnce
<1>4. CallbacksFind' /\ DOMAIN callback' = Hooks
  BY <1>1, <1>2 DEF Informed, TypeOK, CallbacksFind, Matched
<1> QED
  BY <1>1, <1>2, <1>3, <1>4, RecipientStep

LEMMA CallbackStep ==
  ASSUME Informed, NEW h \in Hooks, NEW n \in DOMAIN rows, NEW st \in {"READ", "FAILED"},
         Callback(h, n, st)
  PROVE  Informed'
<1> DEFINE c == [Idle EXCEPT !.at = st, !.row = n]
<1>1. /\ n.channel = "WHATSAPP" /\ rows[n].messageId
      /\ callback' = [callback EXCEPT ![h] = c]
      /\ UNCHANGED <<business, events, rows, request>>
  BY DEF Callback, Applies
<1>2. c.at = st /\ c.row = n
  BY DEF Idle
<1> HIDE DEF c
<1>3. /\ DOMAIN callback' = Hooks /\ callback'[h] = c
      /\ \A g \in Hooks : g # h => callback'[g] = callback[g]
  BY <1>1 DEF Informed, TypeOK
<1>4. CallbacksFind'
  BY <1>1, <1>2, <1>3 DEF Informed, CallbacksFind, Matched
<1>5. RowsOnce'
  BY <1>1 DEF Informed, RowsOnce
<1>6. rows' \in [DOMAIN rows' -> [status : {"PENDING", "SENT", "FAILED", "READ"},
                                 messageId : BOOLEAN]]
  BY <1>1 DEF Informed, TypeOK
<1> QED
  BY <1>1, <1>3, <1>4, <1>5, <1>6, RecipientStep

LEMMA ApplyStep ==
  ASSUME Informed, NEW h \in Hooks, Apply(h)
  PROVE  Informed'
<1> DEFINE n == callback[h].row
<1>1. /\ Matched(callback[h])
      /\ rows' = [rows EXCEPT ![n].status = callback[h].at]
      /\ callback' = [callback EXCEPT ![h] = Idle]
      /\ UNCHANGED <<business, events, request>>
  BY DEF Informed, CallbacksFind, Apply
<1>2. n \in DOMAIN rows /\ rows[n].messageId /\ callback[h].at \in {"READ", "FAILED"}
  BY <1>1 DEF Matched
<1> HIDE DEF n
<1>3. /\ DOMAIN rows' = DOMAIN rows
      /\ rows' \in [DOMAIN rows' -> [status : {"PENDING", "SENT", "FAILED", "READ"},
                                    messageId : BOOLEAN]]
      /\ \A m \in DOMAIN rows : rows'[m].messageId = rows[m].messageId
      /\ \A m \in DOMAIN rows : m # n => rows'[m] = rows[m]
  BY <1>1, <1>2 DEF Informed, TypeOK
<1>4. RowsOnce'
  BY <1>2, <1>3 DEF Informed, RowsOnce
<1>5. /\ DOMAIN callback' = Hooks /\ callback'[h] = Idle
      /\ \A g \in Hooks : g # h => callback'[g] = callback[g]
  BY <1>1 DEF Informed, TypeOK
<1>6. Idle' = Idle
  BY DEF Idle
<1>7. CallbacksFind'
  BY <1>3, <1>5, <1>6 DEF Informed, CallbacksFind, Matched
<1> QED
  BY <1>1, <1>3, <1>4, <1>5, <1>7, RecipientStep

-----------------------------------------------------------------------------
LEMMA InformedInit == Init => Informed
<1> SUFFICES ASSUME Init PROVE Informed
  OBVIOUS
<1>1. rows = NoRows /\ DOMAIN rows = {}
  BY DEF Init, NoRows
<1>2. rows \in [DOMAIN rows -> [status : {"PENDING", "SENT", "FAILED", "READ"},
                               messageId : BOOLEAN]]
  BY <1>1 DEF NoRows
<1>3. \A k \in Workers : request[k] = Idle
  BY DEF Init
<1>4. \A k \in Workers : Tasked(request[k]) /\ Tells(request[k]) /\ Sends(request[k])
  BY <1>3, IdleIs DEF Tasked, Tells, Sends, Fired, Telling
<1>5. Alone
  BY <1>3, IdleIs DEF Alone, Telling
<1>6. TypeOK
  <2>1. shipment \in ShipmentStatuses /\ items \in [Items -> ItemStatuses]
    BY DEF Init, ShipmentStatuses, ItemStatuses
  <2>2. request \in [Workers -> Requests]
    BY IdleIs DEF Init
  <2>3. DOMAIN callback = Hooks /\ \A h \in Hooks : callback[h] = Idle
    BY DEF Init
  <2>4. documents \in [Documents -> {"none", "hidden", "visible"}] /\ stored \subseteq Documents
        /\ events = {} /\ delivered = {}
    BY DEF Init
  <2> QED
    BY <1>1, <1>2, <1>3, IdleIs, <2>1, <2>2, <2>3, <2>4 DEF TypeOK
<1>7. DocumentHasItsFile
  BY DEF Init, DocumentHasItsFile
<1>8. RowsOnce /\ CallbacksFind
  BY <1>1 DEF Init, RowsOnce, CallbacksFind
<1> QED
  BY <1>4, <1>5, <1>6, <1>7, <1>8 DEF Informed

LEMMA InformedStep == Informed /\ [Next]_vars => Informed'
<1> SUFFICES ASSUME Informed, [Next]_vars PROVE Informed'
  OBVIOUS
<1>1. ASSUME NEW k \in Workers, Start(k) PROVE Informed'
  BY <1>1, DeliverStep, CorrectStep, UploadStep, UpdateDocumentStep, IssuedStep, DisruptStep
     DEF Start
<1>2. ASSUME NEW k \in Workers, Step(k) PROVE Informed'
  BY <1>2, RecordStep, RollStep, WriteStep, ContentStep, AddDocumentStep, ShowDocumentStep,
     RecordEventStep, CreateRowStep, SendStep, OutcomeStep DEF Step
<1>3. ASSUME NEW k \in Workers, Restart(k) \/ Swallow(k) PROVE Informed'
  BY <1>3, CutShortStep
<1>4. ASSUME NEW n \in DOMAIN rows, MarkRead(n) PROVE Informed'
  BY <1>4, MarkReadStep
<1>5. ASSUME NEW h \in Hooks, NEW n \in DOMAIN rows, NEW st \in {"READ", "FAILED"},
             Callback(h, n, st)
      PROVE Informed'
  BY <1>5, CallbackStep
<1>6. ASSUME NEW h \in Hooks, Apply(h) PROVE Informed'
  BY <1>6, ApplyStep
<1>7. CASE UNCHANGED vars
  BY SMTT(30), <1>7 DEF Informed, TypeOK, DocumentHasItsFile, Alone, RowsOnce, CallbacksFind, Matched,
     Tasked, Tells, Untold, Sends, vars, business
<1> QED
  BY <1>1, <1>2, <1>3, <1>4, <1>5, <1>6, <1>7 DEF Next

\* Whatever requests do at a time and wherever they end, the event row lets one
\* of them tell of an occurrence, and it tells nobody twice on a channel.
\* (getOrCreateEvent, notifyCustomer, createAndDispatch.)
THEOREM InformedInvariant == Spec => []Informed
BY InformedInit, InformedStep, PTL DEF Spec

\* What the tables record happened, once: nobody is written to twice about one
\* occurrence, and no document is listed without its file.
\* (NotificationEvent's dedupe key, resolveAffectedCustomers, storeAndCreate.)
THEOREM RecordsStayTrue == Spec => []RecordsAreTrue
<1>1. Informed => RecordsAreTrue
  <2> SUFFICES ASSUME Informed PROVE RecordsAreTrue
    OBVIOUS
  <2>1. ASSUME NEW m \in DOMAIN rows, NEW n \in DOMAIN rows,
               m.key = n.key, m.to = n.to, m.channel = n.channel
        PROVE  m = n
    <3>1. m \in Ids /\ n \in Ids /\ m.copy = n.copy
      BY DEF Informed, TypeOK, RowsOnce
    <3> QED
      BY <2>1, <3>1 DEF Ids
  <2> QED
    BY <2>1 DEF Informed, RecordsAreTrue, NotifiedOnce
<1> QED
  BY <1>1, InformedInvariant, PTL

-----------------------------------------------------------------------------
\* Meta's callbacks, handled one at a time. The row that a request is sending has
\* no message id yet and the portal marks no WhatsApp row, so nothing but a
\* callback changes the row of a message that was sent.

OneHook == \A g, h \in Hooks : g = h

NotBehind(c) == c.at = "FAILED" => rows[c.row].status # "READ"
NoneBehind == \A h \in Hooks : callback[h] # Idle => NotBehind(callback[h])

OwnRowOnly ==
  \A n \in DOMAIN rows :
    n.channel = "WHATSAPP" /\ rows[n].messageId => n \in DOMAIN rows' /\ rows'[n] = rows[n]

LEMMA Callers ==
  ASSUME Informed, [Next]_vars
  PROVE  \/ UNCHANGED callback /\ OwnRowOnly
         \/ \E h \in Hooks, n \in DOMAIN rows, st \in {"READ", "FAILED"} : Callback(h, n, st)
         \/ \E h \in Hooks : Apply(h)
<1>1. ASSUME UNCHANGED rows PROVE OwnRowOnly
  BY <1>1 DEF OwnRowOnly
<1>2. ASSUME NEW k \in Workers, NEW status, NEW sent, SettleRow(k, status, sent),
             request[k].at \in {"send", "outcome"}
      PROVE  OwnRowOnly
  <2>1. request[k].row \in DOMAIN rows /\ ~rows[request[k].row].messageId
    BY <1>2 DEF Informed, Sends
  <2>2. /\ DOMAIN rows' = DOMAIN rows
        /\ \A m \in DOMAIN rows : m # request[k].row => rows'[m] = rows[m]
    BY <1>2, <2>1 DEF SettleRow, Informed, TypeOK
  <2> QED
    BY <2>1, <2>2 DEF OwnRowOnly
<1>3. ASSUME NEW k \in Workers, CreateRow(k) PROVE OwnRowOnly /\ UNCHANGED callback
  <2>1. PICK q \in Requests : q = request[k]
    BY DEF Informed, TypeOK
  <2>2. PICK id \in Ids :
          /\ id \notin DOMAIN rows
          /\ rows' = [n \in DOMAIN rows \cup {id} |-> IF n = id THEN NewRow ELSE rows[n]]
    BY <1>3, <2>1, CreatedIs
  <2>3. UNCHANGED callback
    BY <1>3 DEF CreateRow
  <2> QED
    BY <2>2, <2>3 DEF OwnRowOnly
<1>4. ASSUME NEW k \in Workers, Send(k) \/ Outcome(k) PROVE OwnRowOnly /\ UNCHANGED callback
  <2>1. CASE Send(k)
    BY <1>1, <1>2, <2>1 DEF Send, At
  <2>2. CASE Outcome(k)
    BY <1>2, <2>2 DEF Outcome, At
  <2> QED
    BY <1>4, <2>1, <2>2
<1>5. ASSUME NEW n \in DOMAIN rows, MarkRead(n) PROVE OwnRowOnly /\ UNCHANGED callback
  <2>1. /\ n.channel = "IN_APP" /\ DOMAIN rows' = DOMAIN rows /\ UNCHANGED callback
        /\ \A m \in DOMAIN rows : m # n => rows'[m] = rows[m]
    BY <1>5 DEF MarkRead, Informed, TypeOK
  <2> QED
    BY <2>1 DEF OwnRowOnly
<1>6. ASSUME NEW k \in Workers, Start(k) PROVE OwnRowOnly /\ UNCHANGED callback
  BY <1>1, <1>6 DEF Start, Deliver, PickUp, Correct, Upload, UpdateDocument, InvoiceIssued,
     Disrupt
<1>7. ASSUME NEW k \in Workers,
             \/ Record(k) \/ Roll(k) \/ Write(k) \/ Content(k) \/ AddDocument(k)
             \/ ShowDocument(k) \/ RecordEvent(k) \/ Restart(k) \/ Swallow(k)
      PROVE OwnRowOnly /\ UNCHANGED callback
  BY <1>1, <1>7 DEF Record, Roll, Write, Content, AddDocument, ShowDocument, RecordEvent,
     Restart, Swallow
<1>8. ASSUME UNCHANGED vars PROVE OwnRowOnly /\ UNCHANGED callback
  BY <1>1, <1>8 DEF vars
<1> QED
  BY <1>3, <1>4, <1>5, <1>6, <1>7, <1>8 DEF Next, Step

LEMMA NoneBehindStep ==
  ASSUME OneHook, Informed, NoneBehind, [Next]_vars
  PROVE  /\ NoneBehind'
         /\ \A n \in DOMAIN rows :
              n.channel = "WHATSAPP" /\ rows[n].status = "READ" => rows'[n].status = "READ"
<1>1. \A n \in DOMAIN rows :
        n.channel = "WHATSAPP" /\ rows[n].status = "READ" => rows[n].messageId
  BY DEF Informed, RowsOnce
<1>2. \A h \in Hooks : callback[h] # Idle => Matched(callback[h])
  BY DEF Informed, CallbacksFind
<1>3. Idle' = Idle
  BY DEF Idle
<1>4. CASE UNCHANGED callback /\ OwnRowOnly
  BY <1>1, <1>2, <1>3, <1>4 DEF NoneBehind, NotBehind, Matched, OwnRowOnly
<1>5. ASSUME NEW h \in Hooks, NEW n \in DOMAIN rows, NEW st \in {"READ", "FAILED"},
             Callback(h, n, st)
      PROVE  NoneBehind' /\ UNCHANGED rows
  <2> DEFINE c == [Idle EXCEPT !.at = st, !.row = n]
  <2>1. /\ callback' = [callback EXCEPT ![h] = c] /\ UNCHANGED rows
        /\ ~ (st = "FAILED" /\ rows[n].status = "READ")
    BY <1>5 DEF Callback, Applies
  <2>2. c.at = st /\ c.row = n
    BY DEF Idle
  <2> HIDE DEF c
  <2>3. \A g \in Hooks : callback'[g] = c
    BY <2>1 DEF OneHook, Informed, TypeOK
  <2> QED
    BY <2>1, <2>2, <2>3 DEF NoneBehind, NotBehind
<1>6. ASSUME NEW h \in Hooks, Apply(h)
      PROVE  /\ NoneBehind'
             /\ \A n \in DOMAIN rows :
                  n.channel = "WHATSAPP" /\ rows[n].status = "READ" => rows'[n].status = "READ"
  <2>1. /\ callback[h] # Idle /\ callback' = [callback EXCEPT ![h] = Idle]
        /\ rows' = [rows EXCEPT ![callback[h].row].status = callback[h].at]
    BY <1>6 DEF Apply
  <2>2. \A g \in Hooks : callback'[g] = Idle
    BY <2>1 DEF OneHook, Informed, TypeOK
  <2>3. NoneBehind'
    BY <1>3, <2>2 DEF NoneBehind
  <2>4. /\ callback[h].at \in {"READ", "FAILED"}
        /\ callback[h].at = "FAILED" => rows[callback[h].row].status # "READ"
    BY <1>2, <2>1 DEF Matched, NoneBehind, NotBehind
  <2>5. /\ \A n \in DOMAIN rows : n # callback[h].row => rows'[n] = rows[n]
        /\ callback[h].row \in DOMAIN rows =>
             rows'[callback[h].row].status = callback[h].at
    BY <2>1 DEF Informed, TypeOK
  <2> QED
    BY <2>3, <2>4, <2>5
<1> QED
  BY <1>4, <1>5, <1>6, <1>1, Callers DEF OwnRowOnly

\* A message that was read stays read, when callbacks are handled one at a time,
\* repeated and in any order, whatever else the API does meanwhile.
\* (updateWhatsAppStatusFromWebhook.)
THEOREM ReadStaysRead == ASSUME OneHook PROVE Spec => ReadIsKept
<1>1. Init => NoneBehind
  BY DEF Init, NoneBehind
<1>2. Informed /\ NoneBehind /\ [Next]_vars => NoneBehind'
  BY NoneBehindStep
<1>3. Informed /\ NoneBehind /\ [Next]_vars =>
        [\A n \in DOMAIN rows :
           n.channel = "WHATSAPP" /\ rows[n].status = "READ" => rows'[n].status = "READ"]_vars
  BY NoneBehindStep
<1>4. Spec => []Informed
  BY InformedInvariant
<1> QED
  BY <1>1, <1>2, <1>3, <1>4, PTL DEF Spec, ReadIsKept

-----------------------------------------------------------------------------
\* The final e-mails. Only a delivery leads to DELIVERED, and its record is there
\* before its rollups: an e-mail for COMPLETED that finds no record is the first,
\* and leaves a shipment no rollup takes to DELIVERED any more.

Eligible == {"ARRIVED_DESTINATION", "READY_FOR_PICKUP", "OUT_FOR_DELIVERY"}

\* Staff may set any status but DELIVERED and those the rollups go on from.
NoReopening == ManualStatuses \cap (Eligible \cup {"DELIVERED"}) = {}

Milestone(st) == About("shipment", st)

Delivering(r) == r.at \in {"write", "content"} \cup Fired /\ r.key = Milestone("DELIVERED")
Mails(r) == r.at \in Fired /\ r.key = Milestone("COMPLETED") /\ r.mail
Mailed == \E n \in DOMAIN rows : n.key = Milestone("COMPLETED") /\ n.channel = "EMAIL"

Handed(r) ==
  /\ r.at # "record" => \A i \in DOMAIN r.rolls : r.rolls[i] = "DELIVERED" => delivered # {}
  /\ Delivering(r) => delivered # {}
  /\ r.at = "write" => r.key.what \notin Eligible
  /\ r.at \in {"content"} \cup Fired /\ r.key = Milestone("COMPLETED") => shipment \notin Eligible

HandedOver ==
  /\ Milestone("DELIVERED") \in events => delivered # {}
  /\ \A k \in Workers : Handed(request[k])
Past == Milestone("COMPLETED") \in events => shipment \notin Eligible
Undelivered ==
  Milestone("DELIVERED") \notin events /\ \A k \in Workers : ~Delivering(request[k])
OnlyOne == Mailed \/ (\E k \in Workers : Mails(request[k])) => Undelivered
RowsOfOwner == \A n \in DOMAIN rows : n.key.kind = "shipment" => n.to = Owner

OneFinal == HandedOver /\ Past /\ OnlyOne /\ RowsOfOwner

LEMMA MilestonesAre ==
  /\ Milestone("DELIVERED") # Milestone("COMPLETED")
  /\ \A st : Milestone(st).kind = "shipment" /\ Milestone(st).what = st
BY DEF Milestone, About

LEMMA FinalGo ==
  ASSUME Informed, OneFinal, NEW k \in Workers, NEW r \in Requests, Go(k, r),
         delivered # {} => delivered' # {}, Handed(r)',
         shipment' \in Eligible => shipment \in Eligible,
         Delivering(r) => Delivering(request[k]) \/ shipment \in Eligible,
         Mails(r) => Mails(request[k]) \/ delivered = {},
         Milestone("DELIVERED") \in events' =>
           Milestone("DELIVERED") \in events \/ Delivering(request[k]),
         Milestone("COMPLETED") \in events' =>
           \/ Milestone("COMPLETED") \in events
           \/ request[k].at = "event" /\ request[k].key = Milestone("COMPLETED"),
         Mailed' => Mailed \/ Mails(request[k]),
         RowsOfOwner'
  PROVE  OneFinal'
<1>1. /\ request' \in [Workers -> Requests] /\ request'[k] = r
      /\ \A j \in Workers \ {k} : request'[j] = request[j]
  BY Goes
<1>2. \A j \in Workers : Handed(request[j])
  BY DEF OneFinal, HandedOver
<1>3. \A j \in Workers : Handed(request[j])'
  <2> TAKE j \in Workers
  <2>1. CASE j = k
    BY <1>1, <2>1 DEF Handed, Delivering
  <2>2. CASE j # k
    BY <1>1, <1>2, <2>2 DEF Handed, Delivering
  <2> QED
    BY <2>1, <2>2
<1>4. HandedOver'
  <2>1. Milestone("DELIVERED") \in events' => delivered # {}
    BY <1>2 DEF OneFinal, HandedOver, Handed
  <2>2. Milestone("DELIVERED")' = Milestone("DELIVERED")
    BY DEF Milestone, About
  <2> QED
    BY <1>3, <2>1, <2>2 DEF HandedOver
<1>5. Milestone("COMPLETED") \in events' => shipment \notin Eligible
  BY <1>2 DEF OneFinal, Past, Handed, Fired
<1>6. Past'
  BY <1>5 DEF Past, Milestone, About, Eligible
<1>7. ASSUME Mailed \/ (\E j \in Workers : Mails(request[j]))
      PROVE  Undelivered'
  <2>1. Undelivered
    BY <1>7 DEF OneFinal, OnlyOne
  <2>2. shipment \notin Eligible
    <3>1. CASE Mailed
      BY <3>1 DEF Mailed, Informed, TypeOK, OneFinal, Past
    <3>2. CASE \E j \in Workers : Mails(request[j])
      BY <1>2, <3>2 DEF Mails, Handed
    <3> QED
      BY <1>7, <3>1, <3>2
  <2>3. Milestone("DELIVERED") \notin events'
    BY <2>1 DEF Undelivered
  <2>4. \A j \in Workers : ~Delivering(request'[j])
    BY <1>1, <2>1, <2>2 DEF Undelivered
  <2> QED
    BY <2>3, <2>4 DEF Undelivered, Delivering, Milestone, About
<1>8. ASSUME Mails(r), delivered = {}
      PROVE  Undelivered'
  <2>1. Undelivered
    BY <1>2, <1>8 DEF OneFinal, HandedOver, Handed, Undelivered
  <2>2. ~Delivering(r)
    BY <1>8, MilestonesAre DEF Mails, Delivering
  <2>3. Milestone("DELIVERED") \notin events'
    BY <2>1 DEF Undelivered
  <2>4. \A j \in Workers : ~Delivering(request'[j])
    BY <1>1, <2>1, <2>2 DEF Undelivered
  <2> QED
    BY <2>3, <2>4 DEF Undelivered, Delivering, Milestone, About
<1>9. OnlyOne'
  <2>1. ASSUME NEW j \in Workers, Mails(request'[j]) PROVE Undelivered'
    BY <1>1, <1>7, <1>8, <2>1
  <2>2. (Mailed \/ \E j \in Workers : Mails(request[j]))' =>
          Mailed' \/ \E j \in Workers : Mails(request'[j])
    BY DEF Mails, Milestone, About
  <2> QED
    BY <1>7, <2>1, <2>2 DEF OnlyOne
<1> QED
  BY <1>4, <1>6, <1>9 DEF OneFinal

\* Such a step that changes neither the shipment nor which rows there are.
LEMMA FinalQuiet ==
  ASSUME Informed, OneFinal, NEW k \in Workers, NEW r \in Requests, Go(k, r),
         UNCHANGED <<shipment, delivered, events>>, DOMAIN rows' = DOMAIN rows,
         Handed(r),
         Delivering(r) => Delivering(request[k]) \/ shipment \in Eligible,
         Mails(r) => Mails(request[k]) \/ delivered = {}
  PROVE  OneFinal'
<1>1. Handed(r)'
  BY DEF Handed, Delivering
<1>2. Mailed' => Mailed
  BY DEF Mailed, Milestone, About
<1>3. RowsOfOwner'
  BY DEF OneFinal, RowsOfOwner
<1> QED
  BY <1>1, <1>2, <1>3, FinalGo

\* A request that has nothing to do with the final e-mails.
LEMMA FinalAside ==
  ASSUME Informed, OneFinal, NEW k \in Workers, NEW r \in Requests, Go(k, r),
         UNCHANGED <<shipment, delivered, events>>, DOMAIN rows' = DOMAIN rows,
         r.at = "record" \/ \A i \in DOMAIN r.rolls : r.rolls[i] # "DELIVERED",
         \/ r.at \notin {"write", "content"} \cup Fired
         \/ r.at = "event" /\ r.key.kind # "shipment"
  PROVE  OneFinal'
<1>1. Handed(r) /\ ~Delivering(r) /\ ~Mails(r)
  BY MilestonesAre DEF Handed, Delivering, Mails, Fired, Telling
<1> QED
  BY <1>1, FinalQuiet

\* A request that goes on with the occurrence it is at, or is done with it.
Follows(q, r) ==
  /\ r.rolls = q.rolls
  /\ \/ r.at \in {"free", "roll"}
     \/ q.at \in Fired /\ r.at \in Telling /\ r.key = q.key /\ r.mail = q.mail

LEMMA FollowsOn ==
  ASSUME NEW q, NEW r, Handed(q), q.at # "record", Follows(q, r)
  PROVE  Handed(r) /\ (Delivering(r) => Delivering(q)) /\ (Mails(r) => Mails(q))
BY DEF Follows, Handed, Delivering, Mails, Fired, Telling

LEMMA NotifyFollows ==
  ASSUME NEW q \in Requests, q.at \in Fired
  PROVE  Follows(q, NotifyCustomer(q))
<1>1. CASE q.to = <<>>
  <2>1. PICK rolls \in Rolls : rolls = q.rolls
    BY DEF Requests, Rolls
  <2> QED
    BY <1>1, <2>1, NotifyIs, ContinueIs DEF Follows
<1>2. CASE q.to # <<>>
  BY <1>2, NotifyIs DEF Follows, Telling
<1> QED
  BY <1>1, <1>2

LEMMA AfterRowFollows ==
  ASSUME NEW q \in Requests, q.at \in Fired, q.to # <<>>, NEW status
  PROVE  Follows(q, AfterRow(q, status))
<1>1. CASE q.channels # {}
  <2> DEFINE r == [q EXCEPT !.at = "create"]
  <2>1. AfterRow(q, status) = r
    BY <1>1 DEF AfterRow
  <2>2. r.at = "create" /\ r.rolls = q.rolls /\ r.key = q.key /\ r.mail = q.mail
    BY DEF Requests
  <2> QED
    BY <2>1, <2>2 DEF Follows, Telling
<1>2. CASE q.channels = {}
  <2> DEFINE to == Tail(q.to)
             rest == [q EXCEPT !.to = to]
  <2>1. to \in Seq(Customers)
    BY DEF Requests
  <2> HIDE DEF to
  <2>2. rest \in Requests /\ rest.at = q.at /\ rest.key = q.key /\ rest.mail = q.mail
        /\ rest.rolls = q.rolls
    BY <2>1 DEF Requests
  <2>3. AfterRow(q, status) = NotifyCustomer(rest)
    BY <1>2 DEF AfterRow, to
  <2> HIDE DEF rest
  <2>4. Follows(rest, NotifyCustomer(rest))
    BY <2>2, NotifyFollows
  <2> QED
    BY <2>2, <2>3, <2>4 DEF Follows
<1> QED
  BY <1>1, <1>2

LEMMA FinalContinue ==
  ASSUME Informed, OneFinal, NEW k \in Workers, NEW rolls \in Rolls, Go(k, Continue(rolls)),
         request[k].at # "record",
         \A i \in DOMAIN rolls : rolls[i] = "DELIVERED" =>
           \E j \in DOMAIN request[k].rolls : request[k].rolls[j] = "DELIVERED",
         UNCHANGED <<shipment, delivered, events>>, DOMAIN rows' = DOMAIN rows
  PROVE  OneFinal'
<1> DEFINE r == Continue(rolls)
<1>1. r \in Requests /\ r.at \in {"free", "roll"} /\ r.rolls = rolls
  BY ContinueIs
<1> HIDE DEF r
<1>2. Handed(request[k])
  BY DEF OneFinal, HandedOver
<1>3. Handed(r) /\ ~Delivering(r) /\ ~Mails(r)
  BY <1>1, <1>2 DEF Handed, Delivering, Mails, Fired, Telling
<1> QED
  BY <1>1, <1>3, FinalQuiet DEF r

-----------------------------------------------------------------------------
LEMMA FinalStart ==
  ASSUME NoReopening, Informed, OneFinal, NEW k \in Workers, Start(k)
  PROVE  OneFinal'
<1>1. ASSUME NEW i \in Items, Deliver(k, i) PROVE OneFinal'
  <2> DEFINE rolls == <<"DELIVERED", "COMPLETED">>
             key == About("delivery", i)
             r == [Idle EXCEPT !.at = "record", !.key = key, !.rolls = rolls]
  <2>1. Go(k, r) /\ UNCHANGED <<shipment, delivered, events, rows>>
    BY <1>1 DEF Deliver
  <2>2. rolls \in Rolls /\ key \in Tasks /\ "record" \in Places
    BY DEF Rolls, About, Tasks, Places
  <2> HIDE DEF rolls, key
  <2>3. r \in Requests /\ r.at = "record"
    BY <2>2, IdleIs DEF Rolls, Requests
  <2> HIDE DEF r
  <2>4. r.at \notin {"write", "content"} \cup Fired
    BY <2>3 DEF Fired, Telling
  <2> QED
    BY <2>1, <2>3, <2>4, FinalAside
<1>2. ASSUME NEW i \in Items, PickUp(k, i) PROVE OneFinal'
  <2> DEFINE rolls == <<"COMPLETED">>
             r == Continue(rolls)
  <2>1. Go(k, r) /\ UNCHANGED <<shipment, delivered, events, rows>>
    BY <1>2 DEF PickUp
  <2>2. rolls \in Rolls /\ \A j \in DOMAIN rolls : rolls[j] # "DELIVERED"
    <3>1. DOMAIN rolls = {1} /\ rolls[1] = "COMPLETED"
      OBVIOUS
    <3>2. rolls \in Rolls
      BY DEF Rolls
    <3> QED
      BY <3>1, <3>2
  <2> HIDE DEF rolls
  <2>3. r \in Requests /\ r.at \in {"free", "roll"} /\ r.rolls = rolls
    BY <2>2, ContinueIs
  <2> HIDE DEF r
  <2>4. r.at \notin {"write", "content"} \cup Fired
    BY <2>3 DEF Fired, Telling
  <2> QED
    BY <2>1, <2>2, <2>3, <2>4, FinalAside
<1>3. ASSUME NEW st \in ManualStatuses, Correct(k, st) PROVE OneFinal'
  <2> DEFINE key == Milestone(st)
             r == [Idle EXCEPT !.at = "write", !.key = key]
  <2>1. Go(k, r) /\ UNCHANGED <<shipment, delivered, events, rows>>
    BY <1>3 DEF Correct, business, Milestone
  <2>2. key \in Occurrences /\ "write" \in Places
    BY ManualAssumption DEF About, Milestone, Occurrences, Places
  <2>3. key.what = st /\ st \notin Eligible /\ st # "DELIVERED"
    BY MilestonesAre DEF NoReopening
  <2>4. key # Milestone("DELIVERED")
    BY <2>3, MilestonesAre
  <2> HIDE DEF key
  <2>5. r \in Requests /\ r.at = "write" /\ r.key = key /\ r.rolls = <<>>
    BY <2>2, IdleIs DEF Requests
  <2> HIDE DEF r
  <2>6. Handed(r) /\ ~Delivering(r) /\ ~Mails(r)
    BY <2>3, <2>4, <2>5 DEF Handed, Delivering, Mails, Fired, Telling
  <2> QED
    BY <2>1, <2>5, <2>6, FinalQuiet
<1>4. ASSUME NEW d \in Documents, NEW v \in {"hidden", "visible"}, Upload(k, d, v)
      PROVE  OneFinal'
  <2> DEFINE key == About(v, d)
             r == [Idle EXCEPT !.at = "row", !.key = key]
  <2>1. Go(k, r) /\ UNCHANGED <<shipment, delivered, events, rows>>
    BY <1>4 DEF Upload
  <2>2. key \in Tasks /\ "row" \in Places
    BY DEF About, Tasks, Places
  <2> HIDE DEF key
  <2>3. r \in Requests /\ r.at = "row" /\ r.rolls = <<>>
    BY <2>2, IdleIs DEF Requests
  <2> HIDE DEF r
  <2>4. r.at \notin {"write", "content"} \cup Fired
    BY <2>3 DEF Fired, Telling
  <2> QED
    BY <2>1, <2>3, <2>4, FinalAside
<1>5. ASSUME NEW d \in Documents, NEW v \in {"hidden", "visible"}, UpdateDocument(k, d, v)
      PROVE  OneFinal'
  <2> DEFINE key == About(v, d)
             ok == documents[d] = "hidden"
             r == [Idle EXCEPT !.at = "show", !.key = key, !.ok = ok]
  <2>1. Go(k, r) /\ UNCHANGED <<shipment, delivered, events, rows>>
    BY <1>5 DEF UpdateDocument, business
  <2>2. key \in Tasks /\ "show" \in Places /\ ok \in BOOLEAN
    BY DEF About, Tasks, Places
  <2> HIDE DEF key, ok
  <2>3. r \in Requests /\ r.at = "show" /\ r.rolls = <<>>
    BY <2>2, IdleIs DEF Requests
  <2> HIDE DEF r
  <2>4. r.at \notin {"write", "content"} \cup Fired
    BY <2>3 DEF Fired, Telling
  <2> QED
    BY <2>1, <2>3, <2>4, FinalAside
<1>6. CASE InvoiceIssued(k)
  <2> DEFINE key == About("invoice", "issued")
             r == Fire(key, <<>>)
  <2>1. Go(k, r) /\ UNCHANGED <<shipment, delivered, events, rows>>
    BY <1>6 DEF InvoiceIssued, business
  <2>2. key \in Occurrences /\ key.kind # "shipment" /\ <<>> \in Rolls
    BY DEF About, Occurrences, Rolls
  <2> HIDE DEF key
  <2>3. r \in Requests /\ r.at = "event" /\ r.key = key /\ r.rolls = <<>>
    BY <2>2, FireIs
  <2> HIDE DEF r
  <2> QED
    BY <2>1, <2>2, <2>3, FinalAside
<1>7. ASSUME NEW x \in Disruptions, Disrupt(k, x) PROVE OneFinal'
  <2> DEFINE key == About("disruption", x)
             r == FireAll(key, Affected)
  <2>1. Go(k, r) /\ UNCHANGED <<shipment, delivered, events, rows>>
    BY <1>7 DEF Disrupt, business
  <2>2. key \in Occurrences /\ key.kind # "shipment"
    BY DEF About, Occurrences
  <2> HIDE DEF key
  <2>3. r \in Requests /\ r.at = "event" /\ r.key = key /\ r.rolls = <<>>
    BY <2>2, AffectedOnce, FireAllIs
  <2> HIDE DEF r
  <2> QED
    BY <2>1, <2>2, <2>3, FinalAside
<1> QED
  BY <1>1, <1>2, <1>3, <1>4, <1>5, <1>6, <1>7 DEF Start

LEMMA FinalRecord ==
  ASSUME Informed, OneFinal, NEW k \in Workers, Record(k)
  PROVE  OneFinal'
<1>1. PICK q \in Requests : q = request[k]
  BY DEF Informed, TypeOK
<1>2. PICK rolls \in Rolls : rolls = q.rolls
  BY DEF Requests, Rolls
<1> DEFINE r == Continue(rolls)
<1>3. Go(k, r) /\ delivered' # {} /\ UNCHANGED <<shipment, events, rows>>
  BY <1>1, <1>2 DEF Record
<1>4. r \in Requests /\ r.at \in {"free", "roll"}
  BY ContinueIs
<1> HIDE DEF r
<1>5. Handed(r)' /\ ~Delivering(r) /\ ~Mails(r)
  BY <1>3, <1>4 DEF Handed, Delivering, Mails, Fired, Telling
<1>6. (Mailed' => Mailed) /\ RowsOfOwner'
  BY <1>3 DEF OneFinal, Mailed, RowsOfOwner, Milestone, About
<1> QED
  BY <1>3, <1>4, <1>5, <1>6, FinalGo

LEMMA RolledMoves ==
  ASSUME NEW roll, Rolled(roll) # shipment
  PROVE  \/ roll = "DELIVERED" /\ Rolled(roll) = "DELIVERED" /\ shipment \in Eligible
         \/ Rolled(roll) = "COMPLETED"
BY DEF Rolled, RollupDelivered, RollupCompletion, AdvanceIgnoringCancelled, Advance, Eligible

LEMMA FinalRoll ==
  ASSUME Informed, OneFinal, NEW k \in Workers, Roll(k)
  PROVE  OneFinal'
<1>1. PICK q \in Requests : q = request[k]
  BY DEF Informed, TypeOK
<1>2. /\ q.at = "roll" /\ q.rolls \in Rolls /\ q.rolls # <<>> /\ Tail(q.rolls) \in Rolls
      /\ Head(q.rolls) = q.rolls[1] /\ 1 \in DOMAIN q.rolls
      /\ \A i \in DOMAIN Tail(q.rolls) :
           i + 1 \in DOMAIN q.rolls /\ Tail(q.rolls)[i] = q.rolls[i + 1]
  <2>1. q.at = "roll" /\ q.rolls \in Rolls /\ q.rolls # <<>>
    BY <1>1 DEF Informed, Tasked, Roll, At, Requests, Rolls
  <2> QED
    BY <2>1 DEF Rolls
<1>3. Handed(q)
  BY <1>1 DEF OneFinal, HandedOver
<1> DEFINE to == Rolled(Head(q.rolls))
           key == Milestone(to)
           rolls == Tail(q.rolls)
           r == [Idle EXCEPT !.at = "write", !.key = key, !.rolls = rolls]
<1>4. Go(k, IF to = shipment THEN Continue(rolls) ELSE r)
      /\ UNCHANGED <<business, events, rows>>
  BY <1>1 DEF Roll, Milestone
<1>5. to \in ShipmentStatuses
  BY RolledIs DEF Informed, TypeOK
<1>6. key \in Occurrences /\ key.what = to /\ "write" \in Places
  BY <1>5 DEF About, Milestone, Occurrences, Places
<1>7. \A i \in DOMAIN rolls : rolls[i] = "DELIVERED" =>
        \E j \in DOMAIN q.rolls : q.rolls[j] = "DELIVERED"
  BY <1>2
<1>8. CASE to = shipment
  <2>1. PICK rs \in Rolls : rs = rolls
    BY <1>2
  <2> HIDE DEF rolls
  <2>2. Go(k, Continue(rs)) /\ UNCHANGED <<shipment, delivered, events, rows>>
    BY <1>4, <1>8, <2>1 DEF business
  <2>3. request[k].at # "record"
    BY <1>1, <1>2
  <2>4. \A i \in DOMAIN rs : rs[i] = "DELIVERED" =>
          \E j \in DOMAIN request[k].rolls : request[k].rolls[j] = "DELIVERED"
    BY <1>1, <1>7, <2>1
  <2> QED
    BY <2>2, <2>3, <2>4, FinalContinue
<1>9. CASE to # shipment
  <2>1. \/ Head(q.rolls) = "DELIVERED" /\ to = "DELIVERED" /\ shipment \in Eligible
        \/ to = "COMPLETED"
    BY <1>9, RolledMoves
  <2>2. to \notin Eligible /\ (to = "DELIVERED" => delivered # {} /\ shipment \in Eligible)
    BY <1>2, <1>3, <2>1 DEF Eligible, Handed
  <2>3. key = Milestone("DELIVERED") => to = "DELIVERED"
    BY <1>6, MilestonesAre
  <2> HIDE DEF to, key, rolls
  <2>4. r \in Requests /\ r.at = "write" /\ r.key = key /\ r.rolls = rolls
    BY <1>2, <1>6, IdleIs DEF Rolls, Requests, rolls
  <2>5. Go(k, r) /\ UNCHANGED <<shipment, delivered, events, rows>>
    BY <1>4, <1>9 DEF business
  <2> HIDE DEF r
  <2>6. \A i \in DOMAIN r.rolls : r.rolls[i] = "DELIVERED" => delivered # {}
    BY <1>2, <1>3, <1>7, <2>4 DEF Handed
  <2>7. Handed(r)
    BY <1>6, <2>2, <2>3, <2>4, <2>6 DEF Handed, Delivering, Fired, Telling
  <2>8. (Delivering(r) => shipment \in Eligible) /\ ~Mails(r)
    BY <2>2, <2>3, <2>4 DEF Delivering, Mails, Fired, Telling
  <2> QED
    BY <2>4, <2>5, <2>7, <2>8, FinalQuiet
<1> QED
  BY <1>8, <1>9

LEMMA FinalWrite ==
  ASSUME Informed, OneFinal, NEW k \in Workers, Write(k)
  PROVE  OneFinal'
<1>1. PICK q \in Requests : q = request[k]
  BY DEF Informed, TypeOK
<1>2. PICK rolls \in Rolls : rolls = q.rolls
  BY DEF Requests, Rolls
<1>3. q.at = "write" /\ q.key.what \notin Eligible /\ Handed(q)
  BY <1>1 DEF OneFinal, HandedOver, Handed, Write, At
<1> DEFINE s == [q EXCEPT !.at = "content"]
           r == IF q.key.what \in Notifiable THEN s ELSE Continue(rolls)
<1>4. /\ shipment' = q.key.what /\ Go(k, r)
      /\ UNCHANGED <<delivered, events, rows>>
  BY <1>1, <1>2 DEF Write
<1>5. s \in Requests /\ s.at = "content" /\ s.key = q.key /\ s.rolls = rolls
  BY <1>2 DEF Requests, Places, InFire
<1> HIDE DEF s
<1>6. /\ r \in Requests /\ r.rolls = rolls
      /\ r.at \in {"free", "roll"} \/ (r.at = "content" /\ r.key = q.key)
  BY <1>5, ContinueIs
<1> HIDE DEF r
<1>7. Handed(r)'
  BY <1>2, <1>3, <1>4, <1>6 DEF Handed, Delivering, Fired, Telling, Milestone, About
<1>8. (Delivering(r) => Delivering(q)) /\ ~Mails(r)
  BY <1>3, <1>6 DEF Delivering, Mails, Fired, Telling
<1>9. (Mailed' => Mailed) /\ RowsOfOwner'
  BY <1>4 DEF OneFinal, Mailed, RowsOfOwner, Milestone, About
<1>10. shipment' \notin Eligible
  BY <1>3, <1>4
<1> QED
  BY <1>1, <1>4, <1>6, <1>7, <1>8, <1>9, <1>10, FinalGo

\* The e-mail for COMPLETED is built where a record suppresses it.
LEMMA FinalContent ==
  ASSUME Informed, OneFinal, NEW k \in Workers, Content(k)
  PROVE  OneFinal'
<1>1. PICK q \in Requests : q = request[k]
  BY DEF Informed, TypeOK
<1>2. q.at = "content" /\ q.key \in Occurrences /\ q.key.kind = "shipment" /\ q.rolls \in Rolls
  BY <1>1 DEF Informed, Tasked, Content, At, Requests, Rolls
<1>3. Handed(q)
  BY <1>1 DEF OneFinal, HandedOver
<1> DEFINE f == Fire(q.key, q.rolls)
           r == [f EXCEPT !.mail = ~ Suppressed(q.key)]
<1>4. Go(k, r) /\ UNCHANGED <<shipment, delivered, events, rows>>
  BY <1>1 DEF Content, business
<1>5. f \in Requests /\ f.at = "event" /\ f.key = q.key /\ f.rolls = q.rolls
  BY <1>2, FireIs
<1> HIDE DEF f
<1>6. /\ r \in Requests /\ r.at = "event" /\ r.key = q.key /\ r.rolls = q.rolls
      /\ r.mail = ~ Suppressed(q.key)
  BY <1>5 DEF Requests
<1> HIDE DEF r
<1>7. Handed(r) /\ (Delivering(r) => Delivering(q))
  BY <1>2, <1>3, <1>6 DEF Handed, Delivering, Fired, Telling
<1>8. Mails(r) => delivered = {}
  BY <1>6, MilestonesAre DEF Mails, Suppressed
<1> QED
  BY <1>1, <1>4, <1>6, <1>7, <1>8, FinalQuiet

LEMMA FinalDocument ==
  ASSUME Informed, OneFinal, NEW k \in Workers, AddDocument(k) \/ ShowDocument(k)
  PROVE  OneFinal'
<1>1. CASE AddDocument(k)
  <2>1. Go(k, Idle) /\ UNCHANGED <<shipment, delivered, events, rows>>
    BY <1>1 DEF AddDocument
  <2>2. Idle.at \notin {"write", "content"} \cup Fired
    BY IdleIs DEF Fired, Telling
  <2> QED
    BY <2>1, <2>2, IdleIs, FinalAside
<1>2. CASE ShowDocument(k)
  <2>1. PICK q \in Requests : q = request[k]
    BY DEF Informed, TypeOK
  <2>2. q.key.what \in Documents
    <3>1. q.key \in Tasks /\ q.key.kind # "delivery"
      BY <1>2, <2>1 DEF Informed, Tasked, ShowDocument, At
    <3> QED
      BY <3>1 DEF Tasks
  <2> DEFINE key == About("document", q.key.what)
             f == Fire(key, <<>>)
             r == IF q.key.kind = "visible" /\ q.ok THEN f ELSE Idle
  <2>3. Go(k, r) /\ UNCHANGED <<shipment, delivered, events, rows>>
    BY <1>2, <2>1 DEF ShowDocument
  <2>4. key \in Occurrences /\ key.kind # "shipment" /\ <<>> \in Rolls
    BY <2>2 DEF About, Occurrences, Rolls
  <2> HIDE DEF key
  <2>5. f \in Requests /\ f.at = "event" /\ f.key = key /\ f.rolls = <<>>
    BY <2>4, FireIs
  <2> HIDE DEF f
  <2>6. /\ r \in Requests /\ r.rolls = <<>>
        /\ r.at = "free" \/ (r.at = "event" /\ r.key.kind # "shipment")
    BY <2>4, <2>5, IdleIs
  <2> HIDE DEF r
  <2>7. r.at = "free" => r.at \notin {"write", "content"} \cup Fired
    BY DEF Fired, Telling
  <2> QED
    BY <2>3, <2>6, <2>7, FinalAside
<1> QED
  BY <1>1, <1>2

LEMMA FinalEvent ==
  ASSUME Informed, OneFinal, NEW k \in Workers, RecordEvent(k)
  PROVE  OneFinal'
<1>1. PICK q \in Requests : q = request[k]
  BY DEF Informed, TypeOK
<1>2. q.at = "event" /\ q.at \in Fired /\ UNCHANGED <<business, rows>>
  BY <1>1 DEF RecordEvent, At, Fired
<1>3. Handed(q)
  BY <1>1 DEF OneFinal, HandedOver
<1>4. UNCHANGED <<shipment, delivered>>
  BY <1>2 DEF business
<1>5. CASE q.key \in events
  <2>1. PICK rolls \in Rolls : rolls = q.rolls
    BY DEF Requests, Rolls
  <2>2. Go(k, Continue(rolls)) /\ UNCHANGED events
    BY <1>1, <1>5, <2>1 DEF RecordEvent
  <2> QED
    BY <1>1, <1>2, <1>4, <2>1, <2>2, FinalContinue
<1>6. CASE q.key \notin events
  <2>1. PICK r \in Requests : r = NotifyCustomer(q)
    BY NotifyIs
  <2>2. Go(k, r) /\ events' = events \cup {q.key}
    BY <1>1, <1>6, <2>1 DEF RecordEvent
  <2>3. Follows(q, r)
    BY <1>2, <2>1, NotifyFollows
  <2>4. Handed(r) /\ (Delivering(r) => Delivering(q)) /\ (Mails(r) => Mails(q))
    BY <1>2, <1>3, <2>3, FollowsOn
  <2>5. Handed(r)'
    BY <1>4, <2>4 DEF Handed, Delivering, Milestone, About
  <2>6. (Mailed' => Mailed) /\ RowsOfOwner'
    BY <1>2 DEF OneFinal, Mailed, RowsOfOwner, Milestone, About
  <2>7. /\ Milestone("DELIVERED") \in events' =>
             Milestone("DELIVERED") \in events \/ Delivering(q)
        /\ Milestone("COMPLETED") \in events' =>
             \/ Milestone("COMPLETED") \in events
             \/ q.at = "event" /\ q.key = Milestone("COMPLETED")
    BY <1>2, <2>2 DEF Delivering
  <2> QED
    BY <1>1, <1>4, <2>2, <2>4, <2>5, <2>6, <2>7, FinalGo
<1> QED
  BY <1>5, <1>6

LEMMA FinalCreate ==
  ASSUME Informed, OneFinal, NEW k \in Workers, CreateRow(k)
  PROVE  OneFinal'
<1>1. PICK q \in Requests : q = request[k]
  BY DEF Informed, TypeOK
<1>2. q.at = "create" /\ Tasked(q) /\ Tells(q) /\ UNCHANGED <<business, events>>
  BY <1>1, CreatedIs
<1>3. PICK id \in Ids, r \in Requests :
        /\ id \notin DOMAIN rows /\ rows' = [n \in DOMAIN rows \cup {id} |->
                                             IF n = id THEN NewRow ELSE rows[n]]
        /\ id.key = q.key /\ id.to = Head(q.to) /\ id.channel \in q.channels
        /\ id.copy = 1
        /\ Go(k, r) /\ r.at = "send" /\ r.row = id
        /\ r.channels = q.channels \ {id.channel}
        /\ r.key = q.key /\ r.to = q.to /\ r.mail = q.mail /\ r.rolls = q.rolls
  BY <1>1, CreatedIs
<1>4. Handed(q)
  BY <1>1 DEF OneFinal, HandedOver
<1>5. /\ q.at \in Fired /\ q.to # <<>> /\ q.to \in Seq(Customers)
      /\ q.key.kind = "shipment" => \A i \in DOMAIN q.to : q.to[i] = Owner
      /\ "EMAIL" \in q.channels => q.mail
  <2>1. q.at \in Telling /\ q.at \in Fired /\ q.at # "event"
    BY <1>2 DEF Telling, Fired
  <2> QED
    BY <1>2, <2>1 DEF Tasked, Tells, Requests
<1>6. Follows(q, r)
  BY <1>3, <1>5 DEF Follows, Telling
<1>7. Handed(r) /\ (Delivering(r) => Delivering(q)) /\ (Mails(r) => Mails(q))
  BY <1>2, <1>4, <1>6, FollowsOn
<1>8. UNCHANGED <<shipment, delivered, events>>
  BY <1>2 DEF business
<1>9. Handed(r)'
  BY <1>7, <1>8 DEF Handed, Delivering, Milestone, About
<1>10. DOMAIN rows' = DOMAIN rows \cup {id}
  BY <1>3
<1>11. Mailed' => Mailed \/ Mails(q)
  BY <1>3, <1>5, <1>10 DEF Mailed, Mails, Milestone, About
<1>12. RowsOfOwner'
  <2>1. q.key.kind = "shipment" => Head(q.to) = Owner
    BY <1>5
  <2> QED
    BY <1>3, <1>10, <2>1 DEF OneFinal, RowsOfOwner
<1> QED
  BY <1>1, <1>3, <1>7, <1>8, <1>9, <1>11, <1>12, FinalGo

LEMMA FinalSettle ==
  ASSUME Informed, OneFinal, NEW k \in Workers, request[k].at \in {"send", "outcome"},
         NEW status, NEW sent, SettleRow(k, status, sent), UNCHANGED <<business, events>>
  PROVE  OneFinal'
<1>1. PICK q \in Requests : q = request[k]
  BY DEF Informed, TypeOK
<1>2. q.at \in Fired /\ q.at # "record" /\ q.to # <<>> /\ Handed(q)
  BY <1>1 DEF Informed, Tasked, OneFinal, HandedOver, Fired, Telling
<1>3. Follows(q, AfterRow(q, status))
  BY <1>2, AfterRowFollows
<1>4. AfterRow(q, status) \in Requests
  <2>1. Tasked(q) /\ Tells(q)
    BY <1>1 DEF Informed
  <2> DEFINE to == Tail(q.to)
             rest == [q EXCEPT !.to = to]
  <2>2. CASE q.channels # {}
    <3>1. "create" \in Places
      BY DEF Places, InFire
    <3>2. [q EXCEPT !.at = "create"] \in Requests
      BY <3>1 DEF Requests
    <3> QED
      BY <2>2, <3>2 DEF AfterRow
  <2>3. CASE q.channels = {}
    <3>1. to \in Seq(Customers)
      BY <1>2 DEF Requests
    <3> HIDE DEF to
    <3>2. rest \in Requests
      BY <3>1 DEF Requests
    <3> HIDE DEF rest
    <3>3. AfterRow(q, status) = NotifyCustomer(rest)
      BY <2>3 DEF AfterRow, rest, to
    <3> QED
      BY <3>2, <3>3, NotifyIs
  <2> QED
    BY <2>2, <2>3
<1>5. PICK r \in Requests : r = AfterRow(q, status)
  BY <1>4
<1>6. Handed(r) /\ (Delivering(r) => Delivering(q)) /\ (Mails(r) => Mails(q))
  BY <1>2, <1>3, <1>5, FollowsOn
<1>7. Go(k, r) /\ DOMAIN rows' = DOMAIN rows /\ UNCHANGED <<shipment, delivered, events>>
  BY <1>1, <1>5 DEF SettleRow, business
<1> QED
  BY <1>1, <1>6, <1>7, FinalQuiet

LEMMA FinalSend ==
  ASSUME Informed, OneFinal, NEW k \in Workers, Send(k) \/ Outcome(k)
  PROVE  OneFinal'
<1>1. PICK q \in Requests : q = request[k]
  BY DEF Informed, TypeOK
<1>2. CASE Send(k)
  <2>1. q.at = "send" /\ UNCHANGED <<business, events>>
    BY <1>1, <1>2 DEF Send, At
  <2>2. CASE SettleRow(k, "SENT", FALSE) \/ SettleRow(k, "FAILED", FALSE)
    BY <1>1, <2>1, <2>2, FinalSettle
  <2>3. CASE \E ok \in BOOLEAN :
               Go(k, [q EXCEPT !.at = "outcome", !.ok = ok]) /\ UNCHANGED rows
    <3>1. PICK ok \in BOOLEAN : Go(k, [q EXCEPT !.at = "outcome", !.ok = ok]) /\ UNCHANGED rows
      BY <2>3
    <3> DEFINE r == [q EXCEPT !.at = "outcome", !.ok = ok]
    <3>2. "outcome" \in Places
      BY DEF Places, InFire
    <3>3. /\ r \in Requests /\ r.at = "outcome" /\ r.key = q.key /\ r.mail = q.mail
          /\ r.rolls = q.rolls
      BY <3>2 DEF Requests
    <3>4. Go(k, r)
      BY <3>1
    <3> HIDE DEF r
    <3>5. Follows(q, r) /\ Handed(q)
      BY <1>1, <2>1, <3>3 DEF Follows, OneFinal, HandedOver, Fired, Telling
    <3>6. Handed(r) /\ (Delivering(r) => Delivering(q)) /\ (Mails(r) => Mails(q))
      BY <2>1, <3>5, FollowsOn
    <3> QED
      BY <1>1, <2>1, <3>1, <3>3, <3>4, <3>6, FinalQuiet DEF business
  <2> QED
    BY <1>1, <1>2, <2>2, <2>3 DEF Send
<1>3. CASE Outcome(k)
  <2> DEFINE status == IF q.ok THEN "SENT" ELSE "FAILED"
             ok == q.ok
  <2>1. /\ request[k].at \in {"send", "outcome"} /\ SettleRow(k, status, ok)
        /\ UNCHANGED <<business, events>>
    BY <1>1, <1>3 DEF Outcome, At
  <2> HIDE DEF status, ok
  <2> QED
    BY <2>1, FinalSettle
<1> QED
  BY <1>2, <1>3

LEMMA FinalCutShort ==
  ASSUME Informed, OneFinal, NEW k \in Workers, Restart(k) \/ Swallow(k)
  PROVE  OneFinal'
<1>1. CASE Restart(k)
  <2>1. Go(k, Idle) /\ UNCHANGED <<shipment, delivered, events, rows>>
    BY <1>1 DEF Restart, business
  <2>2. Idle.at \notin {"write", "content"} \cup Fired
    BY IdleIs DEF Fired, Telling
  <2> QED
    BY <2>1, <2>2, IdleIs, FinalAside
<1>2. CASE Swallow(k)
  <2>1. request[k].rolls \in Rolls
    BY DEF Informed, TypeOK, Requests, Rolls
  <2>2. PICK rolls \in Rolls : rolls = request[k].rolls
    BY <2>1
  <2>3. /\ Go(k, Continue(rolls)) /\ UNCHANGED <<shipment, delivered, events, rows>>
        /\ request[k].at # "record"
    BY <1>2, <2>2 DEF Swallow, business, InFire
  <2> QED
    BY <2>2, <2>3, FinalContinue
<1> QED
  BY <1>1, <1>2

LEMMA FinalStep ==
  ASSUME NoReopening, Informed, OneFinal, [Next]_vars
  PROVE  OneFinal'
<1>1. ASSUME UNCHANGED <<shipment, delivered, events, request>>, DOMAIN rows' = DOMAIN rows
      PROVE  OneFinal'
  BY <1>1 DEF OneFinal, HandedOver, Handed, Past, OnlyOne, Undelivered, RowsOfOwner, Mailed,
     Mails, Delivering, Milestone, About
<1>2. ASSUME NEW k \in Workers, Start(k) PROVE OneFinal'
  BY <1>2, FinalStart
<1>3. ASSUME NEW k \in Workers, Step(k) PROVE OneFinal'
  BY <1>3, FinalRecord, FinalRoll, FinalWrite, FinalContent, FinalDocument, FinalEvent,
     FinalCreate, FinalSend DEF Step
<1>4. ASSUME NEW k \in Workers, Restart(k) \/ Swallow(k) PROVE OneFinal'
  BY <1>4, FinalCutShort
<1>5. ASSUME NEW n \in DOMAIN rows, MarkRead(n) PROVE OneFinal'
  <2>1. UNCHANGED <<shipment, delivered, events, request>> /\ DOMAIN rows' = DOMAIN rows
    BY <1>5 DEF MarkRead, business
  <2> QED
    BY <1>1, <2>1
<1>6. ASSUME NEW h \in Hooks, NEW n \in DOMAIN rows, NEW st \in {"READ", "FAILED"},
             Callback(h, n, st)
      PROVE OneFinal'
  <2>1. UNCHANGED <<shipment, delivered, events, request>> /\ DOMAIN rows' = DOMAIN rows
    BY <1>6 DEF Callback, business
  <2> QED
    BY <1>1, <2>1
<1>7. ASSUME NEW h \in Hooks, Apply(h) PROVE OneFinal'
  <2>1. UNCHANGED <<shipment, delivered, events, request>> /\ DOMAIN rows' = DOMAIN rows
    BY <1>7 DEF Apply, business
  <2> QED
    BY <1>1, <2>1
<1>8. CASE UNCHANGED vars
  BY <1>1, <1>8 DEF vars, business
<1> QED
  BY <1>2, <1>3, <1>4, <1>5, <1>6, <1>7, <1>8 DEF Next

LEMMA FinalInit == Init => OneFinal
<1> SUFFICES ASSUME Init PROVE OneFinal
  OBVIOUS
<1>1. DOMAIN rows = {} /\ events = {}
  BY DEF Init, NoRows
<1>2. \A k \in Workers : request[k] = Idle
  BY DEF Init
<1>3. /\ DOMAIN Idle.rolls = {} /\ Idle.at = "free"
      /\ Idle.at \notin {"write", "content"} \cup Fired
  BY IdleIs DEF Fired, Telling
<1> QED
  BY <1>1, <1>2, <1>3 DEF OneFinal, HandedOver, Handed, Past, OnlyOne, Undelivered, RowsOfOwner,
     Mailed, Mails, Delivering

\* An e-mail that says COMPLETED is only ever sent where none says, or will say,
\* DELIVERED: deliveries leave their record before they roll the shipment up.
\* (deliverItem, buildShipmentEmailContent, maybeRollupShipmentDelivered.)
THEOREM OneFinalInvariant == ASSUME NoReopening PROVE Spec => []OneFinal
<1>1. Informed /\ OneFinal /\ [Next]_vars => OneFinal'
  BY FinalStep
<1>2. Spec => []Informed
  BY InformedInvariant
<1> QED
  BY <1>1, <1>2, FinalInit, PTL DEF Spec

\* However many deliveries, pickups and corrections of a shipment run at a time,
\* and wherever they are cut short, at most one final e-mail row is made, unless
\* staff set the shipment by hand to DELIVERED or back to where the rollups go on.
THEOREM NoSecondFinalEmailEver == ASSUME NoReopening PROVE Spec => []NoSecondFinalEmail
<1>1. Informed /\ OneFinal => NoSecondFinalEmail
  <2> SUFFICES ASSUME Informed, OneFinal PROVE NoSecondFinalEmail
    OBVIOUS
  <2>1. ASSUME NEW m \in FinalEmails, NEW n \in FinalEmails PROVE m = n
    <3>1. /\ m \in Ids /\ n \in Ids /\ m.copy = n.copy /\ m.channel = n.channel
          /\ m.key \in events /\ n.key \in events
          /\ m.key \in {Milestone("DELIVERED"), Milestone("COMPLETED")}
          /\ n.key \in {Milestone("DELIVERED"), Milestone("COMPLETED")}
      BY DEF FinalEmails, Informed, TypeOK, RowsOnce, Milestone
    <3>2. m.to = n.to
      BY <3>1, MilestonesAre DEF OneFinal, RowsOfOwner, FinalEmails
    <3>3. m.key = n.key
      <4>1. Mailed => Milestone("DELIVERED") \notin events
        BY DEF OneFinal, OnlyOne, Undelivered
      <4>2. \A x \in FinalEmails : x.key = Milestone("COMPLETED") => Mailed
        BY DEF FinalEmails, Mailed
      <4> QED
        BY <3>1, <4>1, <4>2
    <3> QED
      BY <3>1, <3>2, <3>3 DEF Ids
  <2>2. CASE FinalEmails = {}
    BY <2>2, FS_EmptySet DEF NoSecondFinalEmail
  <2>3. CASE FinalEmails # {}
    <3>1. PICK x \in FinalEmails : TRUE
      BY <2>3
    <3>2. FinalEmails = {x}
      BY <2>1, <3>1
    <3>3. Cardinality({x}) = 1
      BY FS_Singleton
    <3> QED
      BY <3>2, <3>3 DEF NoSecondFinalEmail
  <2> QED
    BY <2>2, <2>3
<1> QED
  BY <1>1, InformedInvariant, OneFinalInvariant, PTL

=============================================================================

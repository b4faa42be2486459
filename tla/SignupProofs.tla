----------------------------- MODULE SignupProofs -----------------------------
(***************************************************************************)
(* What Signup promises of every behaviour, proved for any number of       *)
(* prospects, of requests at a time, of checkouts and of prices: no        *)
(* company is made twice, and whoever is told or acknowledged has one.     *)
(***************************************************************************)
EXTENDS Signup, FiniteSetTheorems, WellFoundedInduction, TLAPS

HasTenant(p) == \E t \in tenants : t.p = p

\* What a request may still write rests on what it read: none of it is undone
\* before it writes.
Knows(r) ==
  /\ r.at # "free" => r.p \in Prospects
  /\ r.at = "stripe" => session[r.p].filled = Forms
  /\ r.promo => r.row \in DOMAIN prices
  /\ r.sub # None => r.sub \in paid /\ r.sub.p = r.p
  /\ r.at = "create" => r.slug # 0
  /\ r.at = "mark" => r.sub # None /\ HasTenant(r.p)

\* A page waits for a request of its own, never for a webhook.
OfPage(r, p) == r.at # "free" /\ r.p = p /\ r.sub = None

Waits ==
  \A p \in Prospects : page[p].awaits # None => OfPage(request[page[p].awaits], p)

\* Where a signup is said to be over, there is a company.
Real ==
  /\ \A p \in Prospects : session[p].status = "COMPLETED" => HasTenant(p)
  /\ \A t \in tenants : t.sub # None => t.p = t.sub.p
  /\ SuccessIsReal /\ AcknowledgedIsProvisioned

Counting == IsFiniteSet(checkouts) /\ IsFiniteSet(tenants)

SignedUp ==
  /\ TypeOK /\ Counting
  /\ \A k \in Workers : Knows(request[k])
  /\ Waits /\ Real /\ OneTenantPerSubscription

-----------------------------------------------------------------------------
\* generateUniqueSlug.

\* A set of naturals that is not empty has a least element.
LEMMA Least ==
  ASSUME NEW S \in SUBSET Nat, S # {}
  PROVE  \E n \in S : \A m \in S : n <= m
<1> DEFINE R == {ss \in Nat \X Nat : ss[1] < ss[2]}
<1>1. IsWellFoundedOn(R, Nat)
  BY NatLessThanWellFounded DEF OpToRel
<1>2. \A m, n \in Nat : m < n => <<m, n>> \in R
  OBVIOUS
<1> HIDE DEF R
<1>3. PICK n \in S : \A m \in S : ~ (<<m, n>> \in R)
  BY <1>1, WFMin
<1>4. ASSUME NEW m \in S PROVE n <= m
  <2>1. m \in Nat /\ n \in Nat /\ ~ (<<m, n>> \in R)
    BY <1>3
  <2>2. ~ (m < n)
    BY <1>2, <2>1
  <2> QED
    BY <2>1, <2>2
<1> QED
  BY <1>4

\* There is a free slug, and the one that is taken is not in use.
LEMMA SlugIsFree ==
  ASSUME IsFiniteSet(tenants)
  PROVE  FreeSlug \in Nat \ {0} /\ FreeSlug \notin Taken
<1> DEFINE n == Cardinality(tenants)
           fresh == (1 .. n + 1) \ Taken
<1>1. n \in Nat
  BY FS_CardinalityType
<1>2. IsFiniteSet(Taken) /\ Cardinality(Taken) <= n
  <2> DEFINE f == [t \in tenants |-> t.slug]
  <2>1. f \in Surjection(tenants, Taken)
    BY DEF Surjection, Taken
  <2> QED
    BY <2>1, FS_Surjection
<1>3. fresh # {}
  <2>1. SUFFICES ASSUME 1 .. n + 1 \subseteq Taken PROVE FALSE
    OBVIOUS
  <2>2. Cardinality(1 .. n + 1) = n + 1
    BY <1>1, FS_Interval
  <2>3. Cardinality(1 .. n + 1) <= Cardinality(Taken) /\ Cardinality(Taken) \in Nat
    BY <1>2, <2>1, FS_Subset, FS_CardinalityType
  <2> QED
    BY <1>1, <1>2, <2>2, <2>3
<1>4. PICK m \in fresh : \A j \in fresh : m <= j
  <2>1. fresh \in SUBSET Nat
    BY <1>1
  <2> QED
    BY <1>3, <2>1, Least
<1>5. m \in 1 .. n + 1 /\ m \notin Taken /\ \A j \in 1 .. m - 1 : j \in Taken
  BY <1>1, <1>4
<1> QED
  BY <1>1, <1>5 DEF FreeSlug

-----------------------------------------------------------------------------
\* What stays known: forms are not emptied, rows and payments not deleted.
Later ==
  /\ \A p \in Prospects : session[p].filled = Forms => session'[p].filled = Forms
  /\ DOMAIN prices \subseteq DOMAIN prices' /\ paid \subseteq paid' /\ tenants \subseteq tenants'

LEMMA KnownLater ==
  ASSUME Later
  PROVE  /\ \A p : HasTenant(p) => HasTenant(p)'
         /\ \A r : Knows(r) => Knows(r)'
<1>1. \A p : HasTenant(p) => HasTenant(p)'
  BY DEF Later, HasTenant
<1> QED
  BY <1>1 DEF Later, Knows, Places

LEMMA Goes ==
  ASSUME SignedUp, NEW k \in Workers, NEW r \in Requests, Go(k, r)
  PROVE  /\ request' \in [Workers -> Requests]
         /\ request'[k] = r
         /\ \A j \in Workers \ {k} : request'[j] = request[j]
BY DEF Go, SignedUp, TypeOK

LEMMA OneRequest ==
  ASSUME SignedUp, Later, NEW k \in Workers, NEW r \in Requests, Go(k, r), Knows(r)'
  PROVE  /\ request' \in [Workers -> Requests]
         /\ \A j \in Workers : Knows(request[j])'
<1>1. /\ request' \in [Workers -> Requests] /\ request'[k] = r
      /\ \A j \in Workers \ {k} : request'[j] = request[j]
  BY Goes
<1>2. \A q : Knows(q) => Knows(q)'
  BY KnownLater
<1>3. \A j \in Workers \ {k} : Knows(request[j])'
  <2> TAKE j \in Workers \ {k}
  <2>1. Knows(request[j])
    BY DEF SignedUp
  <2> QED
    BY <1>1, <1>2, <2>1 DEF Knows, HasTenant
<1>4. Knows(request[k])'
  BY <1>1 DEF Knows, HasTenant
<1> QED
  BY <1>1, <1>3, <1>4

LEMMA SentTyped ==
  ASSUME NEW a \in Places, NEW p \in Prospects
  PROVE  /\ Sent(a, p) \in Requests /\ Sent(a, p).at = a /\ Sent(a, p).p = p
         /\ Sent(a, p).sub = None /\ Sent(a, p).promo = FALSE
BY DEF Sent, Requests

LEMMA FreeSent ==
  Free \in Requests /\ Free.at = "free" /\ Free.sub = None /\ Free.promo = FALSE
BY DEF Free, Sent, Requests, Places

LEMMA FreeKnows == Knows(Free)'
BY FreeSent DEF Knows


-----------------------------------------------------------------------------
\* The pages: who waits for a request goes on waiting, or is answered by it.

LEMMA PageKept ==
  ASSUME SignedUp, NEW k \in Workers, NEW r \in Requests, Go(k, r), UNCHANGED page,
         ~At(k, "free") /\ request[k].sub = None =>
            r.at # "free" /\ r.p = request[k].p /\ r.sub = None
  PROVE  Waits'
<1>1. request'[k] = r /\ \A j \in Workers \ {k} : request'[j] = request[j]
  BY Goes
<1>2. ASSUME NEW p \in Prospects, page[p].awaits # None
      PROVE  OfPage(request'[page[p].awaits], p)
  <2>1. /\ page[p].awaits \in Workers
        /\ OfPage(request[page[p].awaits], p)
    BY <1>2 DEF SignedUp, TypeOK, Pages, Waits
  <2>2. CASE page[p].awaits = k
    BY <1>1, <2>1, <2>2 DEF At, OfPage
  <2>3. CASE page[p].awaits # k
    BY <1>1, <2>1, <2>3
  <2> QED
    BY <2>2, <2>3
<1> QED
  BY <1>2 DEF Waits, OfPage

LEMMA PageMoved ==
  ASSUME SignedUp, NEW p \in Prospects, NEW q \in Pages, page' = [page EXCEPT ![p] = q],
         q.awaits \in {page[p].awaits, None}, UNCHANGED request
  PROVE  page' \in [Prospects -> Pages] /\ Waits'
<1>1. page' \in [Prospects -> Pages] /\ \A o \in Prospects : page'[o] = IF o = p THEN q ELSE page[o]
  BY DEF SignedUp, TypeOK
<1>2. Waits'
  BY <1>1 DEF SignedUp, Waits, OfPage
<1> QED
  BY <1>1, <1>2

LEMMA PageSends ==
  ASSUME SignedUp, NEW k \in Workers, NEW r \in Requests, Go(k, r), At(k, "free"),
         r.at # "free", r.sub = None, NEW p \in Prospects, r.p = p,
         page' = [page EXCEPT ![p] = [page[p] EXCEPT !.awaits = k]]
  PROVE  /\ page' \in [Prospects -> Pages] /\ Waits'
         /\ \A o \in Prospects : page'[o].at = page[o].at
<1>1. request'[k] = r /\ \A j \in Workers \ {k} : request'[j] = request[j]
  BY Goes
<1>2. /\ page' \in [Prospects -> Pages]
      /\ \A o \in Prospects : /\ page'[o].at = page[o].at
                              /\ page'[o].awaits = IF o = p THEN k ELSE page[o].awaits
  <2>1. page \in [Prospects -> Pages]
    BY DEF SignedUp, TypeOK
  <2> DEFINE sent == [page[p] EXCEPT !.awaits = k]
  <2>2. sent \in Pages /\ sent.at = page[p].at /\ sent.awaits = k
    BY <2>1 DEF Pages
  <2>3. page' = [page EXCEPT ![p] = sent]
    OBVIOUS
  <2> HIDE DEF sent
  <2> QED
    BY <2>1, <2>2, <2>3
<1>3. ASSUME NEW o \in Prospects, page'[o].awaits # None
      PROVE  OfPage(request'[page'[o].awaits], o)
  <2>1. CASE o = p
    BY <1>1, <1>2, <2>1 DEF OfPage
  <2>2. CASE o # p
    <3>1. /\ page'[o].awaits = page[o].awaits /\ page[o].awaits \in Workers
          /\ OfPage(request[page[o].awaits], o)
      BY <1>2, <1>3, <2>2 DEF SignedUp, TypeOK, Pages, Waits
    <3>2. page[o].awaits # k
      BY <3>1 DEF At, OfPage
    <3> QED
      BY <1>1, <3>1, <3>2
  <2> QED
    BY <2>1, <2>2
<1> QED
  BY <1>2, <1>3 DEF Waits, OfPage

LEMMA PageAnswered ==
  ASSUME SignedUp, NEW k \in Workers, Go(k, Free), NEW p \in Prospects, request[k].p = p,
         NEW shown \in Pages, Answer(k, p, shown)
  PROVE  /\ page' \in [Prospects -> Pages] /\ Waits'
         /\ \A o \in Prospects : page'[o].at = page[o].at \/ (o = p /\ page'[o].at = shown.at)
<1>1. \A j \in Workers \ {k} : request'[j] = request[j]
  BY Goes, FreeSent
<1>2. page \in [Prospects -> Pages] /\ Waits /\ k # None
  BY NoneAssumption DEF SignedUp, TypeOK
<1> DEFINE s == [shown EXCEPT !.awaits = None]
<1>3. s \in Pages /\ s.awaits = None /\ s.at = shown.at
  BY DEF Pages
<1>4. ASSUME NEW o \in Prospects, o # p PROVE page[o].awaits # k
  BY <1>2, <1>4 DEF Waits, OfPage
<1>5. CASE page[p].awaits = k
  <2>1. \A o \in Prospects : page'[o] = IF o = p THEN s ELSE page[o]
    BY <1>2, <1>5 DEF Answer
  <2>2. page' = [page EXCEPT ![p] = s]
    BY <1>5 DEF Answer
  <2>3. page' \in [Prospects -> Pages]
    BY <1>2, <1>3, <2>2
  <2>4. ASSUME NEW o \in Prospects, page'[o].awaits # None
        PROVE  OfPage(request'[page'[o].awaits], o)
    <3>1. page'[o] = page[o] /\ o # p
      BY <1>3, <2>1, <2>4
    <3>2. page[o].awaits \in Workers \ {k}
      BY <1>2, <1>4, <2>4, <3>1 DEF Pages
    <3> QED
      BY <1>1, <1>2, <2>4, <3>1, <3>2 DEF Waits
  <2>5. Waits'
    BY <2>4 DEF Waits, OfPage
  <2>6. \A o \in Prospects : page'[o].at = page[o].at \/ (o = p /\ page'[o].at = shown.at)
    BY <1>3, <2>1
  <2> QED
    BY <2>3, <2>5, <2>6
<1>6. CASE page[p].awaits # k
  <2>1. UNCHANGED page
    BY <1>6 DEF Answer
  <2>2. ASSUME NEW o \in Prospects, page[o].awaits # None
        PROVE  OfPage(request'[page[o].awaits], o)
    <3>1. page[o].awaits \in Workers \ {k}
      BY <1>2, <1>4, <1>6, <2>2 DEF Pages
    <3> QED
      BY <1>1, <1>2, <2>2, <3>1 DEF Waits
  <2>3. Waits'
    BY <2>1, <2>2 DEF Waits, OfPage
  <2> QED
    BY <1>2, <2>1, <2>3
<1> QED
  BY <1>5, <1>6


-----------------------------------------------------------------------------
\* A session is written: its forms stay filled.
LEMMA SessionWritten ==
  ASSUME SignedUp, NEW p \in Prospects, NEW s \in Sessions,
         session[p].filled \subseteq s.filled, session' = [session EXCEPT ![p] = s]
  PROVE  /\ session' \in [Prospects -> Sessions]
         /\ \A q \in Prospects : /\ session'[q] = IF q = p THEN s ELSE session[q]
                                 /\ session[q].filled = Forms => session'[q].filled = Forms
<1>1. session \in [Prospects -> Sessions]
  BY DEF SignedUp, TypeOK
<1>2. s.filled \subseteq Forms
  BY DEF Sessions
<1>3. session' \in [Prospects -> Sessions]
  BY <1>1
<1>4. \A q \in Prospects : session'[q] = IF q = p THEN s ELSE session[q]
  BY <1>1
<1>5. session[p].filled = Forms => s.filled = Forms
  BY <1>2
<1> QED
  BY <1>3, <1>4, <1>5

\* A session's status is written, to one that is not COMPLETED unless it has a tenant.
LEMMA StatusWritten ==
  ASSUME SignedUp, NEW p \in Prospects, NEW st \in Statuses \ {"COMPLETED"},
         session' = [session EXCEPT ![p].status = st]
  PROVE  /\ session' \in [Prospects -> Sessions]
         /\ \A q \in Prospects : session[q].filled = Forms => session'[q].filled = Forms
         /\ \A q \in Prospects :
              session'[q].status = "COMPLETED" => session[q].status = "COMPLETED"
<1> DEFINE s == [session[p] EXCEPT !.status = st]
<1>1. session \in [Prospects -> Sessions] /\ session[p] \in Sessions
  BY DEF SignedUp, TypeOK
<1>2. s \in Sessions /\ s.filled = session[p].filled /\ s.status = st
  BY <1>1 DEF Sessions
<1>3. session' = [session EXCEPT ![p] = s]
  OBVIOUS
<1>4. session[p].filled \subseteq s.filled
  BY <1>2
<1> HIDE DEF s
<1>5. /\ session' \in [Prospects -> Sessions]
      /\ \A q \in Prospects : /\ session'[q] = IF q = p THEN s ELSE session[q]
                              /\ session[q].filled = Forms => session'[q].filled = Forms
  BY <1>2, <1>3, <1>4, SessionWritten
<1> QED
  BY <1>2, <1>5

LEMMA PriceStep ==
  ASSUME SignedUp, CreatePrice \/ DeactivatePrice
  PROVE  SignedUp'
<1>1. UNCHANGED <<session, atStripe, ledger, tenants, page, request, failures>>
  BY DEF CreatePrice, DeactivatePrice
<1>2. /\ prices' \in Seq([kind : Offers, count : Nat]) /\ active' \in 0 .. Len(prices')
      /\ DOMAIN prices \subseteq DOMAIN prices'
  <2>1. prices \in Seq([kind : Offers, count : Nat]) /\ Rows \subseteq [kind : Offers, count : Nat]
    BY DEF SignedUp, TypeOK, Rows
  <2>2. CASE CreatePrice
    <3>1. PICK r \in [kind : Offers, count : Nat] : prices' = Append(prices, r)
      BY <2>1, <2>2 DEF CreatePrice
    <3> QED
      BY <2>1, <2>2, <3>1 DEF CreatePrice
  <2>3. CASE DeactivatePrice
    BY <2>1, <2>3 DEF DeactivatePrice
  <2> QED
    BY <2>2, <2>3
<1>3. \A k \in Workers : Knows(request[k])'
  BY <1>1, <1>2 DEF SignedUp, Knows, HasTenant, atStripe
<1> QED
  BY <1>1, <1>2, <1>3 DEF SignedUp, TypeOK, Counting, Waits, OfPage, Real, HasTenant,
     SuccessIsReal, AcknowledgedIsProvisioned, OneTenantPerSubscription, atStripe

\* Steps that write only a session or a page, and no request.
LEMMA ProspectStep ==
  ASSUME SignedUp, NEW p \in Prospects,
         \/ Choose(p) \/ Fill(p) \/ Poll(p) \/ Tick(p)
         \/ CancelCheckout(p) \/ Reload(p) \/ StartOver(p)
  PROVE  SignedUp'
<1>1. UNCHANGED <<prices, active, atStripe, ledger, tenants, request, failures>>
  BY DEF Choose, Fill, Poll, Tick, CancelCheckout, Reload, StartOver
<1>2. session[p] \in Sessions /\ page[p] \in Pages /\ session \in [Prospects -> Sessions]
  BY DEF SignedUp, TypeOK
<1>3. /\ session' \in [Prospects -> Sessions]
      /\ \A q \in Prospects : session[q].filled = Forms => session'[q].filled = Forms
      /\ \A q \in Prospects : session'[q].status = "COMPLETED" => session[q].status = "COMPLETED"
  <2>1. CASE Choose(p)
    BY <2>1, StatusWritten DEF Choose, Statuses
  <2>2. CASE Fill(p)
    <3> DEFINE s == [session[p] EXCEPT !.filled = @ \cup {Asks(p)}]
    <3>1. s \in Sessions /\ session[p].filled \subseteq s.filled /\ s.status = session[p].status
      BY <1>2, <2>2 DEF Fill, Sessions
    <3>2. session' = [session EXCEPT ![p] = s]
      BY <2>2 DEF Fill
    <3> QED
      BY <3>1, <3>2, SessionWritten
  <2>3. CASE Tick(p)
    <3> DEFINE s == [session[p] EXCEPT !.late = TRUE]
    <3>1. s \in Sessions /\ s.filled = session[p].filled /\ s.status = session[p].status
      BY <1>2 DEF Sessions
    <3>2. session' = [session EXCEPT ![p] = s]
      BY <2>3 DEF Tick
    <3> QED
      BY <3>1, <3>2, SessionWritten
  <2>4. CASE UNCHANGED session
    BY <1>2, <2>4
  <2> QED
    BY <2>1, <2>2, <2>3, <2>4 DEF Poll, CancelCheckout, Reload, StartOver
<1>4. Later
  BY <1>1, <1>3 DEF Later, atStripe
<1>5. \A k \in Workers : Knows(request[k])'
  BY <1>1, <1>4, KnownLater DEF SignedUp, Knows, HasTenant
<1>6. UNCHANGED page \/ \E q \in Pages : /\ page' = [page EXCEPT ![p] = q]
                                         /\ q.awaits \in {page[p].awaits, None}
                                         /\ q.at = "done" => page[p].at = "done" \/ HasTenant(p)
  <2>1. CASE Choose(p)
    <3>1. Step(p, 2) \in Pages /\ Step(p, 2).awaits = page[p].awaits /\ Step(p, 2).at = page[p].at
      BY <1>2 DEF Step, Pages
    <3> QED
      BY <2>1, <3>1 DEF Choose
  <2>2. CASE Fill(p)
    <3> DEFINE q == Step(p, page[p].step + 1)
    <3>1. page[p].step \in {2, 3}
      <4>1. Asks(p) \in {"owner", "company"}
        BY <2>2 DEF Fill, Forms
      <4> QED
        BY <4>1 DEF Asks
    <3>2. q \in Pages /\ q.awaits = page[p].awaits /\ q.at = page[p].at
      BY <1>2, <3>1 DEF Step, Pages
    <3> QED
      BY <2>2, <3>2 DEF Fill
  <2>3. CASE Poll(p)
    <3>1. Show(p, "done") \in Pages /\ Show(p, "done").awaits = page[p].awaits
      BY <1>2 DEF Show, Pages
    <3>2. HasTenant(p)
      BY <2>3 DEF Poll, SignedUp, Real
    <3> QED
      BY <2>3, <3>1, <3>2 DEF Poll
  <2>4. CASE CancelCheckout(p) \/ StartOver(p)
    <3> DEFINE q == Show(p, "wizard")
    <3>1. q \in Pages /\ q.awaits = page[p].awaits /\ q.at = "wizard"
      BY <1>2 DEF Show, Pages
    <3> QED
      BY <2>4, <3>1 DEF CancelCheckout, StartOver
  <2>5. CASE Reload(p)
    <3> DEFINE q == [page[p] EXCEPT !.awaits = None]
    <3>1. q \in Pages /\ q.awaits = None /\ q.at = page[p].at
      BY <1>2 DEF Pages
    <3> QED
      BY <2>5, <3>1 DEF Reload
  <2>6. CASE Tick(p)
    BY <2>6 DEF Tick
  <2> QED
    BY <2>1, <2>2, <2>3, <2>4, <2>5, <2>6
<1>7. page' \in [Prospects -> Pages] /\ Waits'
  <2>1. CASE UNCHANGED page
    BY <1>1, <2>1 DEF SignedUp, TypeOK, Waits, OfPage
  <2>2. CASE ~ UNCHANGED page
    BY <1>1, <1>6, <2>2, PageMoved
  <2> QED
    BY <2>1, <2>2
<1>8. SuccessIsReal'
  <2>1. \A q \in Prospects : page'[q].at = "done" => page[q].at = "done" \/ HasTenant(q)
    BY <1>6 DEF SignedUp, TypeOK
  <2> QED
    BY <1>1, <2>1 DEF SignedUp, Real, SuccessIsReal, HasTenant
<1>9. Real'
  BY <1>1, <1>3, <1>8 DEF SignedUp, Real, HasTenant, AcknowledgedIsProvisioned
<1>10. TypeOK'
  BY <1>1, <1>3, <1>7 DEF SignedUp, TypeOK, atStripe, Checkouts
<1> QED
  BY <1>1, <1>5, <1>7, <1>9, <1>10 DEF SignedUp, Counting, OneTenantPerSubscription, atStripe


-----------------------------------------------------------------------------
\* Steps of the requests of a page, up to Stripe.

LEMMA BegunTyped ==
  ASSUME SignedUp, NEW p \in Prospects, Begun(p) # Free
  PROVE  /\ Begun(p) \in Requests /\ Knows(Begun(p)) /\ Begun(p).at # "free"
         /\ Begun(p).p = p /\ Begun(p).sub = None
<1>1. session[p].filled = Forms /\ active # 0
  BY DEF Begun
<1>2. active \in DOMAIN prices /\ active \in Nat
  BY <1>1 DEF SignedUp, TypeOK
<1>3. CASE prices[active].kind = "trial"
  <2>1. Begun(p) = Sent("provision", p)
    BY <1>1, <1>3 DEF Begun
  <2>2. /\ Sent("provision", p) \in Requests /\ Sent("provision", p).at = "provision"
        /\ Sent("provision", p).p = p /\ Sent("provision", p).sub = None
        /\ Sent("provision", p).promo = FALSE
    BY SentTyped DEF Places
  <2> QED
    BY <2>1, <2>2 DEF Knows
<1>4. CASE prices[active].kind # "trial"
  <2> DEFINE r == [at |-> "stripe", p |-> p, row |-> active,
                   promo |-> IsPromoActive(active), sub |-> None, slug |-> 0]
  <2>1. Begun(p) = r
    BY <1>1, <1>4 DEF Begun
  <2>2. IsPromoActive(active) \in BOOLEAN
    BY DEF IsPromoActive
  <2>3. r \in Requests
    BY <1>2, <2>2 DEF Requests, Places
  <2> QED
    BY <1>1, <1>2, <2>1, <2>3 DEF Knows
<1> QED
  BY <1>3, <1>4

LEMMA SubmitStep ==
  ASSUME SignedUp, NEW k \in Workers, NEW p \in Prospects, Submit(k, p)
  PROVE  SignedUp'
<1>0. Begun(p) # Free
  BY DEF Submit
<1> PICK r \in Requests : r = Begun(p)
  BY <1>0, BegunTyped
<1>1. /\ At(k, "free") /\ Go(k, r)
      /\ page' = [page EXCEPT ![p] = [page[p] EXCEPT !.awaits = k]]
      /\ UNCHANGED <<session, prices, active, atStripe, ledger, tenants, failures>>
  BY DEF Submit, Takes
<1>2. Knows(r) /\ r.at # "free" /\ r.p = p /\ r.sub = None
  BY <1>0, BegunTyped
<1>3. Later
  BY <1>1 DEF Later, atStripe
<1>4. Knows(r)'
  BY <1>2, <1>3, KnownLater
<1>5. request' \in [Workers -> Requests] /\ \A j \in Workers : Knows(request[j])'
  BY <1>1, <1>2, <1>3, <1>4, OneRequest
<1>6. /\ page' \in [Prospects -> Pages] /\ Waits'
      /\ \A o \in Prospects : page'[o].at = page[o].at
  BY <1>1, <1>2, PageSends
<1>7. Real'
  BY <1>1, <1>6 DEF SignedUp, Real, HasTenant, SuccessIsReal, AcknowledgedIsProvisioned
<1> QED
  BY <1>1, <1>5, <1>6, <1>7 DEF SignedUp, TypeOK, Counting, OneTenantPerSubscription, atStripe

LEMMA LateStep ==
  ASSUME SignedUp, NEW k \in Workers, NEW p \in Prospects, Late(k, p)
  PROVE  SignedUp'
<1>1. /\ At(k, "free")
      /\ UNCHANGED <<session, prices, active, atStripe, ledger, tenants, failures>>
  BY DEF Late, Takes
<1>2. page[p] \in Pages /\ page \in [Prospects -> Pages]
  BY DEF SignedUp, TypeOK
<1>3. Later
  BY <1>1 DEF Later, atStripe
<1>4. CASE session[p].status # "EXPIRED"
  <2> DEFINE r == Sent("expire", p)
  <2>1. /\ Go(k, r) /\ page' = [page EXCEPT ![p] = [page[p] EXCEPT !.awaits = k]]
        /\ r \in Requests /\ r.at = "expire" /\ r.p = p /\ r.sub = None /\ r.promo = FALSE
    <3>0. "expire" \in Places
      BY DEF Places
    <3>1. r \in Requests /\ r.at = "expire" /\ r.p = p /\ r.sub = None /\ r.promo = FALSE
      BY <3>0, SentTyped
    <3>2. Go(k, r)
      BY <1>4 DEF Late
    <3>3. page' = [page EXCEPT ![p] = [page[p] EXCEPT !.awaits = k]]
      BY <1>4 DEF Late
    <3> QED
      BY <3>1, <3>2, <3>3
  <2> HIDE DEF r
  <2>2. Knows(r)'
    BY <2>1 DEF Knows
  <2>3. request' \in [Workers -> Requests] /\ \A j \in Workers : Knows(request[j])'
    BY <1>3, <2>1, <2>2, OneRequest
  <2>4. /\ page' \in [Prospects -> Pages] /\ Waits'
        /\ \A o \in Prospects : page'[o].at = page[o].at
    BY <1>1, <2>1, PageSends
  <2>5. Real'
    BY <1>1, <2>4 DEF SignedUp, Real, HasTenant, SuccessIsReal, AcknowledgedIsProvisioned
  <2> QED
    BY <1>1, <2>3, <2>4, <2>5 DEF SignedUp, TypeOK, Counting, OneTenantPerSubscription, atStripe
<1>5. CASE session[p].status = "EXPIRED"
  <2> DEFINE q == IF page[p].at = "waiting" THEN Show(p, "error") ELSE page[p]
  <2>1. Go(k, Free) /\ page' = [page EXCEPT ![p] = q]
    BY <1>5 DEF Late
  <2>2. q \in Pages /\ q.awaits = page[p].awaits /\ (q.at = page[p].at \/ q.at = "error")
    BY <1>2 DEF Show, Pages
  <2>3. request' \in [Workers -> Requests] /\ \A j \in Workers : Knows(request[j])'
    BY <1>3, <2>1, FreeSent, FreeKnows, OneRequest
  <2>4. \A j \in Workers \ {k} : request'[j] = request[j]
    BY <2>1, FreeSent, Goes
  <2>5. page' \in [Prospects -> Pages] /\ \A o \in Prospects :
           /\ page'[o].awaits = page[o].awaits
           /\ page'[o].at = page[o].at \/ page'[o].at = "error"
    BY <1>2, <2>1, <2>2
  <2>6. Waits'
    <3>1. ASSUME NEW o \in Prospects, page[o].awaits # None
          PROVE  page[o].awaits \in Workers \ {k} /\ OfPage(request[page[o].awaits], o)
      BY <1>1, <1>2, <3>1 DEF SignedUp, Waits, OfPage, Pages, At
    <3> QED
      BY <2>4, <2>5, <3>1 DEF Waits, OfPage
  <2>7. Real'
    BY <1>1, <2>5 DEF SignedUp, Real, HasTenant, SuccessIsReal, AcknowledgedIsProvisioned
  <2> QED
    BY <1>1, <2>3, <2>5, <2>6, <2>7 DEF SignedUp, TypeOK, Counting, OneTenantPerSubscription, atStripe
<1> QED
  BY <1>4, <1>5

\* A session's status is written by id, and the page is answered.
LEMMA StatusStep ==
  ASSUME SignedUp, NEW k \in Workers, Expire(k) \/ Await(k)
  PROVE  SignedUp'
<1> DEFINE p == request[k].p
<1>1. /\ ~At(k, "free") /\ Go(k, Free)
      /\ UNCHANGED <<prices, active, atStripe, ledger, tenants, failures>>
  BY DEF Expire, Await, At
<1>2. p \in Prospects /\ Knows(request[k])
  BY <1>1 DEF SignedUp, Knows, At
<1>3. page[p] \in Pages
  BY <1>2 DEF SignedUp, TypeOK
<1>4. /\ session' \in [Prospects -> Sessions]
      /\ \A q \in Prospects : session[q].filled = Forms => session'[q].filled = Forms
      /\ \A q \in Prospects : session'[q].status = "COMPLETED" => session[q].status = "COMPLETED"
  BY <1>2, StatusWritten DEF Expire, Await, Statuses
<1>5. PICK shown \in Pages : Answer(k, p, shown) /\ (shown.at = "done" => page[p].at = "done")
  <2>1. /\ Show(p, "error") \in Pages /\ Show(p, "error").at = "error"
        /\ Show(p, "stripe") \in Pages /\ Show(p, "stripe").at = "stripe"
    BY <1>3 DEF Show, Pages
  <2>2. CASE Expire(k)
    BY <1>3, <2>1, <2>2 DEF Expire
  <2>3. CASE Await(k)
    BY <2>1, <2>3 DEF Await
  <2> QED
    BY <2>2, <2>3
<1>6. Later
  BY <1>1, <1>4 DEF Later, atStripe
<1>7. request' \in [Workers -> Requests] /\ \A j \in Workers : Knows(request[j])'
  BY <1>1, <1>6, FreeSent, FreeKnows, OneRequest
<1>8. /\ page' \in [Prospects -> Pages] /\ Waits'
      /\ \A o \in Prospects : page'[o].at = page[o].at \/ (o = p /\ page'[o].at = shown.at)
  BY <1>1, <1>2, <1>5, PageAnswered
<1>9. Real'
  BY <1>1, <1>4, <1>5, <1>8 DEF SignedUp, Real, HasTenant, SuccessIsReal, AcknowledgedIsProvisioned
<1>10. TypeOK'
  BY <1>1, <1>4, <1>7, <1>8 DEF SignedUp, TypeOK, atStripe, Checkouts
<1> QED
  BY <1>1, <1>7, <1>8, <1>9, <1>10 DEF SignedUp, Counting, OneTenantPerSubscription, atStripe


-----------------------------------------------------------------------------
\* Stripe and the webhook.

LEMMA OpenCheckoutStep ==
  ASSUME SignedUp, NEW k \in Workers, OpenCheckout(k)
  PROVE  SignedUp'
<1> DEFINE q == request[k]
           mine == {c \in checkouts : c.p = q.p}
           new == [p |-> q.p, n |-> Cardinality(mine), row |-> q.row, promo |-> q.promo]
           r == [q EXCEPT !.at = "await"]
<1>1. /\ At(k, "stripe") /\ Go(k, r) /\ checkouts' = checkouts \cup {new}
      /\ UNCHANGED <<session, prices, active, paid, ledger, tenants, page, failures>>
  BY DEF OpenCheckout
<1>2. q \in Requests /\ Knows(q) /\ q.p \in Prospects /\ session[q.p].filled = Forms
  BY <1>1 DEF SignedUp, TypeOK, Knows, At
<1>3. Cardinality(mine) \in Nat
  <2>1. IsFiniteSet(mine)
    BY FS_Subset DEF SignedUp, Counting
  <2> QED
    BY <2>1, FS_CardinalityType
<1>4. new \in Checkouts /\ new.p = q.p
  BY <1>2, <1>3 DEF Checkouts, Requests
<1>5. PICK s \in Requests : Go(k, s) /\ s = r
  BY <1>1, <1>2 DEF Requests, Places
<1>6. s.at = "await" /\ s.p = q.p /\ s.sub = q.sub /\ s.promo = q.promo /\ s.row = q.row
  BY <1>2, <1>5 DEF Requests
<1>7. Later
  BY <1>1 DEF Later
<1>8. Knows(s)'
  BY <1>1, <1>2, <1>6 DEF Knows, HasTenant
<1>9. request' \in [Workers -> Requests] /\ \A j \in Workers : Knows(request[j])'
  BY <1>5, <1>7, <1>8, OneRequest
<1>10. Waits'
  BY <1>1, <1>5, <1>6, PageKept
<1>11. checkouts' \subseteq Checkouts /\ \A c \in checkouts' : session'[c.p].filled = Forms
  BY <1>1, <1>2, <1>4 DEF SignedUp, TypeOK
<1>12. IsFiniteSet(checkouts')
  BY <1>1, FS_AddElement DEF SignedUp, Counting
<1>13. TypeOK'
  <2>1. paid' \subseteq checkouts'
    BY <1>1 DEF SignedUp, TypeOK
  <2> QED
    BY <1>1, <1>9, <1>11, <2>1 DEF SignedUp, TypeOK
<1> QED
  BY <1>1, <1>9, <1>10, <1>12, <1>13 DEF SignedUp, Counting, Real, HasTenant, SuccessIsReal,
     AcknowledgedIsProvisioned, OneTenantPerSubscription

\* The prospect's page goes on from Stripe to waiting for the webhook.
LEMMA PayStep ==
  ASSUME SignedUp, NEW c \in checkouts, Pay(c)
  PROVE  SignedUp'
<1> DEFINE p == c.p
           q == IF page[p].at = "stripe" THEN Show(p, "waiting") ELSE page[p]
<1>1. /\ paid' = paid \cup {c} /\ page' = [page EXCEPT ![p] = q]
      /\ UNCHANGED <<session, prices, active, checkouts, ledger, tenants, request, failures>>
  BY DEF Pay
<1>2. p \in Prospects /\ page[p] \in Pages /\ c \in checkouts
  BY DEF SignedUp, TypeOK, Checkouts
<1>3. q \in Pages /\ q.awaits = page[p].awaits /\ (q.at = page[p].at \/ q.at = "waiting")
  BY <1>2 DEF Show, Pages
<1>4. page' \in [Prospects -> Pages] /\ Waits'
  BY <1>1, <1>2, <1>3, PageMoved
<1>5. \A o \in Prospects : page'[o].at = page[o].at \/ page'[o].at = "waiting"
  BY <1>1, <1>2, <1>3 DEF SignedUp, TypeOK
<1>6. Later
  BY <1>1 DEF Later
<1>7. \A j \in Workers : Knows(request[j])'
  BY <1>1, <1>6, KnownLater DEF SignedUp, Knows, HasTenant
<1>8. TypeOK'
  <2>1. paid' \subseteq checkouts' /\ ledger' \subseteq paid'
    BY <1>1 DEF SignedUp, TypeOK
  <2>2. tenants' \subseteq [p : Prospects, slug : Nat \ {0}, sub : {None} \cup paid']
    BY <1>1 DEF SignedUp, TypeOK
  <2> QED
    BY <1>1, <1>4, <2>1, <2>2 DEF SignedUp, TypeOK
<1>9. Real'
  BY <1>1, <1>5 DEF SignedUp, Real, HasTenant, SuccessIsReal, AcknowledgedIsProvisioned
<1> QED
  BY <1>1, <1>4, <1>7, <1>8, <1>9 DEF SignedUp, Counting, OneTenantPerSubscription

LEMMA DeliverStep ==
  ASSUME SignedUp, NEW k \in Workers, NEW c \in paid, Deliver(k, c)
  PROVE  SignedUp'
<1> DEFINE q == [at |-> "provision", p |-> c.p, row |-> active,
                 promo |-> IsPromoActive(active), sub |-> c, slug |-> 0]
<1>1. /\ At(k, "free") /\ Go(k, q)
      /\ UNCHANGED <<session, prices, active, atStripe, ledger, tenants, page, failures>>
  BY DEF Deliver, Takes
<1>2. c.p \in Prospects /\ c \in Checkouts
  BY DEF SignedUp, TypeOK, Checkouts
<1>3. active \in Nat /\ (active # 0 => active \in DOMAIN prices)
  BY DEF SignedUp, TypeOK
<1>4. IsPromoActive(active) \in BOOLEAN /\ (IsPromoActive(active) => active # 0)
  BY DEF IsPromoActive
<1>5. PICK r \in Requests : r = q
  BY <1>2, <1>3, <1>4 DEF Requests, Places
<1>6. Knows(r)
  BY <1>2, <1>3, <1>4, <1>5 DEF Knows
<1>7. Later
  BY <1>1 DEF Later, atStripe
<1>8. Knows(r)'
  BY <1>6, <1>7, KnownLater
<1>9. request' \in [Workers -> Requests] /\ \A j \in Workers : Knows(request[j])'
  BY <1>1, <1>5, <1>7, <1>8, OneRequest
<1>10. Waits'
  BY <1>1, <1>5, PageKept
<1>11. TypeOK'
  BY <1>1, <1>9 DEF SignedUp, TypeOK, atStripe
<1> QED
  BY <1>1, <1>9, <1>10, <1>11 DEF SignedUp, Counting, Real, HasTenant, SuccessIsReal,
     AcknowledgedIsProvisioned, OneTenantPerSubscription, atStripe

LEMMA MarkStep ==
  ASSUME SignedUp, NEW k \in Workers, Mark(k)
  PROVE  SignedUp'
<1> DEFINE q == request[k]
<1>1. /\ At(k, "mark") /\ Go(k, Free) /\ ledger' = ledger \cup {q.sub}
      /\ UNCHANGED <<session, prices, active, atStripe, tenants, page, failures>>
  BY DEF Mark
<1>2. q.sub \in paid /\ q.sub # None /\ HasTenant(q.sub.p)
  BY <1>1 DEF SignedUp, Knows, At
<1>3. Later
  BY <1>1 DEF Later, atStripe
<1>4. request' \in [Workers -> Requests] /\ \A j \in Workers : Knows(request[j])'
  BY <1>1, <1>3, FreeSent, FreeKnows, OneRequest
<1>5. Waits'
  BY <1>1, <1>2, FreeSent, PageKept
<1>6. TypeOK'
  BY <1>1, <1>2, <1>4 DEF SignedUp, TypeOK, atStripe
<1>7. AcknowledgedIsProvisioned'
  BY <1>1, <1>2 DEF SignedUp, Real, HasTenant, AcknowledgedIsProvisioned
<1> QED
  BY <1>1, <1>4, <1>5, <1>6, <1>7 DEF SignedUp, Counting, Real, HasTenant, SuccessIsReal,
     OneTenantPerSubscription, atStripe


-----------------------------------------------------------------------------
\* Provisioning.

\* The request has a tenant to show for it, and ends or goes on to mark.
LEMMA ProvisionedEnds ==
  ASSUME SignedUp, Later, NEW k \in Workers, ~At(k, "free"), Provisioned(k),
         \E t \in tenants' : t.p = request[k].p
  PROVE  /\ request' \in [Workers -> Requests] /\ \A j \in Workers : Knows(request[j])'
         /\ page' \in [Prospects -> Pages] /\ Waits'
         /\ \A o \in Prospects : page'[o].at = "done" => page[o].at = "done"
<1> DEFINE q == request[k]
<1>1. q \in Requests /\ Knows(q) /\ q.p \in Prospects
  BY DEF SignedUp, TypeOK, Knows, At
<1>2. CASE q.sub # None
  <2>1. PICK r \in Requests : Go(k, r) /\ r = [q EXCEPT !.at = "mark"] /\ UNCHANGED page
    BY <1>1, <1>2 DEF Provisioned, Requests, Places
  <2>2. r.at = "mark" /\ r.p = q.p /\ r.sub = q.sub /\ r.promo = q.promo /\ r.row = q.row
    BY <1>1, <2>1 DEF Requests
  <2>3. Knows(r)'
    BY <1>1, <1>2, <2>2 DEF Knows, HasTenant, Later
  <2>4. request' \in [Workers -> Requests] /\ \A j \in Workers : Knows(request[j])'
    BY <2>1, <2>3, OneRequest
  <2>5. Waits'
    BY <1>2, <2>1, PageKept
  <2> QED
    BY <2>1, <2>4, <2>5 DEF SignedUp, TypeOK
<1>3. CASE q.sub = None
  <2>1. Go(k, Free) /\ Answer(k, q.p, Show(q.p, "waiting"))
    BY <1>3 DEF Provisioned
  <2>2. PICK shown \in Pages : Answer(k, q.p, shown) /\ shown.at = "waiting"
    <3>1. page[q.p] \in Pages
      BY <1>1 DEF SignedUp, TypeOK
    <3>2. Show(q.p, "waiting") \in Pages /\ Show(q.p, "waiting").at = "waiting"
      BY <3>1 DEF Show, Pages
    <3> QED
      BY <2>1, <3>2
  <2>3. request' \in [Workers -> Requests] /\ \A j \in Workers : Knows(request[j])'
    BY <2>1, FreeSent, FreeKnows, OneRequest
  <2>4. /\ page' \in [Prospects -> Pages] /\ Waits'
        /\ \A o \in Prospects : page'[o].at = page[o].at \/ (o = q.p /\ page'[o].at = shown.at)
    BY <1>1, <2>1, <2>2, PageAnswered
  <2> QED
    BY <2>2, <2>3, <2>4
<1> QED
  BY <1>2, <1>3

\* The request ends with nothing shown that was not before.
LEMMA RefusedEnds ==
  ASSUME SignedUp, Later, NEW k \in Workers, ~At(k, "free"), Refused(k)
  PROVE  /\ request' \in [Workers -> Requests] /\ \A j \in Workers : Knows(request[j])'
         /\ page' \in [Prospects -> Pages] /\ Waits'
         /\ \A o \in Prospects : page'[o].at = "done" => page[o].at = "done"
<1> DEFINE p == request[k].p
<1>1. p \in Prospects /\ Go(k, Free) /\ Answer(k, p, page[p])
  BY DEF SignedUp, Knows, At, Refused
<1>2. PICK shown \in Pages : shown = page[p]
  BY <1>1 DEF SignedUp, TypeOK
<1>3. request' \in [Workers -> Requests] /\ \A j \in Workers : Knows(request[j])'
  BY <1>1, FreeSent, FreeKnows, OneRequest
<1>4. /\ page' \in [Prospects -> Pages] /\ Waits'
      /\ \A o \in Prospects : page'[o].at = page[o].at \/ (o = p /\ page'[o].at = shown.at)
  BY <1>1, <1>2, PageAnswered
<1> QED
  BY <1>2, <1>3, <1>4

LEMMA ProvisionStep ==
  ASSUME SignedUp, NEW k \in Workers, Provision(k)
  PROVE  SignedUp'
<1> DEFINE q == request[k]
<1>1. /\ At(k, "provision") /\ ~At(k, "free")
      /\ UNCHANGED <<session, prices, active, atStripe, ledger, tenants, failures>>
  BY DEF Provision, At
<1>2. q \in Requests /\ Knows(q)
  BY DEF SignedUp, TypeOK
<1>3. Later
  BY <1>1 DEF Later, atStripe
<1>4. /\ request' \in [Workers -> Requests] /\ \A j \in Workers : Knows(request[j])'
      /\ page' \in [Prospects -> Pages] /\ Waits'
      /\ \A o \in Prospects : page'[o].at = "done" => page[o].at = "done"
  <2>1. CASE Already(q.p, q.sub)
    <3>1. HasTenant(q.p)
      <4>1. CASE session[q.p].status = "COMPLETED"
        BY <1>1, <1>2, <4>1 DEF SignedUp, Real, Knows, At
      <4>2. CASE q.sub # None /\ \E t \in tenants : t.sub = q.sub
        BY <1>2, <4>2 DEF SignedUp, Real, Knows, HasTenant
      <4> QED
        BY <2>1, <4>1, <4>2 DEF Already
    <3>2. \E t \in tenants' : t.p = q.p
      BY <1>1, <3>1 DEF HasTenant
    <3> QED
      BY <1>1, <1>3, <2>1, <3>2, ProvisionedEnds DEF Provision
  <2>2. CASE ~Already(q.p, q.sub)
    <3>1. PICK r \in Requests : Go(k, r) /\ r = [q EXCEPT !.at = "slug"] /\ UNCHANGED page
      BY <1>2, <2>2 DEF Provision, Requests, Places
    <3>2. r.at = "slug" /\ r.p = q.p /\ r.sub = q.sub /\ r.promo = q.promo /\ r.row = q.row
      BY <1>2, <3>1 DEF Requests
    <3>3. Knows(r)'
      BY <1>1, <1>2, <1>3, <3>2 DEF Knows, Later, At
    <3>4. request' \in [Workers -> Requests] /\ \A j \in Workers : Knows(request[j])'
      BY <1>3, <3>1, <3>3, OneRequest
    <3>5. Waits'
      BY <3>1, <3>2, PageKept
    <3> QED
      BY <3>1, <3>4, <3>5 DEF SignedUp, TypeOK
  <2> QED
    BY <2>1, <2>2
<1>5. Real'
  BY <1>1, <1>4 DEF SignedUp, Real, HasTenant, SuccessIsReal, AcknowledgedIsProvisioned
<1> QED
  BY <1>1, <1>4, <1>5 DEF SignedUp, TypeOK, Counting, OneTenantPerSubscription, atStripe

LEMMA FindSlugStep ==
  ASSUME SignedUp, NEW k \in Workers, FindSlug(k)
  PROVE  SignedUp'
<1> DEFINE q == request[k]
<1>1. /\ At(k, "slug") /\ ~At(k, "free")
      /\ Go(k, [q EXCEPT !.at = "create", !.slug = FreeSlug])
      /\ UNCHANGED <<session, prices, active, atStripe, ledger, tenants, page, failures>>
  BY DEF FindSlug, At
<1>2. q \in Requests /\ Knows(q) /\ FreeSlug \in Nat \ {0}
  BY SlugIsFree DEF SignedUp, TypeOK, Counting
<1>3. Later
  BY <1>1 DEF Later, atStripe
<1>4. PICK r \in Requests : r = [q EXCEPT !.at = "create", !.slug = FreeSlug]
  BY <1>2 DEF Requests, Places
<1>5. /\ r.at = "create" /\ r.p = q.p /\ r.sub = q.sub /\ r.promo = q.promo /\ r.row = q.row
      /\ r.slug # 0
  BY <1>2, <1>4 DEF Requests
<1>6. Knows(r)'
  BY <1>1, <1>2, <1>3, <1>5 DEF Knows, Later, At
<1>7. request' \in [Workers -> Requests] /\ \A j \in Workers : Knows(request[j])'
  BY <1>1, <1>3, <1>4, <1>6, OneRequest
<1>8. Waits'
  BY <1>1, <1>4, <1>5, PageKept
<1> QED
  BY <1>1, <1>7, <1>8 DEF SignedUp, TypeOK, Counting, Real, HasTenant, SuccessIsReal,
     AcknowledgedIsProvisioned, OneTenantPerSubscription, atStripe

LEMMA FailStep ==
  ASSUME SignedUp, NEW k \in Workers, Fail(k)
  PROVE  SignedUp'
<1>1. /\ ~At(k, "free") /\ Refused(k) /\ failures' \in 0 .. MaxFailures
      /\ UNCHANGED <<session, prices, active, atStripe, ledger, tenants>>
  BY BoundsAssumption DEF Fail, SignedUp, TypeOK
<1>2. Later
  BY <1>1 DEF Later, atStripe
<1>3. /\ request' \in [Workers -> Requests] /\ \A j \in Workers : Knows(request[j])'
      /\ page' \in [Prospects -> Pages] /\ Waits'
      /\ \A o \in Prospects : page'[o].at = "done" => page[o].at = "done"
  BY <1>1, <1>2, RefusedEnds
<1>4. Real'
  BY <1>1, <1>3 DEF SignedUp, Real, HasTenant, SuccessIsReal, AcknowledgedIsProvisioned
<1> QED
  BY <1>1, <1>3, <1>4 DEF SignedUp, TypeOK, Counting, OneTenantPerSubscription, atStripe


LEMMA RowOf ==
  ASSUME NEW S, NEW s \in Seq(S), NEW i \in DOMAIN s
  PROVE  s[i] \in S
OBVIOUS

LEMMA CreateStep ==
  ASSUME SignedUp, NEW k \in Workers, Create(k)
  PROVE  SignedUp'
<1> DEFINE q == request[k]
           t == [p |-> q.p, slug |-> q.slug, sub |-> q.sub]
<1>1. /\ At(k, "create") /\ ~At(k, "free") /\ UNCHANGED <<active, atStripe, ledger, failures>>
  BY DEF Create, At
<1>2. /\ q \in Requests /\ Knows(q) /\ q.p \in Prospects /\ q.slug \in Nat \ {0}
      /\ q.sub # None => q.sub \in paid /\ q.sub.p = q.p
      /\ q.promo => q.row \in DOMAIN prices
  BY <1>1 DEF SignedUp, TypeOK, Knows, At, Requests
<1>3. CASE ~Unique(q)
  <2>1. Refused(k) /\ UNCHANGED <<session, prices, tenants>>
    BY <1>3 DEF Create
  <2>2. Later
    BY <1>1, <2>1 DEF Later, atStripe
  <2>3. /\ request' \in [Workers -> Requests] /\ \A j \in Workers : Knows(request[j])'
        /\ page' \in [Prospects -> Pages] /\ Waits'
        /\ \A o \in Prospects : page'[o].at = "done" => page[o].at = "done"
    BY <1>1, <2>1, <2>2, RefusedEnds
  <2>4. Real'
    BY <1>1, <2>1, <2>3 DEF SignedUp, Real, HasTenant, SuccessIsReal, AcknowledgedIsProvisioned
  <2> QED
    BY <1>1, <2>1, <2>3, <2>4 DEF SignedUp, TypeOK, Counting, OneTenantPerSubscription, atStripe
<1>4. CASE Unique(q)
  <2>1. /\ tenants' = tenants \cup {t} /\ prices' = Counted(q)
        /\ session' = Completed(q) /\ Provisioned(k)
    BY <1>4 DEF Create
  <2>2. /\ prices' \in Seq([kind : Offers, count : Nat]) /\ DOMAIN prices' = DOMAIN prices
        /\ Len(prices') = Len(prices)
    <3>1. prices \in Seq([kind : Offers, count : Nat])
      BY DEF SignedUp, TypeOK
    <3>2. CASE q.promo
      <4> DEFINE v == [prices[q.row] EXCEPT !.count = @ + 1]
      <4>1. v \in [kind : Offers, count : Nat] /\ q.row \in DOMAIN prices
        <5>1. q.row \in DOMAIN prices
          BY <1>2, <3>2, Zenon
        <5>2. prices[q.row] \in [kind : Offers, count : Nat]
          BY <3>1, <5>1, RowOf
        <5> QED
          BY <5>1, <5>2
      <4>2. prices' = [prices EXCEPT ![q.row] = v]
        BY <2>1, <3>2 DEF Counted
      <4> QED
        BY <3>1, <4>1, <4>2
    <3>3. CASE ~q.promo
      BY <2>1, <3>1, <3>3 DEF Counted
    <3> QED
      BY <3>2, <3>3
  <2> DEFINE s == [session[q.p] EXCEPT !.status = "COMPLETED", !.tenant = q.slug]
  <2>3. s \in Sessions /\ s.filled = session[q.p].filled
    <3>1. session[q.p] \in Sessions
      BY <1>2 DEF SignedUp, TypeOK
    <3> QED
      BY <1>2, <3>1 DEF Sessions, Statuses
  <2>4. session' = [session EXCEPT ![q.p] = s]
    BY <1>2, <2>1 DEF Completed, SignedUp, TypeOK
  <2>5. /\ session' \in [Prospects -> Sessions]
        /\ \A p \in Prospects : /\ p # q.p => session'[p] = session[p]
                                /\ session[p].filled = Forms => session'[p].filled = Forms
    <3>1. session[q.p].filled \subseteq s.filled
      BY <2>3
    <3> HIDE DEF s
    <3> QED
      BY <1>2, <2>3, <2>4, <3>1, SessionWritten
  <2>6. t \in tenants' /\ t.p = q.p /\ t.sub = q.sub /\ t.slug = q.slug
    BY <2>1
  <2>7. Later
    BY <1>1, <2>1, <2>2, <2>5 DEF Later, atStripe
  <2>8. /\ request' \in [Workers -> Requests] /\ \A j \in Workers : Knows(request[j])'
        /\ page' \in [Prospects -> Pages] /\ Waits'
        /\ \A o \in Prospects : page'[o].at = "done" => page[o].at = "done"
    BY <1>1, <2>1, <2>6, <2>7, ProvisionedEnds
  <2>9. tenants' \subseteq [p : Prospects, slug : Nat \ {0}, sub : {None} \cup paid']
    BY <1>1, <1>2, <2>1 DEF SignedUp, TypeOK, atStripe
  <2>10. TypeOK'
    BY <1>1, <2>2, <2>5, <2>8, <2>9 DEF SignedUp, TypeOK, atStripe, Checkouts
  <2>11. Counting'
    BY <1>1, <2>1, FS_AddElement DEF SignedUp, Counting, atStripe
  <2>12. Real'
    <3>1. \A p \in Prospects : session'[p].status = "COMPLETED" => \E u \in tenants' : u.p = p
      BY <2>1, <2>5, <2>6 DEF SignedUp, Real, HasTenant
    <3>2. \A u \in tenants' : u.sub # None => u.p = u.sub.p
      BY <1>2, <2>1, <2>6 DEF SignedUp, Real
    <3> QED
      BY <1>1, <2>1, <2>8, <3>1, <3>2
         DEF SignedUp, Real, HasTenant, SuccessIsReal, AcknowledgedIsProvisioned
  <2>13. OneTenantPerSubscription'
    <3>1. \A u \in tenants : u.slug # t.slug /\ (t.sub # None => u.sub # t.sub)
      BY <1>4, <2>6 DEF Unique, Taken
    <3> HIDE DEF t
    <3> QED
      BY <2>1, <3>1 DEF SignedUp, OneTenantPerSubscription
  <2> QED
    BY <2>8, <2>10, <2>11, <2>12, <2>13 DEF SignedUp
<1> QED
  BY <1>3, <1>4

-----------------------------------------------------------------------------
LEMMA SignedUpInit == Init => SignedUp
<1> SUFFICES ASSUME Init PROVE SignedUp
  OBVIOUS
<1>1. session \in [Prospects -> Sessions] /\ page \in [Prospects -> Pages]
  BY DEF Init, Sessions, Statuses, Pages
<1>2. request \in [Workers -> Requests] /\ \A k \in Workers : Knows(request[k])
  BY FreeSent DEF Init, Knows
<1>3. TypeOK
  <2>1. prices \in Seq([kind : Offers, count : Nat]) /\ active \in 0 .. Len(prices)
    BY DEF Init
  <2>2. failures \in 0 .. MaxFailures
    BY BoundsAssumption DEF Init
  <2> QED
    BY <1>1, <1>2, <2>1, <2>2 DEF Init, TypeOK
<1>4. Counting
  BY FS_EmptySet DEF Init, Counting
<1> QED
  BY <1>2, <1>3, <1>4 DEF Init, SignedUp, Waits, Real, SuccessIsReal, AcknowledgedIsProvisioned,
     OneTenantPerSubscription

LEMMA SignedUpStep == SignedUp /\ [Next]_vars => SignedUp'
<1> SUFFICES ASSUME SignedUp, [Next]_vars PROVE SignedUp'
  OBVIOUS
<1>1. CASE UNCHANGED vars
  <2>1. TypeOK' /\ Counting' /\ Waits'
    BY <1>1 DEF SignedUp, TypeOK, Counting, Waits, OfPage, vars, atStripe
  <2>2. \A k \in Workers : Knows(request[k])'
    BY <1>1 DEF SignedUp, Knows, HasTenant, vars, atStripe
  <2>3. Real' /\ OneTenantPerSubscription'
    BY <1>1 DEF SignedUp, Real, HasTenant, SuccessIsReal, AcknowledgedIsProvisioned,
       OneTenantPerSubscription, vars, atStripe
  <2> QED
    BY <2>1, <2>2, <2>3 DEF SignedUp
<1>2. ASSUME NEW k \in Workers, Working(k) \/ Fail(k) PROVE SignedUp'
  BY <1>2, StatusStep, OpenCheckoutStep, ProvisionStep, FindSlugStep, CreateStep, MarkStep,
     FailStep DEF Working
<1>3. ASSUME NEW k \in Workers, NEW p \in Prospects, Submit(k, p) \/ Late(k, p) PROVE SignedUp'
  BY <1>3, SubmitStep, LateStep
<1>4. ASSUME NEW k \in Workers, NEW c \in paid, Deliver(k, c) PROVE SignedUp'
  BY <1>4, DeliverStep
<1>5. ASSUME NEW c \in checkouts, Pay(c) PROVE SignedUp'
  BY <1>5, PayStep
<1>6. ASSUME NEW p \in Prospects,
             \/ Choose(p) \/ Fill(p) \/ Poll(p) \/ Tick(p)
             \/ CancelCheckout(p) \/ Reload(p) \/ StartOver(p)
      PROVE  SignedUp'
  BY <1>6, ProspectStep
<1> QED
  BY <1>1, <1>2, <1>3, <1>4, <1>5, <1>6, PriceStep DEF Next

\* Whatever a request of a signup has read still holds when it writes: who is
\* about to be marked completed has a company, a page only waits for a request of
\* its own, and a session, a ledger entry or a page that says a signup is over
\* speaks of a company that is there. (provisionFromSignupSession, markProcessed.)
THEOREM SignupInvariant == Spec => []SignedUp
BY SignedUpInit, SignedUpStep, PTL DEF Spec

\* However often and however concurrently Stripe delivers an event and a trial
\* is started, a subscription gets one tenant and no slug is used twice
\* (TenantProvisioningService.provisionFromSignupSession).
THEOREM NoCompanyTwice == Spec => []ProvisionedOnce
<1>1. SignedUp => ProvisionedOnce
  BY DEF SignedUp, ProvisionedOnce, Awaited, Waits, OfPage
<1> QED
  BY <1>1, SignupInvariant, PTL

\* The success page and the acknowledgement of an event speak only of a signup
\* that has a company (getStatus, handleStripeWebhook, markProcessed).
THEOREM NeverSaidInVain == Spec => []NothingSaidInVain
<1>1. SignedUp => NothingSaidInVain
  BY DEF SignedUp, Real, NothingSaidInVain
<1> QED
  BY <1>1, SignupInvariant, PTL

=============================================================================

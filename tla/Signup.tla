-------------------------------- MODULE Signup --------------------------------
(***************************************************************************)
(* How a company becomes a tenant: the signup wizard in the prospect's     *)
(* browser, the SignupSession behind it, the Stripe checkout or the free   *)
(* trial, the webhook that provisions the tenant (TenantProvisioning-      *)
(* Service), and the plan's price with its capped promotion.               *)
(*                                                                         *)
(* A worker is one HTTP request. It reads, and writes in a later step what *)
(* follows from what it read; the transaction that creates a tenant is one *)
(* step, and fails whole when a unique column (tenant slug, Stripe         *)
(* subscription) is taken. A restart ends a request between steps.         *)
(*                                                                         *)
(* There is one plan, and every prospect gives the same company name: the  *)
(* one case in which two provisionings meet. A prospect has one session.   *)
(* Left out: the contents of the forms, entitlement and onboarding rows    *)
(* (created with the tenant), the welcome e-mail.                          *)
(***************************************************************************)
EXTENDS Integers, FiniteSets, Sequences

CONSTANTS
  Prospects,     \* a prospect, its browser and its signup session
  Workers,
  None,          \* null
  Slow,          \* bound: the prospects who may turn back, reload or run out of time
  Offers,        \* what a price row may offer: "standard", "promo", "trial"
  PromoMax,      \* promoMaxRedemptions
  MaxCheckouts,  \* bound: Stripe checkouts opened for one session
  MaxPrices,     \* bound: price rows
  MaxFailures    \* bound: requests cut short

ASSUME WorkersAssumption == Workers = 1 .. Cardinality(Workers)
ASSUME NoneAssumption == None \notin Workers \cup Prospects \cup Nat
ASSUME OffersAssumption == Offers \subseteq {"standard", "promo", "trial"}
ASSUME BoundsAssumption ==
  {PromoMax, MaxCheckouts, MaxPrices, MaxFailures} \subseteq Nat

VARIABLES
  session,    \* prospect -> status, past its time, forms filled, resultingTenant
  prices,     \* the plan's price rows: what they offer, redemptions
  active,     \* the row that is active, or 0
  checkouts,  \* Stripe checkout sessions, with the price they charge
  paid,       \* those paid: Stripe emits checkout.session.completed for them
  ledger,     \* those whose event is marked processed
  tenants,    \* with slug and Stripe subscription (None: trial)
  page,       \* prospect -> what its browser shows and which request it awaits
  request,    \* worker -> what it still has to do, with the values it read
  failures

atStripe == <<checkouts, paid>>
vars == <<session, prices, active, atStripe, ledger, tenants, page, request, failures>>

Forms == {"owner", "company"}
Statuses == {"NONE", "DRAFT", "AWAITING_PAYMENT", "COMPLETED", "EXPIRED"}

\* A request of a prospect; the webhook's and the paid checkout's carry more.
Sent(at, p) == [at |-> at, p |-> p, row |-> 0, promo |-> FALSE, sub |-> None, slug |-> 0]
Free == Sent("free", None)

Rows == [kind : Offers, count : {0}]

Init ==
  /\ session = [p \in Prospects |->
                  [status |-> "NONE", late |-> FALSE, filled |-> {}, tenant |-> None]]
  /\ prices = <<>> /\ active = 0
  /\ checkouts = {} /\ paid = {} /\ ledger = {} /\ tenants = {}
  /\ page = [p \in Prospects |-> [at |-> "wizard", step |-> 1, awaits |-> None]]
  /\ request = [k \in Workers |-> Free]
  /\ failures = 0

At(k, place) == request[k].at = place
\* Workers are alike: a request goes to the first that is free.
Takes(k) == At(k, "free") /\ \A j \in 1 .. k - 1 : ~At(j, "free")
Go(k, next) == request' = [request EXCEPT ![k] = next]

\* The answer to request k reaches the page that still waits for it.
Answer(k, p, shown) ==
  page' = IF page[p].awaits = k
          THEN [page EXCEPT ![p] = [shown EXCEPT !.awaits = None]] ELSE page
Show(p, place) == [page[p] EXCEPT !.at = place]
Step(p, n) == [page[p] EXCEPT !.step = n]

-----------------------------------------------------------------------------
\* Prices. A row is never changed but for its count; createPrice deactivates
\* the others in its transaction. Bound: only the last row is deactivated by itself.

CreatePrice ==
  /\ Len(prices) < MaxPrices
  /\ \E r \in Rows : prices' = Append(prices, r)
  /\ active' = Len(prices) + 1
  /\ UNCHANGED <<session, atStripe, ledger, tenants, page, request, failures>>

DeactivatePrice ==
  /\ Len(prices) = MaxPrices /\ active # 0
  /\ active' = 0
  /\ UNCHANGED <<session, prices, atStripe, ledger, tenants, page, request, failures>>

IsPromoActive(i) == i # 0 /\ prices[i].kind = "promo" /\ prices[i].count < PromoMax

-----------------------------------------------------------------------------
\* The wizard's calls. Each starts with findByToken: a session past its time
\* and not COMPLETED is EXPIRED to the caller, and written so in a second step.

Over(p) == session[p].late /\ session[p].status # "COMPLETED"

\* handleChoosePlan and start: the plan is on sale.
Choose(p) ==
  /\ page[p].at = "wizard" /\ page[p].step = 1 /\ session[p].status = "NONE"
  /\ session' = [session EXCEPT ![p].status = "DRAFT"]
  /\ page' = [page EXCEPT ![p] = Step(p, 2)]
  /\ UNCHANGED <<prices, active, atStripe, ledger, tenants, request, failures>>

\* What the page asks for, by where it is.
Asks(p) ==
  CASE page[p].at = "waiting" -> "status"
    [] page[p].at = "wizard" /\ page[p].step = 2 -> "owner"
    [] page[p].at = "wizard" /\ page[p].step = 3 -> "company"
    [] page[p].at = "wizard" /\ page[p].step = 4 -> "checkout"
    [] OTHER -> "nothing"

\* What createCheckout goes on to do with the session and the active price.
Begun(p) ==
  IF session[p].filled # Forms \/ active = 0 THEN Free
  ELSE IF prices[active].kind = "trial" THEN Sent("provision", p)
  ELSE [at |-> "stripe", p |-> p, row |-> active,
        promo |-> IsPromoActive(active), sub |-> None, slug |-> 0]

\* Bound: checkouts open or being opened for the session.
MayOpen(p) ==
  Cardinality({c \in checkouts : c.p = p})
    + Cardinality({k \in Workers : At(k, "stripe") /\ request[k].p = p}) < MaxCheckouts

\* createCheckout, until it has read what it needs.
Submit(k, p) ==
  /\ Takes(k) /\ page[p].awaits = None /\ Asks(p) = "checkout"
  /\ ~Over(p) /\ session[p].status # "COMPLETED"
  /\ Begun(p) # Free
  /\ Begun(p).at = "stripe" => MayOpen(p)
  /\ Go(k, Begun(p))
  /\ page' = [page EXCEPT ![p].awaits = k]
  /\ UNCHANGED <<session, prices, active, atStripe, ledger, tenants, failures>>

\* Any request of a session past its time; the first also writes the status.
Late(k, p) ==
  /\ Takes(k) /\ page[p].awaits = None
  /\ Asks(p) # "nothing" /\ Over(p)
  /\ Go(k, IF session[p].status = "EXPIRED" THEN Free
           ELSE Sent("expire", p))
  /\ page' = [page EXCEPT ![p] =
                IF session[p].status # "EXPIRED" THEN [@ EXCEPT !.awaits = k]
                ELSE IF @.at = "waiting" THEN Show(p, "error") ELSE @]
  /\ UNCHANGED <<session, prices, active, atStripe, ledger, tenants, failures>>

Expire(k) ==
  LET p == request[k].p IN
  /\ At(k, "expire")
  /\ session' = [session EXCEPT ![p].status = "EXPIRED"]
  /\ Go(k, Free)
  /\ Answer(k, p, IF page[p].at = "waiting" THEN Show(p, "error") ELSE page[p])
  /\ UNCHANGED <<prices, active, atStripe, ledger, tenants, failures>>

\* setOwner, setCompany: nothing else writes the forms, so one step.
Fill(p) ==
  /\ page[p].awaits = None /\ Asks(p) \in Forms
  /\ ~Over(p) /\ session[p].status # "COMPLETED"
  /\ session' = [session EXCEPT ![p].filled = @ \cup {Asks(p)}]
  /\ page' = [page EXCEPT ![p] = Step(p, page[p].step + 1)]
  /\ UNCHANGED <<prices, active, atStripe, ledger, tenants, request, failures>>

\* createCheckout, paid: a checkout at Stripe for the price as read, then the
\* session's status, by id.
OpenCheckout(k) ==
  LET p == request[k].p
      n == Cardinality({c \in checkouts : c.p = p})
  IN
  /\ At(k, "stripe")
  /\ checkouts' = checkouts \cup
       {[p |-> p, n |-> n, row |-> request[k].row, promo |-> request[k].promo]}
  /\ Go(k, [request[k] EXCEPT !.at = "await"])
  /\ UNCHANGED <<session, prices, active, paid, ledger, tenants, page, failures>>

Await(k) ==
  LET p == request[k].p IN
  /\ At(k, "await")
  /\ session' = [session EXCEPT ![p].status = "AWAITING_PAYMENT"]
  /\ Go(k, Free)
  /\ Answer(k, p, Show(p, "stripe"))
  /\ UNCHANGED <<prices, active, atStripe, ledger, tenants, failures>>

\* getStatus, as the success page polls it.
Poll(p) ==
  /\ Asks(p) = "status" /\ page[p].awaits = None /\ ~Over(p)
  /\ session[p].status = "COMPLETED"
  /\ page' = [page EXCEPT ![p] = Show(p, "done")]
  /\ UNCHANGED <<session, prices, active, atStripe, ledger, tenants, request, failures>>

-----------------------------------------------------------------------------
\* Provisioning. "provision" reads the session again, "slug" looks for a free
\* slug outside the transaction, "create" is the transaction; a webhook then
\* marks its event.

Taken == {t.slug : t \in tenants}
FreeSlug == CHOOSE n \in 1 .. Cardinality(tenants) + 1 :
              n \notin Taken /\ \A m \in 1 .. n - 1 : m \in Taken

\* Mistake for NothingSaidInVain: an expired session is over and done with.
AlreadyOrExpired(p, sub) ==
  \/ session[p].status = "COMPLETED" /\ session[p].tenant # None
  \/ session[p].status = "EXPIRED"
  \/ sub # None /\ \E t \in tenants : t.sub = sub
\* checkAlreadyProvisioned, and the lookup by Stripe subscription.
Already(p, sub) ==
  \/ session[p].status = "COMPLETED" /\ session[p].tenant # None
  \/ sub # None /\ \E t \in tenants : t.sub = sub

\* The request ends: a webhook goes on to mark its event, a trial signup
\* answers the page.
Provisioned(k) ==
  IF request[k].sub # None
  THEN Go(k, [request[k] EXCEPT !.at = "mark"]) /\ UNCHANGED page
  ELSE Go(k, Free) /\ Answer(k, request[k].p, Show(request[k].p, "waiting"))

Refused(k) == Go(k, Free) /\ Answer(k, request[k].p, page[request[k].p])

Provision(k) ==
  LET r == request[k] IN
  /\ At(k, "provision")
  /\ IF Already(r.p, r.sub) THEN Provisioned(k)
     ELSE Go(k, [r EXCEPT !.at = "slug"]) /\ UNCHANGED page
  /\ UNCHANGED <<session, prices, active, atStripe, ledger, tenants, failures>>

\* generateUniqueSlug.
FindSlug(k) ==
  /\ At(k, "slug")
  /\ Go(k, [request[k] EXCEPT !.at = "create", !.slug = FreeSlug])
  /\ UNCHANGED <<session, prices, active, atStripe, ledger, tenants, page, failures>>

\* Mistake for ProvisionedOnce: no unique stripeSubscriptionId.
UniqueBySlug(r) == r.slug \notin Taken
Unique(r) == /\ r.slug \notin Taken
             /\ r.sub = None \/ ~\E t \in tenants : t.sub = r.sub

\* markSignupSessionCompleted.
Completed(r) == [session EXCEPT ![r.p].status = "COMPLETED", ![r.p].tenant = r.slug]

\* maybeCountPromoRedemption.
Counted(r) == IF r.promo THEN [prices EXCEPT ![r.row].count = @ + 1] ELSE prices

Create(k) ==
  LET r == request[k]
      t == [p |-> r.p, slug |-> r.slug, sub |-> r.sub]
  IN
  /\ At(k, "create")
  /\ IF Unique(r)
     THEN /\ tenants' = tenants \cup {t}
          /\ prices' = Counted(r)
          /\ session' = Completed(r)
          /\ Provisioned(k)
     ELSE Refused(k) /\ UNCHANGED <<session, prices, tenants>>
  /\ UNCHANGED <<active, atStripe, ledger, failures>>

\* handleStripeWebhook and handleCheckoutCompleted: the ledger, the session of
\* the checkout's token, and the plan's price as it is now.
Deliver(k, c) ==
  /\ Takes(k) /\ c \in paid \ ledger
  /\ Go(k, [at |-> "provision", p |-> c.p, row |-> active,
            promo |-> IsPromoActive(active), sub |-> c, slug |-> 0])
  /\ UNCHANGED <<session, prices, active, atStripe, ledger, tenants, page, failures>>

Mark(k) ==
  /\ At(k, "mark")
  /\ ledger' = ledger \cup {request[k].sub}
  /\ Go(k, Free)
  /\ UNCHANGED <<session, prices, active, atStripe, tenants, page, failures>>

-----------------------------------------------------------------------------
\* Outside: time, the prospect, Stripe, restarts.

\* Being late means nothing to a session that is COMPLETED.
Tick(p) ==
  /\ p \in Slow
  /\ session[p].status \notin {"NONE", "COMPLETED"} /\ ~session[p].late
  /\ session' = [session EXCEPT ![p].late = TRUE]
  /\ UNCHANGED <<prices, active, atStripe, ledger, tenants, page, request, failures>>

\* The prospect pays a checkout (in this tab or another) and is sent to the
\* success page, or comes back to step 4 by the cancel link.
Pay(c) ==
  /\ c \in checkouts \ paid
  /\ paid' = paid \cup {c}
  /\ page' = [page EXCEPT ![c.p] = IF @.at = "stripe" THEN Show(c.p, "waiting") ELSE @]
  /\ UNCHANGED <<session, prices, active, checkouts, ledger, tenants, request, failures>>

CancelCheckout(p) ==
  /\ p \in Slow /\ page[p].at = "stripe"
  /\ page' = [page EXCEPT ![p] = Show(p, "wizard")]
  /\ UNCHANGED <<session, prices, active, atStripe, ledger, tenants, request, failures>>

\* A reload: the wizard comes back at the stored token and step, and the
\* answer under way is lost.
Reload(p) ==
  /\ p \in Slow /\ page[p].awaits # None
  /\ page' = [page EXCEPT ![p].awaits = None]
  /\ UNCHANGED <<session, prices, active, atStripe, ledger, tenants, request, failures>>

\* "Start Over" on the page that could not confirm leads to the wizard, which
\* restores the token and step it stored (they are cleared by a success only).
StartOver(p) ==
  /\ page[p].at = "error"
  /\ page' = [page EXCEPT ![p] = Show(p, "wizard")]
  /\ UNCHANGED <<session, prices, active, atStripe, ledger, tenants, request, failures>>

Fail(k) ==
  /\ ~At(k, "free") /\ failures < MaxFailures
  /\ failures' = failures + 1
  /\ Refused(k)
  /\ UNCHANGED <<session, prices, active, atStripe, ledger, tenants>>

Working(k) ==
  Expire(k) \/ OpenCheckout(k) \/ Await(k) \/ Provision(k) \/ FindSlug(k) \/ Create(k) \/ Mark(k)

Next ==
  \/ CreatePrice \/ DeactivatePrice
  \/ \E k \in Workers : Working(k) \/ Fail(k)
  \/ \E k \in Workers, p \in Prospects : Submit(k, p) \/ Late(k, p)
  \/ \E k \in Workers : \E c \in paid : Deliver(k, c)
  \/ \E p \in Prospects :
       Choose(p) \/ Fill(p) \/ Poll(p) \/ Tick(p) \/ CancelCheckout(p) \/ Reload(p) \/ StartOver(p)
  \/ \E c \in checkouts : Pay(c)

Spec == Init /\ [][Next]_vars

-----------------------------------------------------------------------------
\* Properties.

Places == {"free", "expire", "stripe", "await", "provision", "slug", "create", "mark"}
Sessions == [status : Statuses, late : BOOLEAN, filled : SUBSET Forms,
             tenant : {None} \cup (Nat \ {0})]
Checkouts == [p : Prospects, n : Nat, row : Nat, promo : BOOLEAN]
Pages == [at : {"wizard", "stripe", "waiting", "done", "error"}, step : 1 .. 4,
          awaits : Workers \cup {None}]
Requests == [at : Places, p : Prospects \cup {None}, row : Nat, promo : BOOLEAN,
             sub : {None} \cup Checkouts, slug : Nat]

\* Sessions, prices, checkouts, tenants, pages and requests are well formed; a
\* checkout is of a session whose forms are filled, and a tenant that is no trial
\* of a payment (schema.prisma).
TypeOK ==
  /\ session \in [Prospects -> Sessions]
  /\ prices \in Seq([kind : Offers, count : Nat]) /\ active \in 0 .. Len(prices)
  /\ checkouts \subseteq Checkouts /\ paid \subseteq checkouts /\ ledger \subseteq paid
  /\ \A c \in checkouts : session[c.p].filled = Forms
  /\ tenants \subseteq [p : Prospects, slug : Nat \ {0}, sub : {None} \cup paid]
  /\ page \in [Prospects -> Pages]
  /\ request \in [Workers -> Requests]
  /\ failures \in 0 .. MaxFailures

\* A page waits only for a request of its own session.
Awaited ==
  \A p \in Prospects : page[p].awaits # None => request[page[p].awaits].p = p

\* However often and however concurrently Stripe delivers an event, its
\* subscription gets one tenant, and two tenants never share a slug
\* (provisionFromSignupSession).
OneTenantPerSubscription ==
  \A t, u \in tenants :
    t.slug = u.slug \/ (t.sub # None /\ t.sub = u.sub) => t = u

\* Whatever a signup goes through, the sessions, tenants and pages stay well
\* formed and no company is made twice.
ProvisionedOnce == TypeOK /\ Awaited /\ OneTenantPerSubscription

\* The success page says so only of a company that exists, whatever the
\* prospect, the redirect and late or repeated answers do (getStatus).
SuccessIsReal ==
  \A p \in Prospects : page[p].at = "done" => \E t \in tenants : t.p = p

\* An event is acknowledged only when who paid has a company, so Stripe repeats
\* it until then: also when the session expired meanwhile, the company's name
\* is taken, the price is gone, or a delivery was cut short (handleStripeWebhook,
\* provisionFromSignupSession).
AcknowledgedIsProvisioned ==
  \A c \in ledger : \E t \in tenants : t.p = c.p

\* Nobody is told in vain that a signup went through, neither the customer nor
\* Stripe: the prospect would find no company, or have paid for none.
NothingSaidInVain == SuccessIsReal /\ AcknowledgedIsProvisioned

=============================================================================

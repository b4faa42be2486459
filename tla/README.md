# Models of the transatlantic shipping platform

TLA+ models, TLC runs and TLAPS proofs about this repository: the API server
(`src/apps/api`) and the pages of the web app (`src/apps/web`) that act on it. They
cover the workflow that moves cargo from a warehouse to its receiver, the one that
gets an invoice paid, the ones that make a company a tenant, set it up and decide
whether its subscription gives it access, what customers are told, and what the
pages show of all that. Paths are relative to `src/apps/api/src` unless they start
with `web/`, which stands for `src/apps/web/src`.

## 1. Inventory

The server is a NestJS application over one PostgreSQL database through Prisma, at
the default isolation level (READ COMMITTED). A request is an `async` handler:
checks on what it read, then writes, with an `await` before each. Few handlers use
`$transaction`; `ManifestsService.depart` says in so many words that it does not
(`manifests/manifests.service.ts:1176-1186`). Components meet only in the tables
and in a few direct calls (every cargo service calls
`ShipmentsService.createTrackingEvent` to change a status, which notifies the
customer). Stripe and WhatsApp call back over webhooks. One timer exists (the billing
sweep). The web app is a Next.js application of client components: a page loads with
an effect, keeps what it loaded in React state, and acts by what it keeps; nothing is
pushed to it and few loads can be cancelled.

| component | state it keeps | operations | what is hard | what makes it correct |
|---|---|---|---|---|
| shipments, items | `Shipment.status`, `ShipmentItem.status`, `currentWarehouseId`, `receivedAt`, append-only `TrackingEvent` | create, addItem, createTrackingEvent (also by hand, any status), update | status written by five services; manual events have no transition check | items and shipment tell one story; a shipment moves forward |
| rollups (inside warehouse, containers, manifests) | none | nine decisions "every / some item is at stage X, so is the shipment" | each has its own eligible statuses and stage list; items in any order, split over transports | no shipment is stranded, none goes backwards |
| warehouse | `PickupDeliveryRecord`, `ItemInspection`; statuses and pointers of items | receive, process, destination receive, pickup, dispatch, deliver, return | reinspection, holds, double submission | inventory is right; handed over once |
| containers | `Container.status`, `manifestId`, `ContainerItem` rows | create, load, unload, finalize (seal), open, close | four writes per load in three tables; unload racing seal | status, rows and item statuses agree |
| manifests | `Manifest.status`, `ManifestItem` rows, `snapshotJson` | create, assign/unassign container or item, finalize, depart, arrive | bulk updates with no transaction, cut short and retried | the snapshot is the cargo; containers and manifest move together |
| invoices, payments | `Invoice.status/amountPaid`, `Payment` rows | create, issue, recordPayment, checkout session, completion by webhook | read before the transaction; calls to Stripe between writes; sessions superseded while paid | amountPaid is the sum of payments; no charge is lost or counted twice |
| Stripe adapter, webhook, ledger | `StripeWebhookEvent` | create / expire session, handle event, mark | redelivery, failure between processing and marking, swallowed errors | at-least-once delivery has an exactly-once effect |
| subscriptions, sweep, guard | `TenantSubscription.status`, `gracePeriodEndsAt` | handle subscription events, sweep, lazy suspension in the guard | out-of-order events, unconditional writes of a stale read | a paying tenant is not left suspended |
| signup, provisioning, plans | `SignupSession`, `Tenant`, promo count | start, forms, checkout, status, expire; provision from webhook or trial; prices | two paths and redelivery create a tenant once; sessions expire on the way | one tenant per payment; nobody pays for nothing |
| onboarding, invitations | `TenantOnboarding`, `TenantInvitation`, `User` | the wizard's steps, invite, resend, accept | old tabs, overlapping steps, doubled invitations | steps in order; one account per e-mail |
| notifications, disruptions, documents | `NotificationEvent`, `Notification`, `Document`, `OperationalException` | fire, dispatch, read, callbacks; upload; report, resolve | event row before delivery; a channel that fails; callbacks out of order | everyone is told, once |
| tracking, analytics | none (reads) | the customer's view of a shipment; the figures of reports | two reads of one thing; a dozen definitions of one figure; bounds of days | what is shown together agrees |
| warehouse page, transport pages, invoice pages, reports and home pages | React state: what was loaded, what was typed, what is awaited | scan, search, confirm, load, poll, filter | answers out of order, after the page moved on, or never; old copies acted on | what is sent is what was meant; nothing stays disabled |
| auth, tenants, entitlements, site config, leads, customers | one or two rows each | create / update / list | little: single-row requests | |
| AI agents, the rest of the web frontend | none that the rules use | calls to a language model, pages | | |

How the parts interact. A staff request to a container or manifest changes
its own row, the rows that list items, the items' statuses (a call to
`createTrackingEvent` each), and then calls the rollup of its own service for each
shipment concerned. Warehouse requests do the same for one item. Each change of a
shipment's status goes on to the notifications. Payments touch none of it: they share
the `Invoice` row between staff requests, customer requests and webhooks. Signup
creates the tenant whose subscription row the webhooks, the sweep and the guard write
later. The pages see all of it only through their requests.

## 2. Modules

| module | models | state |
|---|---|---|
| `CargoStatus` | the status enums, the "at least this stage" lists, the nine rollups as functions of the shipment's status and the set of its items' statuses | none |
| `Cargo` | all handlers of the shipments, warehouse, containers and manifests services, each one action from its first read to its last write, rollup included | 11 variables, one per column or kind of row |
| `CargoRequests` | the same handlers as the server runs them: check, then one step per statement; several workers; requests cut short. Extends `Cargo` | `Cargo`'s tables, `todo` (what each request still has to write), `failures`, `settled` (history for the refinement) |
| `Offers` | which commits the warehouse screens offer for an item's status, beside what the server accepts. Extends `Cargo` | none of its own |
| `Workspace` | the warehouse page over `Cargo`: five modes, scans, searches, Rapid Scan, forms. Extends `Offers` | `Cargo`'s tables, the screen, the calls in flight |
| `ManifestDesk` | the Manifests and Containers pages over `Cargo`, the manifest form, the printed document. Extends `Cargo` | `Cargo`'s tables, the page, the calls in flight, what a manifest lacks |
| `Payments` | issue, recordPayment, checkout sessions, the webhook and its ledger, with Stripe and the customer around them | invoice, the sum of manual payments, payment rows, Stripe's sessions, ledger, requests in progress |
| `InvoiceDesk` | the invoice form, the staff page and the portal page over `Payments`. Extends `Payments` | `Payments`' state, the form, the invoices made, the pages |
| `Subscriptions` | a trial tenant's subscription row: activation by checkout, Stripe's events, the guard and the hourly sweep | the row, the clock, Stripe's subscriptions and events, ledger, requests in progress |
| `Signup` | the signup wizard and success page, sessions, checkouts, provisioning, prices | sessions, prices, checkouts, tenants, pages, requests in progress |
| `Onboarding` | the wizard of a new tenant in several tabs, staff invitations and the page that accepts them | the onboarding row, invitations, users, tabs, requests in progress |
| `Notifications` | what hand-overs, corrections, documents, invoices and disruptions tell whom, and the delivery callbacks | events, rows, documents, requests and callbacks in progress |
| `Records` | the figures of `AnalyticsService` and the customer's view of `TrackingService` over dated rows | the rows and the clock |
| `Sections` | what the sections of the reports, the owner's overview and the customer's home page show of the figures. Extends `Records` | none of its own |
| `Views` | the pages that only show, their loads and failures. Extends `Sections` | the tab, steps |
| `CargoProofs` | proofs about `Cargo` (containers, manifests and snapshots; where each item is; how far each shipment is) and about the writes of `CargoRequests`. Extends `CargoRequests` | |
| `WorkspaceProofs`, `ManifestDeskProofs` | proofs about the pages, over those about the cargo. Extend their module and `CargoProofs` | |
| `PaymentsProofs` | proofs about `Payments` and the pages of `InvoiceDesk`. Extends `InvoiceDesk` | |
| `SubscriptionsProofs`, `SignupProofs`, `OnboardingProofs`, `NotificationsProofs` | proofs about the module each is named for | |
| `MC...` | an instance for TLC of the module each is named for | |

### Cargo

One variable per column: `shipmentStatus`, `itemStatus`, `currentWarehouse`,
`received` (`receivedAt` is set), `containerStatus`, `manifestId`,
`manifestStatus`, `snapshot`. Rows that list an item become a count per pair
(`containerItems`, `manifestItems`: rows with `removedAt` null; `handoffs`: PICKUP
and DELIVERY records), so that a duplicate row would be seen. A row that does not
exist yet has status `NotCreated`.

An action's guard is the handler's checks and its effect all its writes, the
rollup included: `FinalizeContainer` is the seal, the LOADED event of every item
aboard and the rollup of each of their shipments. `Rollup(S, Rule)` is how a
rollup reads after its handler's writes: it applies a function of `CargoStatus` to
the items' NEW statuses. The two `maybeRollupShipmentConsolidation` (containers
and manifests) are different functions because they use different lists.

`ManualEvents` is what staff write through `POST tracking-events`, which checks no
transition: the proofs hold for any set of them, the runs use "cancel the
shipment".

Routes (that a container, manifest and item go to the same place) are left out:
they only refuse requests, and no property mentions destinations. The place where
things start is kept, because inventory depends on it (`ContainerWarehouse`,
`ManifestOrigin`).

### CargoRequests

A request is a list of database steps in `todo[k]`. `Begin...` takes the checks
(the same operators `Cargo` uses: `CanLoad`, `CanFinalize`...) and decides the
writes from what was read; `Do...` performs one. A rollup is a step that reads and
adds up to two writes. `Fail` ends a request between two writes: a lost connection
or a restart. The reads a handler makes before its first write are one step; every
read after that is its own.

`settled` remembers the tables at the last moment no request was in progress, and
`ImplementsCargo` says that, as long as no request failed, each such moment is one
step of `Cargo` from the one before (INSTANCE with `settled` as the tables). It
is checked with one worker: that is the statement that the atomic model is what the
handlers add up to. With two workers it is false, and so are some things that comments
say of overlapping requests; section 5 quotes them.

### Payments

Nothing in the code reads two invoices, so there is one. A worker is a request:
`request[k]` holds where it is and the values it read, which later writes use as
the code does (absolute `amountPaid`, rows by id alone). Money is a number of cents.
A session is at Stripe `open`, `paid` or `expired`; the customer can pay it once
the URL was handed out. `Expire` may fail silently, as `expireCheckoutSession`
does. `Deliver` may happen any number of times until the ledger has the event,
also concurrently when there are several workers. `ReadInvoice` and `Complete` are
two steps although the code has them in one transaction, since READ COMMITTED keeps
nothing between them. The order `Complete`, then `Mark`, is the code's mark-after.

Two workers overlap in most ways without harm, and in four that the code does not exclude
with harm. Each of these has a name, and each property its own hypothesis: `CheckoutsApart`
(two checkouts of the invoice), `RecordsApart` (a write of the amount between the read and
the write of `recordPayment`), `SupersedesApart` (a checkout supersedes the payment that is
being completed) and `IssuesApart` (two issues). `BooksApart` is the last three.
`ApartSpec` is the specification under all four; section 5 says what happens without.

### Subscriptions

One tenant (no request touches two). `row` is its `TenantSubscription`: status,
`stripeSubscriptionId`, `gracePeriodEndsAt`, `trialEndsAt`; `now` a clock in days.
Each change at Stripe (`Subscribe`, `PaymentFails`, `PaymentSucceeds`, `GiveUp`,
`Cancel`) emits its events with the status of that moment, and `Deliver` takes any
event that is not in the ledger, in any order. A handler is its read (which decides
what `Write` writes, the stale columns included), its write, and `Mark`; activation
is the retrieval from Stripe, the reads and the transaction, three steps. `Guard`
reads and `Suspend` writes by id, as the guard does; the sweep is one conditional
statement and runs beside any request. The row starts as
`provisionTrialFromSignupSession` leaves it; how a paid signup creates one is in
`Signup`. Stripe's subscriptions are interchangeable until one is bought, so the next one
is always the same (`CHOOSE`).

`ActivationsApart` (no two activations overlap) and `GuardApart` (nothing is about to write
the row between the guard's reading and its suspension) name the two overlaps that the
code does not exclude and that break a property; all others are in the run.

### Signup

One plan, and prospects who all give the same company name: the one case in which two
provisionings meet. A request reads in one step and writes in a later one; the
transaction that creates a tenant is one step and fails whole when the slug or the
Stripe subscription is taken (`Unique`). The prospect's browser is in the model
because what it does is part of the protocol: it may turn back from Stripe, pay after
the session is over, reload, poll (`Poll`) and give up. `Late` lets a session pass its
time; `findByToken` then writes EXPIRED whenever it meets it.

### Onboarding

A tab shows the step it last loaded, or nothing after a load that failed: the page then
has an error, no form and no button to try again (`web/app/onboarding/page.tsx:55-60`,
`109-112`), and only a reload of the page helps (`Reload`). A step whose request was made
but whose refresh failed leaves the old form. `Submit` starts the request of that step
(or, for a form left open, of an earlier one); `Advance` computes the next step from what
was read. The Operations step makes the warehouse and then writes the row, two statements,
with a unique code. Invitations have a token that `Resend` replaces, mails keep the old
one, `OpenLink` is the preview, `Accept` the form. `accept` is a read and a transaction
that a unique e-mail per tenant protects.

### Notifications

A request is the business write, the rollups, the event row (unique dedupe key), and
for each recipient and channel a row, the provider's call, the outcome. `Restart` ends
it anywhere; `Swallow` is the `catch` that lets the request go on after a failed
notification. Callbacks read the row and write it later, in any order, any number of
times. Every recipient's preferences and addresses are constants. The channels still due
for a customer are a set, taken in the code's order (`FirstOf`); a disruption of a transport
with nobody's cargo aboard makes its event row and tells nobody.

### Workspace and ManifestDesk

`Cargo` is the server: a press is one of its actions or refused, and `Elsewhere` is
everybody else's. A call carries what its closure captured (the mode, the item or row,
the filter) and is answered any time later or lost; what the answer does depends on the
screen as it is then. `Slots` are two calls in flight. Each guard that offers a button
(`ProcessView`, `ManifestButtons`...) is the page's own table, written apart from the
server's. The tables of the warehouse page are in `Offers`, so that they can be compared
with the server's in every state of `Cargo` (run `cargo`), cancelled shipments and a second
warehouse included.

### InvoiceDesk

The pages call `Payments`' actions; a page is answered when its request has ended. The
portal page is in any number of tabs; `first` is the invoice as read before the payments
are (the API reads both, one after the other), `left` counts the polls after a return from
Stripe.

### Records, Sections, Views

`Records` keeps dated rows, two instants per day, and lets any write happen at any time:
more than the other modules allow, so that figures hold for all they produce. The figures
are operators (revenue by source, throughput, transit, ageing, alerts...), each with the
condition of its own query; `Sections` is what each page makes of them. `Views` is the tab:
a page asks for several things at once, shows them when all are there (`Promise.all`), or
an error. The customer's view of a shipment is two reads. Tables that the code cuts off
are cut off (`TopRows`, 10 in the code; `ReceiptCap`, 200), the growth trend lists the days
that have a new customer, and rates of hand-over count `PickupDeliveryRecord` rows.

## 3. Runs

| run | instance | result |
|---|---|---|
| `cargo` | 1 shipment, 2 items, 2 warehouses, 2 containers, 2 ocean manifests, 1 air manifest; the shipment may be cancelled at any moment. 920 thousand states | ten invariants, one of them about the screens, and one action property hold |
| `requests` | the write-by-write model: 1 worker, 1 failure, 2 items, 1 warehouse, 1 container, an ocean and an air manifest. 1.1 million states | the refinement and what must hold between writes |
| `payments` | 2 workers that overlap but in the four ways named above, total 3, amounts 1 and 2, 3 sessions, 1 failure. 1.1 million states | the amount is right, one payment waits and covers what is owed, every paid session is settled |
| `payments_discarded` | 1 worker, no failure | `ChargeNeverDiscarded` violated (section 4) |
| `subscriptions` | 2 workers that overlap but in the two ways named above, 2 subscriptions, 3 changes at Stripe and failures, at most 1 of these a failure, clock to 2, trial and grace of 1. 1.1 million states | one invariant, one action property, two liveness properties hold |
| `notifications` | 2 items, 2 customers, a document, a disruption, 2 workers, 1 callback at a time, 2 requests, 1 failure. 584 thousand states | who is told what, and how often |
| `signup` | 2 prospects, 2 workers, a promotional and a trial price, 1 failure. 677 thousand states | one company per payment, no early welcome |
| `onboarding` | 2 tabs, 1 e-mail, 2 workers, loads that may fail, four combinations of bounds. 818 thousand states | order, single acceptance, completion |
| `workspace` | 2 items, 1 warehouse that is origin and destination, 1 container, 1 ocean manifest, 2 calls in flight, 3 steps. 1.9 million states up to symmetry of the items | the page sends what was meant and never locks |
| `invoice_desk` | 2 customers with a shipment each, 1 tab, 2 sessions, total 3, 2 polls, 1 failure. 262 thousand states | right customer, payments listed, pages answered |
| `manifest_desk` | 2 items, 1 container, an ocean and an air manifest, two filters, 3 steps. 2.0 million states up to symmetry of the items | the page is true and usable |
| `views` | 2 customers, 2 shipments, 2 invoices in 2 currencies, an exception, 2 days of 2 instants, tables of 1 row, 3 steps. 341 thousand states | figures and pages agree |

What the passing runs show:

* `BookedIffEmpty`, `ContainersFollowManifest`, `SnapshotIsCargo`: containers,
  manifests and the immutable snapshot agree. Also proved (below).
* `OneOpenTransport`, `StatusMatchesTransport`: an item is on at most one journey,
  and its status is that of the transport that lists it, in both directions, through
  reinspection, unloading, re-assignment and bulk updates. No constraint of the
  database says so.
* `InventoryKeptUp`: the warehouse pointer is set where cargo waits, and cleared by a
  hand-over, a dispatch or an arrival elsewhere. While cargo is under way, and when it is on
  hold at its destination, the code leaves it in the origin's inventory.
* `HandedOverOnce`: one PICKUP or DELIVERY record exactly for a handed-over item.
* `CompletedWithItsItems`: whatever order two items take, split over a container and
  an air manifest, held, reinspected, returned by a driver, the shipment is
  COMPLETED when the last one is handed over. This needs all nine rollups to hand
  over to each other; the mutant (an item counts as processed only while exactly
  PROCESSED) strands the shipment at PROCESSING.
* `ShipmentOnlyForward`: a shipment goes back in two ways only, from
  READY_FOR_CONSOLIDATION for an item that is held or not processed and from CONSOLIDATED
  when an item was taken off and no container or finalized manifest at origin holds another.
  The second is more than the comment there says (section 5).
* `OfferedAsAccepted`: of an item's status, the PROCESS and PICKUP_DELIVERY screens and the
  server hold the same tables. What is offered is refused only if the shipment is cancelled
  or the item, if it should be at hand, is at another warehouse, and nothing else is.
* `SafeBetweenWrites`: in every state between two writes and after a request was cut
  short, no manifest is shown gone with a container that is not, and a finalized one
  carries its snapshot. `ImplementsCargo`: the statements add up to `Cargo`.
* `AmountIsRight`, `OnePendingRow`, `PendingCoversBalance`, `ChargeSettled`: with
  requests cut short anywhere, events repeated, calls to Stripe lost and overlaps but for
  the four named ones, the invoice is right, one online payment waits at most, and every
  charge is settled (its row does not stay PENDING).
* `AccessFollowsPayment`: nobody is suspended before a deadline that passed, and a tenant
  whose payments never failed keeps its access, whatever the order and number of events
  and with other requests under way; `OneActivation`: two opened checkouts, or events
  about the other one, do not confuse the row; `OverdueIsSuspended`, `EventsAcknowledged`:
  the sweep gets there without a request, and Stripe need not repeat an event forever.
* `RecordsAreTrue`, `NoSecondFinalEmail`: two overlapping requests about one fact write
  to a customer once per channel, and the delivery and the completion it causes are one
  e-mail; `EveryoneTold`: a failing provider for one channel or customer keeps nobody
  else from hearing; `ReadIsKept`: no callback takes back a read.
* `ProvisionedOnce`, `NothingSaidInVain`: every payment gets one
  company, also when the session expired meanwhile, the name was taken or the price is
  gone, and nobody is welcomed to a company that is not there.
* `AcceptedOnce`, `SetupInOrder`, `SetupCompletes`: accounts and accepted invitations are
  one to one; no step of the wizard is skipped, and an owner who goes on gets through,
  also after a step that was cut short half way.
* `FormIsForItsItem`, `FlagsAreRight`, `AlreadyReceived`: what is typed for one item is not
  sent for another (in the forms of arrival and of pickup and delivery), a disabled input is
  enabled by a call in flight, one Rapid Scan runs at a time, and "already received" is true.
* `PageIsTrue`, `CreatedCanFinalize`: what the transport pages show as locked cannot be
  out of date, so that what departs is what was on the screen, however old the copy; and
  what the form accepts, finalize accepts.
* `DeskIsRight`, `PagesAnswer`: a late list of another customer's shipments bills nobody
  for them; the portal never shows more paid than payments.
* `PageHangsTogether`, `FiguresAgree`, `PageSettles`: the badge a customer sees is in the
  timeline below it; adjoining periods add up, tables add up to their totals (the
  customers' table as far as it is not cut off), the reports, the overview and the
  customers' pages tell the same, and what customers are told they owe is what is owed.
  `FiguresAgree` compares two dozen queries with one another.

### Bounds

Two items are the smallest shipment whose items can disagree: every rollup asks
only "every" and "some" of its items' statuses, and `OneOpenTransport` and the
count of rows need two to differ. Two containers at different warehouses and two
ocean manifests, one with an origin, let a container be assigned, unassigned and
assigned elsewhere and be refused for its warehouse. The request instance is one
warehouse, one container and one manifest of each mode, since what it asks is about
one handler at a time; one failure is enough for every prefix of every handler and
everything that may follow it. Three sessions are one superseded, one being created
and one after; total 3 with amounts 1 and 2 gives partial payments, exact payment and
an attempt to overpay. Three changes at Stripe are the shortest history with a
purchase, a failure and a recovery (or a second purchase, or an end), a clock of 2
lets the trial, or the grace of a payment that failed at once, run out. Two workers are two
requests about one row, of which the one that read first writes last.

The bounds in guards:

* `MaxFailures` (all request models), `MaxTime`, `MaxChanges`, `Subs`, `Sessions`. In
  `Subscriptions` a request cut short counts among the changes, too: a history has three
  changes, or two and a failure.
* `Notifications`: `MaxRequests` requests, two being all that can meet.
* `Signup`: `Slow` are the prospects who may turn back, reload or run out of time (one
  of two: the other is the competitor for the name); `MaxCheckouts`, `MaxPrices` are 1.
* `Onboarding`: `Bounds` is a set of four combinations of how many invitations, tokens,
  things done aside and failures there may be; a behaviour stays within one. All four
  at once would be out of reach, and what the wizard and the invitations share is one
  column.
* `InvoiceDesk`: `MaxVisits` pages opened or reloaded; `Attempts`, 5 in the code, is 2:
  the last poll and one that is not.
* `Workspace`, `ManifestDesk`: `MaxSteps` limits what happens while a page is open (its
  calls, others' requests, lost calls), not what happened before: every state of the
  cargo tables is one a page may be opened in. Three steps are two calls that overtake
  each other and a change elsewhere between them.
* `Views`: `MaxSteps` limits writes and what is asked for; `LastDay`, `AgeLimits`,
  `DueDays` and `StaleDays` shrink 30, 60, 90 and 7 days so that two days tell the buckets
  apart, with invoices that were due long before; `TopRows` and `ReceiptCap` are 1, so that
  two customers and two receipts are one too many.

Deadlock is not checked: a shipment that is done has nothing left to do, neither has
a paid invoice, a finished wizard or a page at its bound, and the clock of
`Subscriptions` stops.

### Fairness

None for cargo: every step is a decision of a person, who may never take it, so liveness
of cargo would be a statement about people. What can be said without fairness is said as
safety: `CompletedWithItsItems` is "nothing remains to be done by the server". Elsewhere
it is assumed that a request that has begun runs on (the event loop runs it, or it is cut
short, at most `MaxFailures` times): `WF` of `Continue` in `Payments` and `Subscriptions`,
of `Step` in `Notifications`, of `Working` in `Onboarding` and `InvoiceDesk`, where also
the queries of a page are answered or fail, of `Serve` in `Views`. Stripe delivers an
event again until it is acknowledged, and the hourly sweep runs. The liveness of
`Payments` and `Subscriptions` is of `ApartSpec`: that two requests do not overlap where
they must not is part of its steps. Customers, staff and lapsing sessions are not fair,
and time need not pass. One assumption is about a person: in `Onboarding` the owner loads
the wizard and, again and again when the button is enabled, submits it (`SF`), since
`SetupCompletes` is about an owner who wants to; that includes reloading a page that shows
nothing but an error.

## 4. Findings

`payments_discarded`: a customer who pays while a second checkout supersedes the session is
charged, and the event is ignored, against `payments/payments.service.ts:274` ("this method
never rejects or discards a completed charge") and the "unreachable" of line 268. No
failure is needed.

## 5. Known divergences without a run

Found while modelling, most of them by TLC, which shows each of those marked with a
hypothesis in brackets as soon as it is dropped. The properties are stated so that they are
true of the code, and say where they stop.

Cargo, one request at a time:

* `maybeRollupShipmentConsolidation` of containers counts only items assigned to or loaded
  in a container (`containers/containers.service.ts:475-506`). Taking out the last of these
  downgrades a CONSOLIDATED shipment although another item is on an air manifest or has
  departed with one, against lines 449-450 ("CONSOLIDATED -> READY_FOR_CONSOLIDATION if every
  item is later unassigned again"). `ShipmentOnlyForward` allows it.
* An item held at destination still points at its origin warehouse; `processItem` there
  takes it as a reinspection (`warehouse/warehouse.service.ts:309`), against
  `manifests/manifests.service.ts:1168` ("a real departure is not something later code
  should ever downgrade").
* The rollups up to arrival count cancelled items (`manifests.service.ts:1554`), so that a
  cancelled item stops its siblings' shipment half way, against
  `warehouse.service.ts:1256-1258` ("a cancelled item was never going to be handed off and
  must not block a shipment's otherwise-complete siblings").
* A retried `arrive` takes an item that was picked up meanwhile back to
  ARRIVED_DESTINATION (`manifests.service.ts:1408`), though PICKED_UP and DELIVERED are "the
  two terminal" outcomes (`warehouse.service.ts:70-71`); a depart cut short cannot be retried
  (`:1258`); a load cut short leaves an item that can be neither loaded nor unloaded.
* A container's summary counts items handed over as outstanding
  (`containers/containers.service.ts:74-109`).
* The warehouse screens offer by the item's status alone, the server also refuses items of a
  cancelled shipment and at another warehouse (`warehouse.service.ts:305`, `333`, `632`,
  `661`): the operator learns of it after filling in the form. `OfferedAsAccepted` says that
  there is no other case.

Cargo, two requests that overlap (`OneRequest`):

* Two pickups of one item both pass the check and write two hand-over records, against
  `warehouse.service.ts:610-616` ("whichever request the DB commits first flips the status,
  and every subsequent one re-reads the now-changed status and is rejected here").
* An unload that passed its check before the seal removes its row after it
  (`containers.service.ts:301`), against lines 335-337 ("once finalized, ContainerItem
  rows for this container are immutable").
* An unassign that passed its check before finalize takes the container off after it
  (`manifests.service.ts:834`), against lines 457-459 (the snapshot is "reconstructable even
  if the underlying container/item rows are edited afterward (which they can't be, once
  FINALIZED").
* Two rollups of one shipment may each read before the other writes.

Money, access and tenants:

* Two recordings of a payment that overlap are each within the balance both read; together
  they exceed the total, and `amountPaid` keeps one of them (`payments.service.ts:126`),
  against lines 97-99 (it rejects "any payment that would push amountPaid past the invoice
  total"). A balance that fell this way is no longer covered by the payment that waits
  (`RecordsApart`).
* Two checkouts of one invoice that overlap each look for a pending row before either has
  made its own (`:209`), in no transaction and under no unique constraint: the customer holds
  two sessions that can be paid, against lines 181-189 ("At most one payable online session
  exists per invoice at a time", so that "a customer who opens the portal in two tabs (or
  double-clicks Pay Now)" cannot complete two for the same balance) (`CheckoutsApart`).
* A checkout that supersedes the payment which is being completed marks it FAILED after it
  was COMPLETED (`SupersedesApart`); of two issues that overlap the later sets an invoice
  that was paid in between back to SENT (`IssuesApart`).
* Two activations of one tenant that overlap: both read a row without a subscription
  (`tenant-provisioning/tenant-provisioning.service.ts:205`) and update it by id (`226`); the
  second takes the first one's place, which is charged on unseen, against lines 196-199
  ("Idempotency-guarded by checking whether a real Stripe subscription id is already
  attached") and `webhooks/stripe-webhook-ledger.service.ts:34-36` (`ActivationsApart`).
* The guard writes SUSPENDED by id on what it read
  (`common/guards/subscription-status.guard.ts:91`): a tenant that paid in between is
  suspended with no deadline behind it, against lines 62-70 (`GuardApart`).
* An event whose mark was lost is reprocessed after a later one and takes the status back
  (`webhooks/stripe-webhook-ledger.service.ts:12`, "independently idempotent").
* Promotional checkouts opened before the cap was reached are all sold at its price
  (`saas-plans/promo-pricing.util.ts:26`); two overlapping trial completions make two
  tenants.
* `OnboardingService.advanceStep` "never regresses" (`:237-241`), but of two overlapping
  requests the one that read first may write last. A reset token can be used twice at
  once (`auth/auth.service.ts:258-262`); racing invites make two live invitations.
* Operations of the wizard, cut short after the warehouse was made, fails on its unique code
  until the field is left blank.
* The invoice list's filter OVERDUE is always empty (the status is computed, not stored);
  a lost answer to create or record makes a second draft or payment when repeated.

Notifications: with overlapping hand-overs the final e-mail can be missing altogether; a
crash after the event row loses its notifications. Staff who post DELIVERED by hand, or
take a shipment back by hand to a status its rollups start from, after an e-mail said
COMPLETED, send a second final one, against "exactly one final completion message, not
two" (`notifications/notifications.service.ts:190`): only COMPLETED looks back, for a
delivery record. Found as the hypothesis `NoReopening` that the proof of
`NoSecondFinalEmail` could not do without.

Pages:

* The onboarding page whose first load, or reload, failed shows an error, no form and no way
  to try again (`web/app/onboarding/page.tsx:55-60`, `109-112`).
* The reports' customers table is the first ten (`analytics/analytics.service.ts:545`),
  beside a total of all.
* `InspectionForm` is not keyed by its item, so measurements typed for one can be sent for
  the next (`web/components/warehouse/ProcessWorkspace.tsx:160-171`); removing an item in
  LOAD mode leaves its code remembered as loaded; a flagged code at destination is later
  said to be received.
* The portal thanks for a payment before it is confirmed when another payment is
  (`web/app/portal/invoices/[id]/page.tsx:43-44`), and promises to update after polling
  stopped (`:181`).
* Lists of manifests, containers, invoices, reports and the reconcile picker show the
  answer that came last, also when it is to an older question
  (`web/components/dashboard/ExecutiveDashboard.tsx:24-28` says "never left ambiguous");
  scans of LOAD and of an air manifest are not guarded while they are looked up.
* The overview's "Items Received" counts whole-shipment events too, against the comment at
  `analytics/analytics.service.ts:665-672`; a shipment made before the period is listed under
  "Unassigned Route" whatever its route (`:436-469`); the overview of a tenant without the
  analytics entitlement always shows an error.

## 6. Proofs

All models but `Records` and its pages have theorems about their specification, for every
value of the constants: any numbers of shipments, items, containers, manifests, sessions,
prospects, browser tabs, calls in flight, customers and (where nothing else is said)
overlapping requests; any bounds, prices, amounts and lengths of time. They rest on the
ASSUMEs of the module (types of the constants, `None` apart from everything else, tables
with finitely many rows) and on the hypotheses named here, which stand in the theorem
as `ASSUME ... PROVE` or, if it is about overlaps, as `Spec /\ []Hypothesis => ...`:

| hypothesis | theorems | meaning, and why it is there |
|---|---|---|
| `NoCorrections` | of `CargoProofs`, `JourneyInvariant`, `AbreastInvariant` and what follows from them | by hand, staff cancel shipments and add notes. `POST tracking-events` lets them write any status with no check; each of these properties is false as soon as they do, and the code does not say otherwise |
| `OneRequest` | `TidyInvariant`, `SafeBetweenAnyWrites` | one request of the cargo services at a time, which may fail after any of its writes. Two that overlap can each pass their checks and break the tables together (section 5) |
| `CheckoutsApart` | `NeverTwoPending` | no two checkouts of the invoice between looking for a pending row and making one. The comment claims more; with two such it is false (section 5) |
| `RecordsApart` | `PendingAlwaysSettles` | nobody writes the amount between the read and the write of `recordPayment` (section 5) |
| `BooksApart` | `SettledInvariant`, `AmountIsAlwaysRight`, `KeptInvariant`, `DeskStaysRight` | `RecordsApart`, and no payment is superseded while it is completed, and no two issues overlap (section 5) |
| `ActivationsApart` | `OrderedInvariant`, `ActivatedOnce`, `AccessIsFair` | no two activations of the tenant overlap (section 5) |
| `GuardApart` | `AccessIsFair` | nothing is about to write the row between the guard's reading and its write (section 5) |
| `OneHook` | `ReadStaysRead` | one delivery callback at a time: it is read, then written. Two that overlap can take a READ back |
| `NoReopening` | `OneFinalInvariant`, `NoSecondFinalEmailEver` | staff do not post DELIVERED, or a status the rollup starts from, by hand (section 5) |

The instances that TLC checks satisfy them.

### Cargo

Four layers. The first is for any manual events. `TypeCorrect`: the rollups return statuses
(`RollupValues`), lifted to the whole table (`RollupTyped`), and each handler keeps the
types. `TransportInvariant`: `Transport == TypeOK /\ BookedIffEmpty /\
ContainersFollowManifest /\ SnapshotIsCargo`. The snapshot alone is not inductive: that
unloading cannot touch a finalized manifest needs its containers to be past LOADING, and
that the snapshot is not empty needs a sealed container to hold something. `CargoFixed`
is the heart: no step changes the cargo of a manifest that is finalized, departed or
arrived.

Items. `Journey` adds to `Transport` that items and the rows that list them
agree. `OneOpenTransport` and `StatusMatchesTransport` need each other: loading adds a row
only for an item whose status says that nothing lists it, and the status is right because
an item has one row only. `Located` says for which statuses the warehouse pointer is set,
`LoadedThere` that an item aboard points at the warehouse it was loaded in (unloading
leaves the pointer alone); `InventoryKeptUp` follows from both, `HandedOverOnce` from the
statuses the hand-overs start from. One lemma says what one item's move leaves alone
(`OneItemMoves`), one what a whole transport's does; depart and arrive are the long cases.

Rollups. `ShipmentsAbreast`: for each stage of the journey, a shipment all of
whose items have reached it has reached it too. Each handler moves items and then calls the
rollup of ONE stage; the invariant says that this is enough, since the rollups of the
earlier stages fired before and that of a later stage cannot be due yet. It needs
`Journey`, because the sets of statuses that the three services count as committed differ
and agree only on items that are where their status says. `CompletedInTheEnd` is its last
stage. `OnlyForward` is about steps: each rollup writes forward or one of two steps back
whose condition the property states, and a cancelled shipment is left alone.

Writes. `Tidy`, again for any manual events, is the invariant of `CargoRequests`.
`Transport` is false between two writes (a container that leaves is ahead of its manifest,
one just emptied is still LOADING), so `Tidy` has two weaker parts: `Kept`, what a
container may be by the status of its manifest, and `SealedFull`. To be inductive it has
to say what the request in progress has left to write (`Planned`), which is one of four
sorts: only items and shipments (what a failure leaves out is then no matter to transports);
rows, count and booking of one transport that still takes them (`Stows`); one write of a
container or manifest first, which the checks of its request found right, and light ones
after it (`Once`); or a manifest's departure or arrival, with each of its containers moved
already or due earlier in the list (`Move`). Each `Begin...` plans one of the four, each
`Do...` takes the head of the list and leaves a list of the same sort or a lighter one,
and a rollup only adds writes of shipments. No fold over the list is needed: the four
sorts are about which writes are in it and in what order, and where an order comes from a
set (`SetToSeq`), a lemma says that the list has each member once it is made (`InSomeOrder`).
`SafeBetweenWrites` follows from `Tidy`.

### Payments and Subscriptions

Each of the three properties of payments has an invariant of its own, with any number of
requests under way, so that each needs only its own hypothesis. `OneWaits`: while a checkout
is past its reading, only the row it is about to supersede is PENDING, and then none
(`Alone`; `CheckoutsApart` keeps others from adding one). `AllCover`: every row, and every
amount that a checkout carries, is for at least what is owed now; since the amount paid
never falls (`RecordsApart`), it stays enough. `Settled`, over `AllCover` and under
`BooksApart`: the amount paid is `manual` while no charge is COMPLETED and `Total` from then
on; every row is for at least what staff did not record; and what a request read is still so
when it writes (`Stands`). So the first confirmation settles the invoice and later ones
are clamped. That the amount is the SUM of payments, which is a fold over a set, follows
without induction over data: `Smallest` picks a minimal counterexample among the subsets of
a finite set, by the well-founded order of the library, and counts coins
(`SumOfAmounts`, `PaidIsSum`).

`Kept`, over `Settled`, is for the form and the pages of `InvoiceDesk`. A page reads the
invoice and then the payments. The list of confirmed payments only grows in amount
(`Listed`), and what an invoice says is paid is never more than it (`Settled`): so what
the first read found is covered by what the second will find, whatever comes between. The
customer of a bill is right because `create` checks the pair, not because of the form.

`Ordered`, under `ActivationsApart`: a row without a subscription is a trial (`AtTrial`), and
what a request will write carries the subscription that the row has, or activates one that
has none (`Carries`). `ActivatedOnce` is a property of its steps. `Fair`, over it and under
`GuardApart`: what Stripe knows of a subscription some event says (`Told`), and a suspension
or a payment that is about to be written is justified, although the clock, the sweep and
other requests go on: they only add reasons (`JustifiedLater`). `AccessIsFair` is a part of
it.

### Pages over the cargo

`BehindTheScreen` and `BehindThePage` say that `Workspace` and `ManifestDesk` implement
`Cargo`: every step of theirs is one of `Cargo`'s or leaves the tables alone, so that what
is proved of `Cargo` holds behind every page (they hold step by step; no fairness is
involved).

`InOrder` is `Transport` with what a screen can be (`ScreenOK`: its panel is one of its
mode's, shows an item, and its form has values of that item or none), which calls it can
wait for (`CallOK`: leaving a mode drops the calls of that mode), and the flags. That
there is one Rapid Scan call needs that the input is disabled meanwhile (`RapidIsBusy`);
that "already received" is true needs that receipts are never taken back
(`ReceivedStays`, over `Cargo`'s actions).

`Trusted` is about how copies age. From `Transport` follows that a manifest never goes back
and keeps its snapshot once finalized (`ManifestsGoOn`), and that a sealed container keeps
its items: so a row that was true when read stays true, however late it is shown, and
`CallsTrue` carries what was seen from the press of a button to its answer. `Covered`, that
a flag that is set has a call that resets it, is by itself inductive. That a form without
errors leaves nothing out is a lemma about the two tables of required fields
(`FormIsComplete`).

### Signup, Onboarding and Notifications

These are about overlapping requests with nothing assumed of their number or order (but
for `OneHook`, `NoReopening`). All three follow the same pattern: what a request has read can
only become more true before it writes (`KnownLater`), and the one table column that could
be written twice is unique.

* `SignedUp`: a session, an event's mark or a page that says it is over has a tenant; a
  tenant's subscription is its own; slugs are never used twice, since `FreeSlug` looks among
  one more than there are (`SlugIsFree`, by counting) and the unique column refuses the rest.
* `Onboarded`: the steps before the one a request, the row or a tab stands at were stamped,
  and stamps are never removed; a token was mailed to one e-mail only, so that an account
  made from an invitation has its e-mail, and accounts are unique per e-mail.
* `Informed`: of the requests that are about one occurrence only one passed the event row
  (`Alone`), whom it has yet to tell has no row of it, and the channel it is at is not among
  those left: hence one row per customer, channel and occurrence. A callback in progress is
  about a row that has a message id.
* `OneFinal`: an e-mail that says COMPLETED exists, or is being decided on, only while no
  DELIVERED occurrence is recorded or under way. The decision reads the records of
  delivery, and a delivery leaves its record before it rolls the shipment up, so a request
  that finds none is ahead of every delivery; and once the shipment is COMPLETED no rollup
  starts from it (`Past`), which is what `NoReopening` protects.

Every inductive invariant was checked by TLC on the instances of section 3 before it was
proved (`cargo` with `Journey` and `ShipmentsAbreast`, `requests` with `Tidy`, and so on).
Proofs changed the models in three places: `Notifications` took a disruption without
customers for one that still had somebody to tell; and `Workspace`, `ManifestDesk` and
`CargoRequests` lacked the assumptions that `None` is no call and that the tables are
finite.

### Only model-checked

* Liveness (`ChargeSettled`, `OverdueIsSuspended`, `EventsAcknowledged`, `EveryoneTold`,
  `SetupCompletes`, `PagesAnswer`, `PageSettles`): the proof system has no rule for
  fairness.
* `OfferedAsAccepted`, a comparison of two tables, in every state of `Cargo`.
* `ImplementsCargo` of `CargoRequests`: that the writes of a request add up to one action of
  `Cargo` is an induction over the list of writes, and the rollups it compares with are
  evaluated in an order that a set is put in. What is proved is what must hold between the
  writes.
* `FiguresAgree` compares sums over rows, which are folds: induction over the rows.
* `PageHangsTogether` of `Views`: about one tab that shows and never writes.

## 7. Not modelled

Auth, tenants, entitlements, site configuration, leads, customers: single rows written by
single requests. AI agents: calls to a language model. The rest of the web frontend
(marketing, platform administration, settings, lists of staff and customers): pages that
load one table and submit one form, with nothing to get wrong that the modelled pages do
not show. Within the modelled parts: routes of cargo,
measurements, wording, roles, confirmation dialogues, averages, `OVERDUE` (computed when
shown, never stored) and `VOID` (set by nothing). Two requests that remove the same
row at once update one row in the code and would remove two from a count, so
`CargoRequests` lets only one of them be in progress (`NoRemoval`).

## 8. Plan

Done: the models, runs and proofs above. What would come next:

1. The handlers that move one item as an implementation of `Cargo`'s actions, write by
   write, which needs no induction over the list since it has a fixed length.
2. `PageHangsTogether`, from the order of the two reads and the events being only added.
3. What remains true of overlapping requests in `CargoRequests`, without `OneRequest`: weaker
   properties, to be found first, as `Payments` and `Subscriptions` have them now.

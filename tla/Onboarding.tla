------------------------------ MODULE Onboarding ------------------------------
(***************************************************************************)
(* How a new tenant sets itself up and its people join: the onboarding     *)
(* wizard in the owner's browser tabs, the TenantOnboarding row behind it, *)
(* staff invitations and the page an invited person accepts them on.       *)
(*                                                                         *)
(* A worker is one HTTP request: it reads, and writes in a later step what *)
(* follows from what it read. A tab shows the step it last loaded, which   *)
(* another tab may have left behind; it waits for one request, then loads  *)
(* the overview again. A restart ends a request between two steps, and a   *)
(* load may fail: a page that never loaded shows an error and no form.     *)
(*                                                                         *)
(* Passwords are left out, as are the contents of the forms but for the    *)
(* one warehouse code that must be unique. Stripe's pages of the Billing   *)
(* step (portal, paid checkout) change nothing here.                       *)
(***************************************************************************)
EXTENDS Integers, FiniteSets, Sequences

CONSTANTS
  Tabs,            \* the owner's tabs that show the wizard
  MainTab,         \* the one the owner keeps using
  Emails,          \* of the people who may be invited
  Workers,
  None,            \* null
  Bounds           \* bounds, of which a behaviour stays within one: invitation rows,
                   \* tokens, what the owner does aside from going on in MainTab
                   \* (reloads, submissions of other tabs), requests and loads that fail

ASSUME WorkersAssumption == Workers = 1 .. Cardinality(Workers)
ASSUME TabsAssumption == MainTab \in Tabs /\ Tabs \cap Emails = {}
ASSUME NoneAssumption == None \notin Workers \cup Tabs \cup Emails
ASSUME BoundsAssumption ==
  Bounds \subseteq [invitations : Nat, tokens : Nat, aside : Nat, failures : Nat]

\* OnboardingStep, in the order of the wizard.
OPERATIONS == 2
STAFF == 3
BILLING == 6
DONE == 7
Steps == 1 .. DONE
\* The steps with a column that says when they were completed.
Stamped == 1 .. BILLING - 1

VARIABLES
  row,          \* currentStep, the columns that are set, completedAt
  warehouse,    \* a warehouse has the code the owner types
  invitations,  \* rows: e-mail, status, token, not yet expired
  tokens,       \* how many were generated
  mailed,       \* tokens sent, with the e-mail
  users,        \* User rows: e-mail, invitation
  tab,          \* tab -> step and whether its form is shown, request it awaits,
                \* whether it loads
  link,         \* e-mail -> the page its owner opened: token, what it shows, request
  request,      \* worker -> what it still has to do, with the values it read
  bound         \* what is left of the behaviour's bounds

team == <<invitations, tokens, mailed, users>>
setup == <<row, warehouse>>
vars == <<team, setup, tab, link, request, bound>>

\* n: the step, the invitation or the token; saw: currentStep as read.
Sent(at, for, n) == [at |-> at, for |-> for, n |-> n, saw |-> 0]
Free == Sent("free", None, 0)

Init ==
  /\ row = [step |-> 1, done |-> {}, completed |-> FALSE]
  /\ warehouse = FALSE
  /\ invitations = <<>> /\ tokens = 0 /\ mailed = {} /\ users = {}
  /\ tab = [t \in Tabs |-> [step |-> 1, form |-> FALSE, awaits |-> None, loads |-> TRUE]]
  /\ link = [e \in Emails |-> [token |-> 0, at |-> "closed", awaits |-> None]]
  /\ request = [k \in Workers |-> Free]
  /\ bound \in Bounds

At(k, place) == request[k].at = place
\* Workers are alike: a request goes to the first that is free.
Takes(k) == At(k, "free") /\ \A j \in 1 .. k - 1 : ~At(j, "free")
Go(k, next) == request' = [request EXCEPT ![k] = next]

\* runStep: after the answer the tab loads the overview; after an error it
\* keeps what it shows. Either way its buttons work again in the end.
\* Mistake for SetupCompletes: the buttons stay disabled after an error.
FailedStuck(k) == UNCHANGED tab
Failed(k) ==
  tab' = [t \in Tabs |-> IF tab[t].awaits = k THEN [tab[t] EXCEPT !.awaits = None] ELSE tab[t]]
Answered(k) ==
  tab' = [t \in Tabs |-> IF tab[t].awaits = k
                         THEN [tab[t] EXCEPT !.awaits = None, !.loads = TRUE] ELSE tab[t]]

\* The accept page: done, or the form with an error.
Shown(k, place) ==
  link' = [e \in Emails |-> IF link[e].awaits = k
                            THEN [link[e] EXCEPT !.awaits = None, !.at = place] ELSE link[e]]

-----------------------------------------------------------------------------
\* The wizard.

Ready(t) == tab[t].form /\ tab[t].awaits = None /\ ~tab[t].loads
\* Nothing but an error is on the page: the first load failed, and is not repeated.
Blank(t) == ~tab[t].form /\ ~tab[t].loads

\* Bound: what the owner does besides going on in MainTab.
Aside == bound.aside > 0 /\ bound' = [bound EXCEPT !.aside = @ - 1]
Counted(t) == IF t = MainTab THEN UNCHANGED bound ELSE Aside

\* What the endpoint of a step does first: Operations, with a warehouse,
\* creates it.
Endpoint(s, w) ==
  CASE s = BILLING -> "finish"
    [] s = OPERATIONS /\ w -> "warehouse"
    [] OTHER -> "advance"

\* The owner submits the form of the step the tab shows.
Submit(k, t, w) ==
  LET s == tab[t].step IN
  /\ Takes(k) /\ Ready(t) /\ s # DONE
  /\ w => s = OPERATIONS
  /\ Counted(t)
  /\ Go(k, Sent(Endpoint(s, w), t, s))
  /\ tab' = [tab EXCEPT ![t].awaits = k]
  /\ UNCHANGED <<team, setup, link>>

\* updateOperations: warehouse.createMany, on its own before the step advances.
CreateWarehouse(k) ==
  /\ At(k, "warehouse")
  /\ warehouse' = TRUE
  /\ IF warehouse THEN Go(k, Free) /\ Failed(k)
     ELSE Go(k, [request[k] EXCEPT !.at = "advance"]) /\ UNCHANGED tab
  /\ UNCHANGED <<team, row, link, bound>>

\* advanceStep reads the row ...
Advance(k) ==
  /\ At(k, "advance")
  /\ Go(k, [request[k] EXCEPT !.at = "write", !.saw = row.step])
  /\ UNCHANGED <<team, setup, tab, link, bound>>

\* Mistake for SetupInOrder: whatever form is submitted, the wizard moves on.
NextStepAlways(r) == r.saw + 1
NextStep(r) == IF r.saw = r.n THEN r.n + 1 ELSE r.saw

\* ... and writes the step's column and currentStep.
Write(k) ==
  /\ At(k, "write")
  /\ row' = [row EXCEPT !.done = @ \cup {request[k].n}, !.step = NextStep(request[k])]
  /\ Go(k, Free) /\ Answered(k)
  /\ UNCHANGED <<team, warehouse, link, bound>>

Finish(k) ==
  /\ At(k, "finish")
  /\ row' = [row EXCEPT !.step = DONE, !.completed = TRUE]
  /\ Go(k, Free) /\ Answered(k)
  /\ UNCHANGED <<team, warehouse, link, bound>>

\* refresh after the answer, and the page's first load.
Load(t) ==
  /\ tab[t].loads
  /\ tab' = [tab EXCEPT ![t].step = row.step, ![t].form = TRUE, ![t].loads = FALSE]
  /\ UNCHANGED <<team, setup, link, request, bound>>

\* Either fails: after an answer the form stays with the step it showed, on a page
\* that never loaded there is none.
LoadFails(t) ==
  /\ tab[t].loads /\ bound.failures > 0
  /\ bound' = [bound EXCEPT !.failures = @ - 1]
  /\ tab' = [tab EXCEPT ![t].loads = FALSE]
  /\ UNCHANGED <<team, setup, link, request>>

\* The owner reloads the page, while it waits, loads again or shows no form.
MayReload(t) == tab[t].awaits # None \/ (tab[t].loads /\ tab[t].form) \/ Blank(t)

Reload(t) ==
  /\ MayReload(t)
  /\ IF Blank(t) THEN UNCHANGED bound ELSE Aside
  /\ tab' = [tab EXCEPT ![t].form = FALSE, ![t].awaits = None, ![t].loads = TRUE]
  /\ UNCHANGED <<team, setup, link, request>>

-----------------------------------------------------------------------------
\* Invitations.

Member(e) == \E u \in users : u.email = e
IsLive(i) == invitations[i].status = "PENDING" /\ invitations[i].live

\* Bound: rows and tokens, also those about to be written.
Underway(place) == Cardinality({k \in Workers : At(k, place)})
MayInsert == Len(invitations) + Underway("insert") < bound.invitations
MayGenerate == tokens + Underway("insert") + Underway("renew") < bound.tokens

\* invite, until it has read: no user and no live invitation of this e-mail.
MayInvite(e) ==
  /\ MayInsert /\ MayGenerate
  /\ ~Member(e)
  /\ \A i \in DOMAIN invitations : IsLive(i) => invitations[i].email # e

\* From the wizard's Staff step, whose column is set in the end (n) ...
InviteInWizard(k, e, t) ==
  /\ Takes(k) /\ Ready(t) /\ tab[t].step = STAFF /\ MayInvite(e)
  /\ Counted(t)
  /\ Go(k, Sent("insert", e, STAFF))
  /\ tab' = [tab EXCEPT ![t].awaits = k]
  /\ UNCHANGED <<team, setup, link>>

\* ... or from the staff page.
InviteStaff(k, e) ==
  /\ Takes(k) /\ MayInvite(e)
  /\ Go(k, Sent("insert", e, 0))
  /\ UNCHANGED <<team, setup, tab, link, bound>>

\* The e-mail with the new token. A failure to send it is swallowed, which is
\* the same as a link nobody opens.
Mail(e) ==
  /\ tokens' = tokens + 1
  /\ mailed' = mailed \cup {[token |-> tokens + 1, email |-> e]}

Insert(k) ==
  LET e == request[k].for IN
  /\ At(k, "insert")
  /\ invitations' = Append(invitations,
       [email |-> e, status |-> "PENDING", token |-> tokens + 1, live |-> TRUE])
  /\ Mail(e)
  /\ Go(k, IF request[k].n = 0 THEN Free ELSE [request[k] EXCEPT !.at = "stamp"])
  /\ UNCHANGED <<users, setup, tab, link, bound>>

\* inviteStaff: staffInvitedAt, if it is not set.
Stamp(k) ==
  /\ At(k, "stamp")
  /\ row' = [row EXCEPT !.done = @ \cup {STAFF}]
  /\ Go(k, Free) /\ Answered(k)
  /\ UNCHANGED <<team, warehouse, link, bound>>

\* resend reads the row ...
MayResend(i) == MayGenerate /\ invitations[i].status = "PENDING"

Resend(k, i) ==
  /\ Takes(k) /\ MayResend(i)
  /\ Go(k, Sent("renew", None, i))
  /\ UNCHANGED <<team, setup, tab, link, bound>>

\* ... and gives it a new token and expiry, by id.
Renew(k) ==
  LET i == request[k].n IN
  /\ At(k, "renew")
  /\ invitations' = [invitations EXCEPT ![i].token = tokens + 1, ![i].live = TRUE]
  /\ Mail(invitations[i].email)
  /\ Go(k, Free)
  /\ UNCHANGED <<users, setup, tab, link, bound>>

Expire(i) ==
  /\ IsLive(i)
  /\ invitations' = [invitations EXCEPT ![i].live = FALSE]
  /\ UNCHANGED <<tokens, mailed, users, setup, tab, link, request, bound>>

-----------------------------------------------------------------------------
\* Accepting. The page first asks whether the token is good (previewToken).

Opens(token) == {i \in DOMAIN invitations : invitations[i].token = token /\ IsLive(i)}

Preview(token) == IF Opens(token) = {} THEN "invalid" ELSE "form"

OpenLink(m) ==
  /\ m \in mailed
  /\ link' = [link EXCEPT ![m.email] =
                [token |-> m.token, at |-> Preview(m.token), awaits |-> None]]
  /\ link' # link
  /\ UNCHANGED <<team, setup, tab, request, bound>>

\* accept, until the password is hashed.
MayAccept(e) == IF Member(e) THEN {} ELSE Opens(link[e].token)

Accept(k, e) ==
  /\ Takes(k) /\ link[e].at = "form" /\ link[e].awaits = None
  /\ \E i \in MayAccept(e) :
       Go(k, Sent("join", e, i))
  /\ link' = [link EXCEPT ![e].awaits = k]
  /\ UNCHANGED <<team, setup, tab, bound>>

\* Mistake for AcceptedOnce: no unique (tenant, e-mail).
UniqueByInvitation(e, i) == \A u \in users : u.from # i
Unique(e, i) == ~Member(e)

\* The transaction of accept: the user and the invitation, by id, or neither.
Join(k) ==
  LET e == request[k].for
      i == request[k].n
  IN
  /\ At(k, "join")
  /\ IF Unique(e, i)
     THEN /\ users' = users \cup {[email |-> e, from |-> i]}
          /\ invitations' = [invitations EXCEPT ![i].status = "ACCEPTED"]
          /\ Shown(k, "done")
     ELSE UNCHANGED <<users, invitations>> /\ Shown(k, "form")
  /\ Go(k, Free)
  /\ UNCHANGED <<tokens, mailed, setup, tab, bound>>

Fail(k) ==
  /\ ~At(k, "free") /\ bound.failures > 0
  /\ bound' = [bound EXCEPT !.failures = @ - 1]
  /\ Go(k, Free) /\ Failed(k) /\ Shown(k, "form")
  /\ UNCHANGED <<team, setup>>

-----------------------------------------------------------------------------

Working(k) ==
  \/ CreateWarehouse(k) \/ Advance(k) \/ Write(k) \/ Finish(k)
  \/ Insert(k) \/ Stamp(k) \/ Renew(k) \/ Join(k)

Next ==
  \/ \E k \in Workers : Working(k) \/ Fail(k)
  \/ \E k \in Workers, t \in Tabs, w \in BOOLEAN : Submit(k, t, w)
  \/ \E t \in Tabs : Load(t) \/ LoadFails(t) \/ Reload(t)
  \/ \E k \in Workers, e \in Emails : InviteStaff(k, e) \/ Accept(k, e)
  \/ \E k \in Workers, e \in Emails, t \in Tabs : InviteInWizard(k, e, t)
  \/ \E k \in Workers, i \in DOMAIN invitations : Resend(k, i)
  \/ \E i \in DOMAIN invitations : Expire(i)
  \/ \E m \in mailed : OpenLink(m)

\* The API runs its requests, the browser loads what it asked for, and the
\* owner goes on with the wizard in one tab, sooner or later leaving the
\* optional warehouse blank, and reloads it where it shows no form.
Fairness ==
  /\ \A k \in Workers : WF_vars(Working(k))
  /\ WF_vars(Load(MainTab) \/ LoadFails(MainTab))
  /\ WF_vars(Blank(MainTab) /\ Reload(MainTab))
  /\ SF_vars(\E k \in Workers : Submit(k, MainTab, FALSE))

Spec == Init /\ [][Next]_vars /\ Fairness

-----------------------------------------------------------------------------
\* Properties.

Places == {"free", "warehouse", "advance", "write", "finish",
           "insert", "stamp", "renew", "join"}
Rows == [step : Steps, done : SUBSET Stamped, completed : BOOLEAN]
Invitations == [email : Emails, status : {"PENDING", "ACCEPTED"},
                token : 1 .. tokens, live : BOOLEAN]
Letters == [token : 1 .. tokens, email : Emails]
TabStates == [step : Steps, form : BOOLEAN, awaits : Workers \cup {None}, loads : BOOLEAN]
Pages == [token : Nat, at : {"closed", "form", "invalid", "done"},
          awaits : Workers \cup {None}]
Requests == [at : Places, for : {None} \cup Tabs \cup Emails, n : Nat, saw : 0 .. DONE]

\* Rows, tokens, tabs, pages and requests are well formed; a user is of an
\* invitation there is (schema.prisma; page.tsx).
TypeOK ==
  /\ row \in Rows /\ warehouse \in BOOLEAN
  /\ tokens \in Nat /\ invitations \in Seq(Invitations) /\ mailed \subseteq Letters
  /\ users \subseteq [email : Emails, from : DOMAIN invitations]
  /\ tab \in [Tabs -> TabStates]
  /\ link \in [Emails -> Pages]
  /\ request \in [Workers -> Requests]
  /\ bound \in [invitations : Nat, tokens : Nat, aside : Nat, failures : Nat]

\* A tab or a page waits only for a request that is still to be answered, and
\* the accept page for one that is about its own invitation (runStep).
Awaited ==
  /\ \A t \in Tabs : tab[t].awaits # None => ~At(tab[t].awaits, "free")
  /\ \A e \in Emails : link[e].awaits # None => /\ At(link[e].awaits, "join")
                                                /\ request[link[e].awaits].for = e

\* An invitation is ACCEPTED if and only if it made an account, one e-mail has
\* one account, and a page says the account is ready only when it is: however
\* invitations are doubled, resent, opened twice and accepted concurrently
\* (StaffInvitationsService.accept).
AcceptedOnce ==
  /\ \A i \in DOMAIN invitations :
       invitations[i].status = "ACCEPTED" <=> \E u \in users : u.from = i
  /\ \A u, v \in users : u.email = v.email \/ u.from = v.from => u = v
  /\ \A e \in Emails : link[e].at = "done" => Member(e)

\* Whatever old tabs submit, the wizard stands at a step only when all those
\* before it were completed, and is done only when it was finished
\* (OnboardingService.advanceStep, "never advances out of order").
NothingSkipped ==
  /\ \A s \in Stamped : s < row.step => s \in row.done
  /\ row.step = DONE => row.completed

\* The rows, tokens and tabs stay well formed and the wizard's steps in order.
SetupInOrder == TypeOK /\ Awaited /\ NothingSkipped

\* An owner who goes on, and reloads a page that failed to load, completes the
\* setup: failed requests and loads, a reload while one is under way, an old second
\* tab and a warehouse code that is taken by the first attempt never leave a form
\* that can no longer be submitted (page.tsx, runStep).
SetupCompletes == <>row.completed

=============================================================================

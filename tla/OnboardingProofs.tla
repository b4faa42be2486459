--------------------------- MODULE OnboardingProofs ---------------------------
(***************************************************************************)
(* What Onboarding promises of every behaviour, proved for any number of   *)
(* tabs, of people who are invited and of requests at a time: the wizard   *)
(* skips no step, and an invitation makes one account.                     *)
(***************************************************************************)
EXTENDS Onboarding, TLAPS

\* The steps before s were completed.
Before(s) == \A p \in Stamped : p < s => p \in row.done

\* What a request may still do rests on what it has read, or what the tab
\* showed that sent it: none of it can be undone before the request writes.
Knows(r) ==
  /\ r.at \in {"warehouse", "advance", "write"} => r.n \in Stamped
  /\ r.at = "write" => r.saw \in Steps /\ Before(r.saw) /\ (r.saw = DONE => row.completed)
  /\ r.at = "finish" => Before(DONE)
  /\ r.at = "insert" => r.for \in Emails /\ r.n \in {0, STAFF}
  /\ r.at \in {"renew", "join"} => r.n \in DOMAIN invitations
  /\ r.at = "join" => r.for \in Emails /\ invitations[r.n].email = r.for

\* The requests a tab may wait for.
ForTab(r) ==
  \/ r.at \in {"warehouse", "advance", "write", "finish", "stamp"}
  \/ r.at = "insert" /\ r.n = STAFF

Waits ==
  /\ \A t \in Tabs : tab[t].awaits # None => ForTab(request[tab[t].awaits])
  /\ \A e \in Emails : link[e].awaits # None => /\ At(link[e].awaits, "join")
                                                /\ request[link[e].awaits].for = e
                                                /\ link[e].at = "form"

\* Every tab shows a step the wizard has come to.
InOrder ==
  /\ NothingSkipped
  /\ \A t \in Tabs : Before(tab[t].step)

\* A token is mailed to one person: who it was made for. Whoever sees the form
\* has been sent the token.
Mailed ==
  /\ \A i \in DOMAIN invitations :
       [token |-> invitations[i].token, email |-> invitations[i].email] \in mailed
  /\ \A m, o \in mailed : m.token = o.token => m.email = o.email
  /\ \A e \in Emails :
       link[e].at = "form" => [token |-> link[e].token, email |-> e] \in mailed
  /\ \A u \in users : u.email = invitations[u.from].email

Wizard == (\A k \in Workers : Knows(request[k])) /\ Waits /\ InOrder
Joined == Mailed /\ AcceptedOnce
Onboarded == TypeOK /\ Wizard /\ Joined

-----------------------------------------------------------------------------
\* What is known stays so: the wizard's columns are only ever set, and a row's
\* e-mail is never changed.
Later ==
  /\ row.done \subseteq row'.done /\ (row.completed => row'.completed)
  /\ DOMAIN invitations \subseteq DOMAIN invitations'
  /\ \A i \in DOMAIN invitations : invitations'[i].email = invitations[i].email

LEMMA KnownLater ==
  ASSUME Later
  PROVE  /\ \A s : Before(s) => Before(s)'
         /\ \A r : Knows(r) => Knows(r)'
<1>1. \A s : Before(s) => Before(s)'
  BY DEF Later, Before
<1> QED
  BY <1>1 DEF Later, Knows

LEMMA Goes ==
  ASSUME request \in [Workers -> Requests], NEW k \in Workers, NEW r \in Requests, Go(k, r)
  PROVE  /\ request' \in [Workers -> Requests]
         /\ request'[k] = r
         /\ \A j \in Workers \ {k} : request'[j] = request[j]
BY DEF Go

LEMMA Answers ==
  ASSUME tab \in [Tabs -> TabStates], NEW k \in Workers, Answered(k) \/ Failed(k)
  PROVE  /\ tab' \in [Tabs -> TabStates]
         /\ \A t \in Tabs : /\ tab'[t].step = tab[t].step
                            /\ tab'[t].awaits = IF tab[t].awaits = k THEN None ELSE tab[t].awaits
BY DEF Answered, Failed, TabStates

LEMMA Shows ==
  ASSUME link \in [Emails -> Pages], NEW k \in Workers,
         NEW p \in {"closed", "form", "invalid", "done"}, Shown(k, p)
  PROVE  /\ link' \in [Emails -> Pages]
         /\ \A e \in Emails : IF link[e].awaits = k
                              THEN /\ link'[e].awaits = None /\ link'[e].at = p
                                   /\ link'[e].token = link[e].token
                              ELSE link'[e] = link[e]
BY DEF Shown, Pages

LEMMA Widened ==
  ASSUME NEW S, NEW T, S \subseteq T, NEW s \in Seq(S)
  PROVE  s \in Seq(T)
OBVIOUS

LEMMA Updated ==
  ASSUME NEW S, NEW s \in Seq(S), NEW i \in DOMAIN s, NEW r \in S
  PROVE  LET u == [s EXCEPT ![i] = r]
         IN  /\ u \in Seq(S) /\ DOMAIN u = DOMAIN s /\ u[i] = r
             /\ \A j \in DOMAIN s : j # i => u[j] = s[j]
OBVIOUS

LEMMA Appended ==
  ASSUME NEW S, NEW s \in Seq(S), NEW r \in S
  PROVE  LET u == Append(s, r)
         IN  /\ u \in Seq(S) /\ DOMAIN u = DOMAIN s \cup {Len(s) + 1} /\ u[Len(s) + 1] = r
             /\ \A j \in DOMAIN s : j # Len(s) + 1 /\ u[j] = s[j]
OBVIOUS

LEMMA RowUpdated ==
  ASSUME TypeOK, NEW i \in DOMAIN invitations, NEW r \in Invitations',
         r.email = invitations[i].email, tokens' \in Nat, tokens <= tokens',
         invitations' = [invitations EXCEPT ![i] = r]
  PROVE  /\ invitations' \in Seq(Invitations') /\ DOMAIN invitations' = DOMAIN invitations
         /\ invitations'[i] = r
         /\ \A j \in DOMAIN invitations : j # i => invitations'[j] = invitations[j]
         /\ \A j \in DOMAIN invitations : invitations'[j].email = invitations[j].email
<1>1. Invitations \subseteq Invitations'
  BY DEF TypeOK, Invitations
<1>2. invitations \in Seq(Invitations')
  BY <1>1, Widened DEF TypeOK
<1> QED
  BY <1>2, Updated

LEMMA Endpoints ==
  ASSUME NEW s \in Steps, NEW w \in BOOLEAN
  PROVE  /\ Endpoint(s, w) \in {"finish", "warehouse", "advance"}
         /\ Endpoint(s, w) = "finish" <=> s = BILLING
<1>1. CASE s = BILLING
  BY <1>1 DEF Endpoint, BILLING, OPERATIONS
<1>2. CASE s # BILLING /\ s = OPERATIONS /\ w
  BY <1>2 DEF Endpoint, BILLING, OPERATIONS
<1>3. CASE s # BILLING /\ ~(s = OPERATIONS /\ w)
  BY <1>3 DEF Endpoint
<1> QED
  BY <1>1, <1>2, <1>3

LEMMA SentTyped ==
  ASSUME NEW a \in Places, NEW f \in {None} \cup Tabs \cup Emails, NEW n \in Nat
  PROVE  Sent(a, f, n) \in Requests
BY DEF Sent, Requests, DONE

LEMMA FreeSent == Free \in Requests /\ Free.at = "free"
BY SentTyped DEF Free, Sent, Places

LEMMA OneRequest ==
  ASSUME TypeOK, Wizard, Later, NEW k \in Workers, NEW r \in Requests, Go(k, r), Knows(r)'
  PROVE  /\ request' \in [Workers -> Requests]
         /\ request'[k] = r
         /\ \A j \in Workers \ {k} : request'[j] = request[j]
         /\ \A j \in Workers : Knows(request[j])'
<1>1. /\ request' \in [Workers -> Requests]
      /\ request'[k] = r
      /\ \A j \in Workers \ {k} : request'[j] = request[j]
  BY Goes DEF TypeOK
<1>2. \A q : Knows(q) => Knows(q)'
  BY KnownLater
<1>3. \A j \in Workers : Knows(request[j])'
  BY <1>1, <1>2 DEF Wizard, Knows
<1> QED
  BY <1>1, <1>3

\* What the team's rows are, and what holds of them, with no row written.
LEMMA TeamStays ==
  ASSUME TypeOK, UNCHANGED team
  PROVE  /\ tokens' \in Nat /\ invitations' \in Seq(Invitations') /\ mailed' \subseteq Letters'
         /\ users' \subseteq [email : Emails, from : DOMAIN invitations']
         /\ Joined /\ UNCHANGED link => Joined'
<1>1. Invitations' = Invitations /\ Letters' = Letters
  BY DEF Invitations, Letters, team
<1>2. Joined /\ UNCHANGED link => Joined'
  BY DEF Joined, Mailed, AcceptedOnce, Member, team
<1> QED
  BY <1>1, <1>2 DEF TypeOK, team

\* What the steps of the wizard's requests do to the row.
LEMMA RowMoves ==
  ASSUME Onboarded, NEW k \in Workers,
         CreateWarehouse(k) \/ Advance(k) \/ Write(k) \/ Finish(k) \/ Stamp(k)
  PROVE  row' \in Rows /\ Later /\ NothingSkipped'
<1> DEFINE r == request[k]
<1>1. row \in Rows /\ r \in Requests /\ Knows(r) /\ NothingSkipped
  BY DEF Onboarded, TypeOK, Wizard, InOrder
<1>2. UNCHANGED team
  BY DEF CreateWarehouse, Advance, Write, Finish, Stamp, setup
<1>3. CASE UNCHANGED row
  BY <1>1, <1>2, <1>3 DEF Later, NothingSkipped, team
<1>4. CASE Write(k)
  <2>1. /\ r.n \in Stamped /\ r.saw \in Steps
        /\ Before(r.saw) /\ (r.saw = DONE => row.completed)
    BY <1>1, <1>4 DEF Write, Knows, At
  <2>2. NextStep(r) \in Steps
    BY <2>1 DEF NextStep, Steps, Stamped, DONE, BILLING
  <2>3. row' = [row EXCEPT !.done = row.done \cup {r.n}, !.step = NextStep(r)]
    BY <1>4 DEF Write
  <2>4. /\ row'.done = row.done \cup {r.n}
        /\ row'.step = NextStep(r)
        /\ row'.completed = row.completed
        /\ row' \in Rows
    BY <1>1, <2>1, <2>2, <2>3 DEF Rows
  <2>5. NothingSkipped'
    BY <2>1, <2>4 DEF NothingSkipped, NextStep, Before, Steps, Stamped, DONE, BILLING
  <2> QED
    BY <1>2, <2>4, <2>5 DEF Later, team
<1>5. CASE Finish(k)
  <2>1. Before(DONE)
    BY <1>1, <1>5 DEF Finish, Knows, At
  <2>2. DONE \in Steps /\ row' = [row EXCEPT !.step = DONE, !.completed = TRUE]
    BY <1>5 DEF Finish, Steps, DONE
  <2>3. row'.done = row.done /\ row'.step = DONE /\ row'.completed /\ row' \in Rows
    BY <1>1, <2>2 DEF Rows
  <2> QED
    BY <1>2, <2>1, <2>3 DEF Later, team, NothingSkipped, Before, Stamped, DONE, BILLING
<1>6. CASE Stamp(k)
  <2>1. /\ row'.done = row.done \cup {STAFF} /\ row'.step = row.step
        /\ row'.completed = row.completed /\ row' \in Rows
    BY <1>1, <1>6 DEF Stamp, Rows, Stamped, STAFF, BILLING
  <2> QED
    BY <1>1, <1>2, <2>1 DEF Later, team, NothingSkipped
<1> QED
  BY <1>3, <1>4, <1>5, <1>6 DEF CreateWarehouse, Advance, setup

\* The tabs that wait for the request of k, once it is answered and free; none
\* of the accept page's requests is answered by it.
LEMMA TabsAnswered ==
  ASSUME Onboarded, Later, NEW k \in Workers, Answered(k) \/ Failed(k), Go(k, Free),
         ~At(k, "join"), UNCHANGED link
  PROVE  /\ tab' \in [Tabs -> TabStates]
         /\ \A t \in Tabs : Before(tab[t].step)'
         /\ Waits'
<1>1. /\ tab' \in [Tabs -> TabStates]
      /\ \A t \in Tabs : /\ tab'[t].step = tab[t].step
                         /\ tab'[t].awaits = IF tab[t].awaits = k THEN None ELSE tab[t].awaits
  BY Answers DEF Onboarded, TypeOK
<1>2. \A t \in Tabs : Before(tab[t].step)'
  <2>1. \A s : Before(s) => Before(s)'
    BY KnownLater
  <2> QED
    BY <1>1, <2>1 DEF Onboarded, Wizard, InOrder, Before
<1>3. \A j \in Workers \ {k} : request'[j] = request[j]
  BY Goes, FreeSent DEF Onboarded, TypeOK
<1>4. ASSUME NEW t \in Tabs, tab'[t].awaits # None
      PROVE  ForTab(request[tab[t].awaits])'
  <2>1. tab[t].awaits \in Workers \ {k} /\ tab'[t].awaits = tab[t].awaits
    BY <1>1, <1>4 DEF Onboarded, TypeOK, TabStates
  <2>2. ForTab(request[tab[t].awaits])
    BY <1>4, <2>1 DEF Onboarded, Wizard, Waits
  <2> QED
    BY <1>3, <2>1, <2>2 DEF ForTab
<1>5. ASSUME NEW e \in Emails, link'[e].awaits # None
      PROVE  /\ At(link[e].awaits, "join")' /\ request'[link'[e].awaits].for = e
             /\ link'[e].at = "form"
  <2>1. link[e].awaits \in Workers \ {k}
    BY <1>5 DEF Onboarded, TypeOK, Pages, Wizard, Waits
  <2> QED
    BY <1>3, <1>5, <2>1 DEF Onboarded, Wizard, Waits, At
<1> QED
  BY <1>1, <1>2, <1>4, <1>5 DEF Waits

\* No tab's request is lost where the tabs are left alone.
LEMMA TabsKept ==
  ASSUME Onboarded, Later, NEW k \in Workers, NEW r \in Requests, Go(k, r),
         ForTab(request[k]) => ForTab(r), ~At(k, "join"), UNCHANGED <<tab, link>>
  PROVE  Waits' /\ \A t \in Tabs : Before(tab[t].step)'
<1>1. request'[k] = r /\ \A j \in Workers \ {k} : request'[j] = request[j]
  BY Goes DEF Onboarded, TypeOK
<1>2. ASSUME NEW t \in Tabs PROVE Before(tab[t].step)'
  BY KnownLater DEF Onboarded, Wizard, InOrder, Before
<1>3. ASSUME NEW t \in Tabs, tab[t].awaits # None PROVE ForTab(request'[tab[t].awaits])
  <2>1. tab[t].awaits \in Workers /\ ForTab(request[tab[t].awaits])
    BY <1>3 DEF Onboarded, TypeOK, TabStates, Wizard, Waits
  <2>2. CASE tab[t].awaits = k
    BY <1>1, <2>1, <2>2
  <2>3. CASE tab[t].awaits # k
    BY <1>1, <2>1, <2>3
  <2> QED
    BY <2>2, <2>3
<1>4. ASSUME NEW e \in Emails, link[e].awaits # None
      PROVE  /\ request'[link[e].awaits].at = "join" /\ request'[link[e].awaits].for = e
             /\ link[e].at = "form"
  <2>1. link[e].awaits \in Workers \ {k}
    BY <1>4 DEF Onboarded, TypeOK, Pages, Wizard, Waits
  <2> QED
    BY <1>1, <1>4, <2>1 DEF Onboarded, Wizard, Waits, At
<1>5. Waits'
  BY <1>3, <1>4 DEF Waits, ForTab, At
<1> QED
  BY <1>2, <1>5

\* The tab that sends a request waits for it.
LEMMA TabSends ==
  ASSUME Onboarded, NEW k \in Workers, NEW r \in Requests, Go(k, r), ForTab(r),
         At(k, "free"), NEW t \in Tabs, tab' = [tab EXCEPT ![t].awaits = k],
         UNCHANGED <<team, setup, link>>
  PROVE  tab' \in [Tabs -> TabStates] /\ Waits' /\ InOrder'
<1>1. request'[k] = r /\ \A j \in Workers \ {k} : request'[j] = request[j]
  BY Goes DEF Onboarded, TypeOK
<1>2. /\ tab' \in [Tabs -> TabStates]
      /\ \A s \in Tabs : /\ tab'[s].step = tab[s].step
                         /\ tab'[s].awaits = IF s = t THEN k ELSE tab[s].awaits
  BY DEF Onboarded, TypeOK, TabStates
<1>3. InOrder'
  BY <1>2 DEF Onboarded, Wizard, InOrder, NothingSkipped, Before, setup
<1>4. ASSUME NEW s \in Tabs, tab'[s].awaits # None PROVE ForTab(request'[tab'[s].awaits])
  <2>1. CASE tab'[s].awaits = k
    BY <1>1, <2>1
  <2>2. CASE tab'[s].awaits # k
    <3>1. /\ tab'[s].awaits = tab[s].awaits /\ tab[s].awaits \in Workers
          /\ ForTab(request[tab[s].awaits])
      BY <1>2, <1>4, <2>2 DEF Onboarded, TypeOK, TabStates, Wizard, Waits
    <3> QED
      BY <1>1, <2>2, <3>1
  <2> QED
    BY <2>1, <2>2
<1>5. ASSUME NEW e \in Emails, link[e].awaits # None
      PROVE  /\ request'[link[e].awaits].at = "join" /\ request'[link[e].awaits].for = e
             /\ link[e].at = "form"
  <2>1. link[e].awaits \in Workers \ {k}
    BY <1>5 DEF Onboarded, TypeOK, Pages, Wizard, Waits, At
  <2> QED
    BY <1>1, <1>5, <2>1 DEF Onboarded, Wizard, Waits, At
<1>6. Waits'
  BY <1>4, <1>5 DEF Waits, ForTab, At
<1> QED
  BY <1>2, <1>3, <1>6

LEMMA WizardStep ==
  ASSUME Onboarded, NEW k \in Workers,
         CreateWarehouse(k) \/ Advance(k) \/ Write(k) \/ Finish(k) \/ Stamp(k)
  PROVE  Onboarded'
<1>1. row' \in Rows /\ Later /\ NothingSkipped'
  BY RowMoves
<1>2. UNCHANGED <<team, link, bound>> /\ ~At(k, "join") /\ warehouse' \in BOOLEAN
  BY DEF CreateWarehouse, Advance, Write, Finish, Stamp, At, setup, Onboarded, TypeOK
<1>3. request[k] \in Requests /\ Knows(request[k])
  BY DEF Onboarded, TypeOK, Wizard
<1>4. PICK r \in Requests :
        /\ Go(k, r) /\ Knows(r)'
        /\ \/ r = Free /\ (Answered(k) \/ Failed(k))
           \/ UNCHANGED tab /\ (ForTab(request[k]) => ForTab(r))
  <2>1. CASE Go(k, Free) /\ (Answered(k) \/ Failed(k))
    BY <2>1, FreeSent DEF Knows
  <2>2. CASE CreateWarehouse(k) /\ ~warehouse
    <3> DEFINE r == [request[k] EXCEPT !.at = "advance"]
    <3>1. r \in Requests /\ r.at = "advance" /\ r.n = request[k].n /\ Go(k, r)
      BY <1>3, <2>2 DEF CreateWarehouse, Requests, Places
    <3> QED
      BY <1>3, <2>2, <3>1 DEF CreateWarehouse, At, Knows, ForTab
  <2>3. CASE Advance(k)
    <3> DEFINE r == [request[k] EXCEPT !.at = "write", !.saw = row.step]
    <3>1. row.step \in Steps /\ row.step \in 0 .. DONE
      BY DEF Onboarded, TypeOK, Rows, Steps, DONE
    <3>2. r \in Requests /\ r.at = "write" /\ r.n = request[k].n /\ r.saw = row.step /\ Go(k, r)
      BY <1>3, <2>3, <3>1 DEF Advance, Requests, Places
    <3>3. Before(row.step) /\ (row.step = DONE => row.completed) /\ UNCHANGED row
      BY <2>3 DEF Onboarded, Wizard, InOrder, NothingSkipped, Before, Advance, setup
    <3> QED
      BY <1>3, <2>3, <3>1, <3>2, <3>3 DEF Advance, At, Knows, Before, ForTab
  <2> QED
    BY <2>1, <2>2, <2>3 DEF CreateWarehouse, Write, Finish, Stamp
<1>5. request' \in [Workers -> Requests] /\ \A j \in Workers : Knows(request[j])'
  BY <1>1, <1>4, OneRequest DEF Onboarded
<1>6. tab' \in [Tabs -> TabStates] /\ Waits' /\ \A t \in Tabs : Before(tab[t].step)'
  <2>1. CASE UNCHANGED tab /\ (ForTab(request[k]) => ForTab(r))
    BY <1>1, <1>2, <1>4, <2>1, TabsKept DEF Onboarded, TypeOK
  <2>2. CASE r = Free /\ (Answered(k) \/ Failed(k))
    BY <1>1, <1>2, <1>4, <2>2, TabsAnswered
  <2> QED
    BY <1>4, <2>1, <2>2
<1>7. Joined'
  BY <1>2, TeamStays DEF Onboarded
<1> QED
  BY <1>1, <1>2, <1>5, <1>6, <1>7, TeamStays DEF Onboarded, TypeOK, Wizard, InOrder

LEMMA SubmitStep ==
  ASSUME Onboarded, NEW k \in Workers, NEW t \in Tabs, NEW w \in BOOLEAN, Submit(k, t, w)
  PROVE  Onboarded'
<1> DEFINE s == tab[t].step
           r == Sent(Endpoint(s, w), t, s)
<1>1. /\ s \in Steps /\ s # DONE /\ Go(k, r) /\ At(k, "free")
      /\ tab' = [tab EXCEPT ![t].awaits = k] /\ UNCHANGED <<team, setup, link>>
  BY DEF Submit, Takes, Onboarded, TypeOK, TabStates
<1>2. Endpoint(s, w) \in {"finish", "warehouse", "advance"} /\ (Endpoint(s, w) = "finish" <=> s = BILLING)
  BY <1>1, Endpoints
<1>3. r \in Requests /\ r.at = Endpoint(s, w) /\ r.n = s
  <2>1. s \in Nat /\ Endpoint(s, w) \in Places
    BY <1>1, <1>2 DEF Steps, Places
  <2> QED
    BY <2>1, SentTyped DEF Sent
<1>4. Later
  BY <1>1 DEF Later, team, setup
<1>5. Knows(r)'
  <2>1. Before(s)
    BY DEF Onboarded, Wizard, InOrder
  <2>2. CASE s = BILLING
    BY <1>1, <1>2, <1>3, <2>1, <2>2 DEF Knows, Before, setup, Stamped, DONE, BILLING
  <2>3. CASE s # BILLING
    BY <1>1, <1>2, <1>3, <2>3 DEF Knows, Steps, Stamped, DONE, BILLING
  <2> QED
    BY <2>2, <2>3
<1>6. request' \in [Workers -> Requests] /\ \A j \in Workers : Knows(request[j])'
  BY <1>1, <1>3, <1>4, <1>5, OneRequest DEF Onboarded
<1>7. tab' \in [Tabs -> TabStates] /\ Waits' /\ InOrder'
  BY <1>1, <1>2, <1>3, TabSends DEF ForTab
<1>8. bound' \in [invitations : Nat, tokens : Nat, aside : Nat, failures : Nat]
  BY DEF Onboarded, TypeOK, Submit, Counted, Aside
<1> QED
  BY <1>1, <1>6, <1>7, <1>8, TeamStays DEF Onboarded, TypeOK, Wizard, setup

LEMMA InviteInWizardStep ==
  ASSUME Onboarded, NEW k \in Workers, NEW e \in Emails, NEW t \in Tabs,
         InviteInWizard(k, e, t)
  PROVE  Onboarded'
<1> DEFINE r == Sent("insert", e, STAFF)
<1>1. /\ Go(k, r) /\ At(k, "free")
      /\ tab' = [tab EXCEPT ![t].awaits = k] /\ UNCHANGED <<team, setup, link>>
  BY DEF InviteInWizard, Takes
<1>2. r \in Requests /\ r.at = "insert" /\ r.n = STAFF /\ r.for = e
  BY SentTyped DEF Sent, Places, STAFF
<1>3. Later
  BY <1>1 DEF Later, team, setup
<1>4. Knows(r)'
  BY <1>2 DEF Knows
<1>5. request' \in [Workers -> Requests] /\ \A j \in Workers : Knows(request[j])'
  BY <1>1, <1>2, <1>3, <1>4, OneRequest DEF Onboarded
<1>6. tab' \in [Tabs -> TabStates] /\ Waits' /\ InOrder'
  BY <1>1, <1>2, TabSends DEF ForTab
<1>7. bound' \in [invitations : Nat, tokens : Nat, aside : Nat, failures : Nat]
  BY DEF Onboarded, TypeOK, InviteInWizard, Counted, Aside
<1> QED
  BY <1>1, <1>5, <1>6, <1>7, TeamStays DEF Onboarded, TypeOK, Wizard, setup

\* A tab that loads shows the step the wizard has come to.
LEMMA TabStep ==
  ASSUME Onboarded, NEW t \in Tabs, Load(t) \/ LoadFails(t) \/ Reload(t)
  PROVE  Onboarded'
<1>1. UNCHANGED <<team, setup, link, request>>
  BY DEF Load, LoadFails, Reload
<1>2. /\ tab' \in [Tabs -> TabStates]
      /\ \A s \in Tabs : /\ tab'[s].step \in {tab[s].step, row.step}
                         /\ tab'[s].awaits \in {tab[s].awaits, None}
  <2>1. tab \in [Tabs -> TabStates] /\ row.step \in Steps
    BY DEF Onboarded, TypeOK, Rows
  <2>2. CASE Load(t)
    BY <2>1, <2>2 DEF Load, TabStates
  <2>3. CASE LoadFails(t)
    BY <2>1, <2>3 DEF LoadFails, TabStates
  <2>4. CASE Reload(t)
    BY <2>1, <2>4 DEF Reload, TabStates
  <2> QED
    BY <2>2, <2>3, <2>4
<1>3. InOrder'
  <2>1. NothingSkipped' /\ Before(row.step) /\ \A s \in Tabs : Before(tab[s].step)
    BY <1>1 DEF Onboarded, Wizard, InOrder, NothingSkipped, Before, setup
  <2> QED
    BY <1>1, <1>2, <2>1 DEF InOrder, Before, setup
<1>4. Waits'
  <2>1. Waits
    BY DEF Onboarded, Wizard
  <2> QED
    BY <1>1, <1>2, <2>1 DEF Waits, ForTab, At
<1>5. \A j \in Workers : Knows(request[j])'
  BY <1>1 DEF Onboarded, Wizard, Knows, Before, team, setup
<1>6. bound' \in [invitations : Nat, tokens : Nat, aside : Nat, failures : Nat]
  BY DEF Onboarded, TypeOK, Load, LoadFails, Reload, Aside
<1> QED
  BY <1>1, <1>2, <1>3, <1>4, <1>5, <1>6, TeamStays DEF Onboarded, TypeOK, Wizard, setup

LEMMA StaffPageStep ==
  ASSUME Onboarded, NEW k \in Workers,
         \/ \E e \in Emails : InviteStaff(k, e)
         \/ \E i \in DOMAIN invitations : Resend(k, i)
  PROVE  Onboarded'
<1>1. At(k, "free") /\ UNCHANGED <<team, setup, tab, link, bound>>
  BY DEF InviteStaff, Resend, Takes
<1>2. PICK r \in Requests : Go(k, r) /\ Knows(r)
  <2>1. ASSUME NEW e \in Emails, InviteStaff(k, e)
        PROVE  \E r \in Requests : Go(k, r) /\ Knows(r)
    <3> DEFINE r == Sent("insert", e, 0)
    <3>1. r \in Requests /\ r.at = "insert" /\ r.n = 0 /\ r.for = e /\ Go(k, r)
      BY <2>1, SentTyped DEF InviteStaff, Sent, Places
    <3> QED
      BY <3>1 DEF Knows
  <2>2. ASSUME NEW i \in DOMAIN invitations, Resend(k, i)
        PROVE  \E r \in Requests : Go(k, r) /\ Knows(r)
    <3> DEFINE r == Sent("renew", None, i)
    <3>1. i \in Nat
      BY DEF Onboarded, TypeOK
    <3>2. r \in Requests /\ r.at = "renew" /\ r.n = i /\ Go(k, r)
      BY <2>2, <3>1, SentTyped DEF Resend, Sent, Places
    <3> QED
      BY <3>2 DEF Knows
  <2> QED
    BY <2>1, <2>2
<1>3. Later
  BY <1>1 DEF Later, team, setup
<1>4. Knows(r)'
  BY <1>2, <1>3, KnownLater
<1>5. request' \in [Workers -> Requests] /\ \A j \in Workers : Knows(request[j])'
  BY <1>2, <1>3, <1>4, OneRequest DEF Onboarded
<1>6. Waits' /\ \A t \in Tabs : Before(tab[t].step)'
  BY <1>1, <1>2, <1>3, TabsKept DEF At, ForTab
<1>7. NothingSkipped'
  BY <1>1 DEF Onboarded, Wizard, InOrder, NothingSkipped, setup
<1> QED
  BY <1>1, <1>5, <1>6, <1>7, TeamStays DEF Onboarded, TypeOK, Wizard, InOrder, setup

LEMMA InsertStep ==
  ASSUME Onboarded, NEW k \in Workers, Insert(k)
  PROVE  Onboarded'
<1> DEFINE e == request[k].for
           i == [email |-> e, status |-> "PENDING", token |-> tokens + 1, live |-> TRUE]
           m == [token |-> tokens + 1, email |-> e]
<1>1. /\ At(k, "insert") /\ UNCHANGED <<users, setup, tab, link, bound>>
      /\ tokens' = tokens + 1 /\ mailed' = mailed \cup {m}
      /\ invitations' = Append(invitations, i)
  BY DEF Insert, Mail
<1>2. e \in Emails /\ request[k].n \in {0, STAFF} /\ request[k] \in Requests
  BY <1>1 DEF Onboarded, TypeOK, Wizard, Knows, At
<1>3. /\ tokens' \in Nat /\ Invitations \subseteq Invitations' /\ Letters \subseteq Letters'
      /\ i \in Invitations' /\ m \in Letters'
  BY <1>1, <1>2 DEF Onboarded, TypeOK, Invitations, Letters
<1>4. /\ invitations' \in Seq(Invitations')
      /\ DOMAIN invitations' = DOMAIN invitations \cup {Len(invitations) + 1}
      /\ invitations'[Len(invitations) + 1] = i
      /\ \A j \in DOMAIN invitations : /\ j # Len(invitations) + 1
                                       /\ invitations'[j] = invitations[j]
  <2>1. invitations \in Seq(Invitations')
    BY <1>3, Widened DEF Onboarded, TypeOK
  <2> QED
    BY <1>1, <1>3, <2>1, Appended
<1>5. mailed' \subseteq Letters' /\ users' \subseteq [email : Emails, from : DOMAIN invitations']
  BY <1>1, <1>3, <1>4 DEF Onboarded, TypeOK
<1>6. Later
  BY <1>1, <1>4 DEF Later, setup
<1>7. PICK r \in Requests : Go(k, r) /\ Knows(r)' /\ (ForTab(request[k]) => ForTab(r))
  <2>1. CASE request[k].n = 0
    BY <1>1, <2>1, FreeSent DEF Insert, Knows, ForTab, At, STAFF
  <2>2. CASE request[k].n # 0
    <3> DEFINE r == [request[k] EXCEPT !.at = "stamp"]
    <3>1. r \in Requests /\ r.at = "stamp" /\ Go(k, r)
      BY <1>2, <2>2 DEF Insert, Requests, Places
    <3> QED
      BY <3>1 DEF Knows, ForTab
  <2> QED
    BY <2>1, <2>2
<1>8. request' \in [Workers -> Requests] /\ \A j \in Workers : Knows(request[j])'
  BY <1>6, <1>7, OneRequest DEF Onboarded
<1>9. Waits' /\ \A t \in Tabs : Before(tab[t].step)'
  BY <1>1, <1>6, <1>7, TabsKept DEF At
<1>10. NothingSkipped'
  BY <1>1 DEF Onboarded, Wizard, InOrder, NothingSkipped, setup
<1>11. Mailed'
  <2>1. \A o \in mailed : o.token # tokens + 1
    BY DEF Onboarded, TypeOK, Letters
  <2>2. Mailed
    BY DEF Onboarded, Joined
  <2>3. \A j \in DOMAIN invitations' :
          [token |-> invitations'[j].token, email |-> invitations'[j].email] \in mailed'
    BY <1>1, <1>4, <2>2 DEF Mailed
  <2>4. \A o, p \in mailed' : o.token = p.token => o.email = p.email
    BY <1>1, <2>1, <2>2 DEF Mailed
  <2>5. \A u \in users : u.from \in DOMAIN invitations
    BY DEF Onboarded, TypeOK
  <2> QED
    BY <1>1, <1>4, <2>2, <2>3, <2>4, <2>5 DEF Mailed
<1>12. AcceptedOnce'
  <2>1. \A u \in users : u.from \in DOMAIN invitations
    BY DEF Onboarded, TypeOK
  <2> QED
    BY <1>1, <1>4, <2>1 DEF Onboarded, Joined, AcceptedOnce, Member
<1> QED
  BY <1>1, <1>3, <1>4, <1>5, <1>8, <1>9, <1>10, <1>11, <1>12
     DEF Onboarded, TypeOK, Wizard, InOrder, Joined, setup

\* A row gets a new token, or its token expires.
LEMMA TokenChanged ==
  ASSUME NEW v \in Invitations, tokens \in Nat, tokens' \in Nat, tokens <= tokens',
         NEW t \in 1 .. tokens'
  PROVE  LET renewed == [v EXCEPT !.token = t, !.live = TRUE]
             expired == [v EXCEPT !.live = FALSE]
         IN  /\ renewed \in Invitations' /\ renewed.token = t
             /\ renewed.email = v.email /\ renewed.status = v.status
             /\ expired \in Invitations' /\ expired.token = v.token
             /\ expired.email = v.email /\ expired.status = v.status
<1>1. v.token \in 1 .. tokens'
  BY DEF Invitations
<1>2. v \in [email : Emails, status : {"PENDING", "ACCEPTED"}, token : 1 .. tokens', live : BOOLEAN]
  BY <1>1 DEF Invitations
<1> DEFINE renewed == [v EXCEPT !.token = t, !.live = TRUE]
           expired == [v EXCEPT !.live = FALSE]
<1>3. /\ renewed \in Invitations' /\ renewed.token = t
      /\ renewed.email = v.email /\ renewed.status = v.status
  BY <1>2 DEF Invitations
<1>4. /\ expired \in Invitations' /\ expired.token = v.token
      /\ expired.email = v.email /\ expired.status = v.status
  BY <1>2 DEF Invitations
<1> QED
  BY <1>3, <1>4

LEMMA RenewStep ==
  ASSUME Onboarded, NEW k \in Workers, Renew(k)
  PROVE  Onboarded'
<1> DEFINE i == request[k].n
           r == [invitations[i] EXCEPT !.token = tokens + 1, !.live = TRUE]
           m == [token |-> tokens + 1, email |-> invitations[i].email]
<1>1. /\ At(k, "renew") /\ Go(k, Free) /\ UNCHANGED <<users, setup, tab, link, bound>>
      /\ tokens' = tokens + 1 /\ mailed' = mailed \cup {m}
      /\ invitations' = [invitations EXCEPT ![i].token = tokens + 1, ![i].live = TRUE]
  BY DEF Renew, Mail
<1>2. i \in DOMAIN invitations
  BY <1>1 DEF Onboarded, Wizard, Knows, At
<1>3. invitations[i] \in Invitations
  BY <1>2 DEF Onboarded, TypeOK
<1>4. /\ tokens' \in Nat /\ tokens <= tokens' /\ Letters \subseteq Letters'
      /\ r \in Invitations' /\ m \in Letters'
      /\ r.email = invitations[i].email /\ r.status = invitations[i].status
      /\ r.token = tokens + 1
  <2>1. tokens \in Nat /\ tokens' \in Nat /\ tokens <= tokens' /\ tokens + 1 \in 1 .. tokens'
    BY <1>1 DEF Onboarded, TypeOK
  <2>2. Letters \subseteq Letters' /\ m \in Letters'
    BY <1>3, <2>1 DEF Letters, Invitations
  <2> QED
    BY <1>3, <2>1, <2>2, TokenChanged
<1>5. invitations' = [invitations EXCEPT ![i] = r]
  BY <1>1, <1>2 DEF Onboarded, TypeOK
<1>6. /\ invitations' \in Seq(Invitations') /\ DOMAIN invitations' = DOMAIN invitations
      /\ invitations'[i] = r
      /\ \A j \in DOMAIN invitations : j # i => invitations'[j] = invitations[j]
      /\ \A j \in DOMAIN invitations : invitations'[j].email = invitations[j].email
  BY <1>2, <1>4, <1>5, RowUpdated DEF Onboarded
<1>7. mailed' \subseteq Letters' /\ users' \subseteq [email : Emails, from : DOMAIN invitations']
  BY <1>1, <1>4, <1>6 DEF Onboarded, TypeOK
<1>8. Later
  BY <1>1, <1>6 DEF Later, setup
<1>9. request' \in [Workers -> Requests] /\ \A j \in Workers : Knows(request[j])'
  BY <1>1, <1>8, FreeSent, OneRequest DEF Onboarded, Knows
<1>10. Waits' /\ \A t \in Tabs : Before(tab[t].step)'
  BY <1>1, <1>8, FreeSent, TabsKept DEF At, ForTab
<1>11. NothingSkipped'
  BY <1>1 DEF Onboarded, Wizard, InOrder, NothingSkipped, setup
<1> HIDE DEF i, r, m
<1>12. Mailed'
  <2>1. /\ mailed' = mailed \cup {m} /\ users' = users /\ link' = link
        /\ \A o \in mailed : o.token # m.token
    BY <1>1 DEF Onboarded, TypeOK, Letters, team, m
  <2>2. Mailed
    BY DEF Onboarded, Joined
  <2>3. m = [token |-> r.token, email |-> r.email]
    BY <1>4 DEF m
  <2>4. ASSUME NEW j \in DOMAIN invitations'
        PROVE  [token |-> invitations'[j].token, email |-> invitations'[j].email] \in mailed'
    <3>1. CASE j = i
      BY <1>6, <2>1, <2>3, <3>1
    <3>2. CASE j # i
      BY <1>6, <2>1, <2>2, <3>2 DEF Mailed
    <3> QED
      BY <3>1, <3>2
  <2>5. \A o, p \in mailed' : o.token = p.token => o.email = p.email
    BY <2>1, <2>2 DEF Mailed
  <2>6. \A e \in Emails :
          link'[e].at = "form" => [token |-> link'[e].token, email |-> e] \in mailed'
    BY <2>1, <2>2 DEF Mailed
  <2>7. \A u \in users' : u.email = invitations'[u.from].email
    <3>1. \A u \in users : u.from \in DOMAIN invitations
      BY DEF Onboarded, TypeOK
    <3> QED
      BY <1>6, <2>1, <2>2, <3>1 DEF Mailed
  <2> QED
    BY <2>4, <2>5, <2>6, <2>7 DEF Mailed
<1>13. AcceptedOnce'
  <2>1. /\ DOMAIN invitations' = DOMAIN invitations /\ users' = users /\ link' = link
        /\ \A j \in DOMAIN invitations' : invitations'[j].status = invitations[j].status
    BY <1>1, <1>4, <1>6
  <2>2. AcceptedOnce
    BY DEF Onboarded, Joined
  <2> QED
    BY <2>1, <2>2 DEF AcceptedOnce, Member
<1> QED
  BY <1>1, <1>4, <1>6, <1>7, <1>9, <1>10, <1>11, <1>12, <1>13
     DEF Onboarded, TypeOK, Wizard, InOrder, Joined, setup

LEMMA ExpireStep ==
  ASSUME Onboarded, NEW i \in DOMAIN invitations, Expire(i)
  PROVE  Onboarded'
<1> DEFINE r == [invitations[i] EXCEPT !.live = FALSE]
<1>1. /\ UNCHANGED <<tokens, mailed, users, setup, tab, link, request, bound>>
      /\ invitations' = [invitations EXCEPT ![i].live = FALSE]
  BY DEF Expire
<1>2. tokens' \in Nat /\ tokens <= tokens' /\ Letters' = Letters /\ Invitations' = Invitations
  BY <1>1 DEF Onboarded, TypeOK, Letters, Invitations
<1>3. /\ r \in Invitations' /\ r.email = invitations[i].email
      /\ r.status = invitations[i].status /\ r.token = invitations[i].token
  <2>1. invitations[i] \in Invitations /\ tokens \in Nat
    BY DEF Onboarded, TypeOK
  <2>2. invitations[i].token \in 1 .. tokens'
    BY <1>1, <2>1 DEF Invitations
  <2> QED
    BY <1>2, <2>1, <2>2, TokenChanged
<1>4. /\ invitations' \in Seq(Invitations') /\ DOMAIN invitations' = DOMAIN invitations
      /\ \A j \in DOMAIN invitations : /\ invitations'[j].email = invitations[j].email
                                       /\ invitations'[j].status = invitations[j].status
                                       /\ invitations'[j].token = invitations[j].token
  <2>1. invitations' = [invitations EXCEPT ![i] = r]
    BY <1>1 DEF Onboarded, TypeOK
  <2> QED
    BY <1>2, <1>3, <2>1, RowUpdated DEF Onboarded
<1>5. Later
  BY <1>1, <1>4 DEF Later, setup
<1>6. (\A j \in Workers : Knows(request[j])') /\ \A t \in Tabs : Before(tab[t].step)'
  BY <1>1, <1>5, KnownLater DEF Onboarded, Wizard, InOrder, Knows, Before
<1>7. Waits' /\ NothingSkipped'
  BY <1>1 DEF Onboarded, Wizard, Waits, ForTab, At, InOrder, NothingSkipped, setup
<1>8. Mailed'
  <2>1. \A u \in users : u.from \in DOMAIN invitations
    BY DEF Onboarded, TypeOK
  <2> QED
    BY <1>1, <1>4, <2>1 DEF Onboarded, Joined, Mailed
<1>9. AcceptedOnce'
  BY <1>1, <1>4 DEF Onboarded, Joined, AcceptedOnce, Member
<1> QED
  BY <1>1, <1>2, <1>4, <1>6, <1>7, <1>8, <1>9 DEF Onboarded, TypeOK, Wizard, InOrder, Joined, setup

-----------------------------------------------------------------------------
\* The accept page.

LEMMA OpenLinkStep ==
  ASSUME Onboarded, NEW m \in mailed, OpenLink(m)
  PROVE  Onboarded'
<1> DEFINE p == [token |-> m.token, at |-> Preview(m.token), awaits |-> None]
<1>1. UNCHANGED <<team, setup, tab, request, bound>> /\ link' = [link EXCEPT ![m.email] = p]
  BY DEF OpenLink
<1>2. m.token \in Nat /\ m.email \in Emails /\ m = [token |-> m.token, email |-> m.email]
  BY DEF Onboarded, TypeOK, Letters
<1>3. p \in Pages /\ p.at \in {"invalid", "form"} /\ p.awaits = None /\ p.token = m.token
  BY <1>2 DEF Preview, Pages
<1>4. link' \in [Emails -> Pages] /\ \A e \in Emails : link'[e] = IF e = m.email THEN p ELSE link[e]
  BY <1>1, <1>2, <1>3 DEF Onboarded, TypeOK
<1>5. Waits'
  BY <1>1, <1>3, <1>4 DEF Onboarded, Wizard, Waits, ForTab, At
<1>6. InOrder' /\ \A j \in Workers : Knows(request[j])'
  BY <1>1 DEF Onboarded, Wizard, InOrder, NothingSkipped, Before, Knows, team, setup
<1>7. Mailed'
  BY <1>1, <1>2, <1>3, <1>4 DEF Onboarded, Joined, Mailed, team
<1>8. AcceptedOnce'
  BY <1>1, <1>3, <1>4 DEF Onboarded, Joined, AcceptedOnce, Member, team
<1> QED
  BY <1>1, <1>4, <1>5, <1>6, <1>7, <1>8, TeamStays DEF Onboarded, TypeOK, Wizard, Joined, setup

LEMMA AcceptStep ==
  ASSUME Onboarded, NEW k \in Workers, NEW e \in Emails, Accept(k, e)
  PROVE  Onboarded'
<1>1. /\ At(k, "free") /\ link[e].at = "form" /\ UNCHANGED <<team, setup, tab, bound>>
      /\ link' = [link EXCEPT ![e].awaits = k]
  BY DEF Accept, Takes
<1>2. PICK i \in MayAccept(e) : Go(k, Sent("join", e, i))
  BY DEF Accept
<1>3. i \in DOMAIN invitations /\ i \in Nat /\ invitations[i].token = link[e].token
  BY DEF MayAccept, Opens, Onboarded, TypeOK
<1>4. invitations[i].email = e
  <2>1. /\ [token |-> link[e].token, email |-> e] \in mailed
        /\ [token |-> invitations[i].token, email |-> invitations[i].email] \in mailed
    BY <1>1, <1>3 DEF Onboarded, Joined, Mailed
  <2> QED
    BY <1>3, <2>1 DEF Onboarded, Joined, Mailed
<1> DEFINE r == Sent("join", e, i)
<1>5. r \in Requests /\ r.at = "join" /\ r.for = e /\ r.n = i
  BY <1>3, SentTyped DEF Sent, Places
<1>6. Later
  BY <1>1 DEF Later, team, setup
<1>7. Knows(r)'
  BY <1>1, <1>3, <1>4, <1>5 DEF Knows, team
<1>8. /\ request' \in [Workers -> Requests] /\ request'[k] = r
      /\ \A j \in Workers \ {k} : request'[j] = request[j]
      /\ \A j \in Workers : Knows(request[j])'
  BY <1>2, <1>5, <1>6, <1>7, OneRequest DEF Onboarded
<1>9. /\ link' \in [Emails -> Pages]
      /\ \A f \in Emails : /\ link'[f].at = link[f].at /\ link'[f].token = link[f].token
                           /\ link'[f].awaits = IF f = e THEN k ELSE link[f].awaits
  BY <1>1 DEF Onboarded, TypeOK, Pages
<1>10. ASSUME NEW t \in Tabs, tab[t].awaits # None PROVE ForTab(request'[tab[t].awaits])
  <2>1. tab[t].awaits \in Workers \ {k} /\ ForTab(request[tab[t].awaits])
    BY <1>1, <1>10 DEF Onboarded, TypeOK, TabStates, Wizard, Waits, ForTab, At
  <2> QED
    BY <1>8, <2>1
<1>11. ASSUME NEW f \in Emails, link'[f].awaits # None
       PROVE  /\ request'[link'[f].awaits].at = "join" /\ request'[link'[f].awaits].for = f
              /\ link'[f].at = "form"
  <2>1. CASE f = e
    BY <1>1, <1>5, <1>8, <1>9, <2>1
  <2>2. CASE f # e
    <3>1. link[f].awaits \in Workers \ {k} /\ link'[f].awaits = link[f].awaits
      BY <1>1, <1>9, <1>11, <2>2 DEF Onboarded, TypeOK, Pages, Wizard, Waits, At
    <3> QED
      BY <1>8, <1>9, <1>11, <3>1 DEF Onboarded, Wizard, Waits, At
  <2> QED
    BY <2>1, <2>2
<1>12. Waits'
  BY <1>1, <1>10, <1>11 DEF Waits, ForTab, At
<1>13. InOrder'
  BY <1>1 DEF Onboarded, Wizard, InOrder, NothingSkipped, Before, setup
<1>14. Joined'
  BY <1>1, <1>9 DEF Onboarded, Joined, Mailed, AcceptedOnce, Member, team
<1> QED
  BY <1>1, <1>8, <1>9, <1>12, <1>13, <1>14, TeamStays DEF Onboarded, TypeOK, Wizard, setup

\* A request ends, and nobody waits for it any more.
LEMMA PagesAnswered ==
  ASSUME Onboarded, NEW k \in Workers, NEW p \in {"done", "form"}, Go(k, Free), Shown(k, p),
         \A t \in Tabs : tab'[t].awaits = IF tab[t].awaits = k THEN None ELSE tab[t].awaits
  PROVE  /\ link' \in [Emails -> Pages] /\ Waits'
         /\ \A e \in Emails :
              /\ link'[e].token = link[e].token
              /\ \/ link'[e].at = link[e].at
                 \/ link[e].awaits = k /\ link[e].at = "form" /\ link'[e].at = p
<1>1. /\ link' \in [Emails -> Pages]
      /\ \A e \in Emails : IF link[e].awaits = k
                           THEN /\ link'[e].awaits = None /\ link'[e].at = p
                                /\ link'[e].token = link[e].token
                           ELSE link'[e] = link[e]
  BY Shows DEF Onboarded, TypeOK
<1>2. \A j \in Workers \ {k} : request'[j] = request[j]
  BY Goes, FreeSent DEF Onboarded, TypeOK
<1>3. k # None
  BY NoneAssumption
<1>4. ASSUME NEW e \in Emails, link[e].awaits = k PROVE link[e].at = "form"
  BY <1>3, <1>4 DEF Onboarded, Wizard, Waits
<1>5. ASSUME NEW t \in Tabs, tab'[t].awaits # None PROVE ForTab(request'[tab'[t].awaits])
  <2>1. tab[t].awaits \in Workers \ {k} /\ tab'[t].awaits = tab[t].awaits
    BY <1>5 DEF Onboarded, TypeOK, TabStates
  <2>2. ForTab(request[tab[t].awaits])
    BY <1>5, <2>1 DEF Onboarded, Wizard, Waits
  <2> QED
    BY <1>2, <2>1, <2>2
<1>6. ASSUME NEW e \in Emails, link'[e].awaits # None
      PROVE  /\ request'[link'[e].awaits].at = "join" /\ request'[link'[e].awaits].for = e
             /\ link'[e].at = "form"
  <2>1. link'[e] = link[e] /\ link[e].awaits \in Workers \ {k}
    BY <1>1, <1>6 DEF Onboarded, TypeOK, Pages
  <2> QED
    BY <1>2, <1>6, <2>1 DEF Onboarded, Wizard, Waits, At
<1>7. Waits'
  BY <1>5, <1>6 DEF Waits, ForTab, At
<1> QED
  BY <1>1, <1>4, <1>7

LEMMA FailStep ==
  ASSUME Onboarded, NEW k \in Workers, Fail(k)
  PROVE  Onboarded'
<1>1. Go(k, Free) /\ Failed(k) /\ Shown(k, "form") /\ UNCHANGED <<team, setup>>
  BY DEF Fail
<1>2. /\ tab' \in [Tabs -> TabStates]
      /\ \A t \in Tabs : /\ tab'[t].step = tab[t].step
                         /\ tab'[t].awaits = IF tab[t].awaits = k THEN None ELSE tab[t].awaits
  BY <1>1, Answers DEF Onboarded, TypeOK
<1>3. /\ link' \in [Emails -> Pages] /\ Waits'
      /\ \A e \in Emails : link'[e].token = link[e].token /\ link'[e].at = link[e].at
  BY <1>1, <1>2, PagesAnswered
<1>4. Later
  BY <1>1 DEF Later, team, setup
<1>5. request' \in [Workers -> Requests] /\ \A j \in Workers : Knows(request[j])'
  BY <1>1, <1>4, FreeSent, OneRequest DEF Onboarded, Knows
<1>6. InOrder'
  BY <1>1, <1>2 DEF Onboarded, Wizard, InOrder, NothingSkipped, Before, setup
<1>7. Joined'
  BY <1>1, <1>3 DEF Onboarded, Joined, Mailed, AcceptedOnce, Member, team
<1>8. bound' \in [invitations : Nat, tokens : Nat, aside : Nat, failures : Nat]
  BY SMTT(30) DEF Onboarded, TypeOK, Fail
<1> QED
  BY <1>1, <1>2, <1>3, <1>5, <1>6, <1>7, <1>8, TeamStays DEF Onboarded, TypeOK, Wizard, setup

LEMMA JoinStep ==
  ASSUME Onboarded, NEW k \in Workers, Join(k)
  PROVE  Onboarded'
<1> DEFINE e == request[k].for
           i == request[k].n
<1>1. /\ At(k, "join") /\ Go(k, Free) /\ UNCHANGED <<tokens, mailed, setup, tab, bound>>
  BY DEF Join
<1>2. e \in Emails /\ i \in DOMAIN invitations /\ invitations[i].email = e
  BY <1>1 DEF Onboarded, Wizard, Knows, At
<1>3. ASSUME NEW t \in Tabs PROVE tab[t].awaits # k
  BY <1>1, NoneAssumption DEF Onboarded, Wizard, Waits, ForTab, At
<1>4. \A f \in Emails : link[f].awaits = k => f = e
  BY NoneAssumption DEF Onboarded, Wizard, Waits
<1>5. NothingSkipped' /\ UNCHANGED row
  BY <1>1 DEF Onboarded, Wizard, InOrder, NothingSkipped, setup
<1>6. CASE Member(e)
  <2>1. UNCHANGED team /\ Shown(k, "form")
    BY <1>1, <1>6 DEF Join, Unique, team
  <2>2. /\ link' \in [Emails -> Pages] /\ Waits'
        /\ \A f \in Emails : link'[f].token = link[f].token /\ link'[f].at = link[f].at
    BY <1>1, <1>3, <2>1, PagesAnswered
  <2>3. Later
    BY <1>5, <2>1 DEF Later, team
  <2>4. request' \in [Workers -> Requests] /\ \A j \in Workers : Knows(request[j])'
    BY <1>1, <2>3, FreeSent, OneRequest DEF Onboarded, Knows
  <2>5. InOrder'
    BY <1>1, <1>5 DEF Onboarded, Wizard, InOrder, Before
  <2>6. Joined'
    BY <2>1, <2>2 DEF Onboarded, Joined, Mailed, AcceptedOnce, Member, team
  <2> QED
    BY <1>1, <2>1, <2>2, <2>4, <2>5, <2>6, TeamStays DEF Onboarded, TypeOK, Wizard, setup
<1>7. CASE ~Member(e)
  <2> DEFINE r == [invitations[i] EXCEPT !.status = "ACCEPTED"]
             n == [email |-> e, from |-> i]
  <2>1. /\ users' = users \cup {n} /\ Shown(k, "done")
        /\ invitations' = [invitations EXCEPT ![i].status = "ACCEPTED"]
    BY <1>7 DEF Join, Unique
  <2>2. tokens' \in Nat /\ tokens <= tokens' /\ Letters' = Letters /\ Invitations' = Invitations
    BY <1>1 DEF Onboarded, TypeOK, Letters, Invitations
  <2>3. /\ r \in Invitations' /\ r.email = invitations[i].email
        /\ r.status = "ACCEPTED" /\ r.token = invitations[i].token
    <3>1. invitations[i] \in Invitations
      BY <1>2 DEF Onboarded, TypeOK
    <3> QED
      BY <2>2, <3>1 DEF Invitations
  <2>4. /\ invitations' \in Seq(Invitations') /\ DOMAIN invitations' = DOMAIN invitations
        /\ invitations'[i] = r
        /\ \A j \in DOMAIN invitations : j # i => invitations'[j] = invitations[j]
        /\ \A j \in DOMAIN invitations : invitations'[j].email = invitations[j].email
    <3>1. invitations' = [invitations EXCEPT ![i] = r]
      BY <1>2, <2>1 DEF Onboarded, TypeOK
    <3> QED
      BY <1>2, <2>2, <2>3, <3>1, RowUpdated DEF Onboarded
  <2>5. /\ link' \in [Emails -> Pages] /\ Waits'
        /\ \A f \in Emails : /\ link'[f].token = link[f].token
                             /\ \/ link'[f].at = link[f].at
                                \/ f = e /\ link'[f].at = "done"
    BY <1>1, <1>3, <1>4, <2>1, PagesAnswered
  <2>6. Later
    BY <1>5, <2>4 DEF Later
  <2>7. request' \in [Workers -> Requests] /\ \A j \in Workers : Knows(request[j])'
    BY <1>1, <2>6, FreeSent, OneRequest DEF Onboarded, Knows
  <2>8. InOrder'
    BY <1>1, <1>5 DEF Onboarded, Wizard, InOrder, Before
  <2>9. users' \subseteq [email : Emails, from : DOMAIN invitations']
    BY <1>2, <2>1, <2>4 DEF Onboarded, TypeOK
  <2>10. \A u \in users : u.from \in DOMAIN invitations /\ u.email = invitations[u.from].email
    BY DEF Onboarded, TypeOK, Joined, Mailed
  <2>11. \A u \in users : u.email # e /\ u.from # i
    BY <1>2, <1>7, <2>10 DEF Member
  <2>12. Mailed'
    BY SMTT(30), <1>1, <1>2, <2>1, <2>3, <2>4, <2>5, <2>10 DEF Onboarded, Joined, Mailed
  <2>13. AcceptedOnce'
    <3>1. \A j \in DOMAIN invitations' :
            invitations'[j].status = "ACCEPTED" <=> \E u \in users' : u.from = j
      <4>1. AcceptedOnce
        BY DEF Onboarded, Joined
      <4>2. ASSUME NEW j \in DOMAIN invitations, j # i
            PROVE  invitations'[j].status = "ACCEPTED" <=> \E u \in users' : u.from = j
        BY <2>1, <2>4, <4>1, <4>2 DEF AcceptedOnce
      <4>3. invitations'[i].status = "ACCEPTED" /\ \E u \in users' : u.from = i
        <5>1. n \in users' /\ n.from = i
          BY <2>1
        <5> QED
          BY <2>3, <2>4, <5>1
      <4> QED
        BY <2>4, <4>2, <4>3
    <3>2. \A u, v \in users' : u.email = v.email \/ u.from = v.from => u = v
      BY <2>1, <2>11 DEF Onboarded, Joined, AcceptedOnce
    <3>3. \A f \in Emails : link'[f].at = "done" => \E u \in users' : u.email = f
      <4>1. \A f \in Emails : link[f].at = "done" => \E u \in users : u.email = f
        BY DEF Onboarded, Joined, AcceptedOnce, Member
      <4>2. n \in users' /\ n.email = e
        BY <2>1
      <4> QED
        BY <2>1, <2>5, <4>1, <4>2
    <3> QED
      BY <3>1, <3>2, <3>3 DEF AcceptedOnce, Member
  <2> QED
    BY <1>1, <2>2, <2>4, <2>5, <2>7, <2>8, <2>9, <2>12, <2>13
       DEF Onboarded, TypeOK, Wizard, Joined, setup
<1> QED
  BY <1>6, <1>7

-----------------------------------------------------------------------------
LEMMA OnboardedInit == Init => Onboarded
<1> SUFFICES ASSUME Init PROVE Onboarded
  OBVIOUS
<1>1. TypeOK
  <2>1. row \in Rows /\ request \in [Workers -> Requests] /\ tab \in [Tabs -> TabStates]
    BY FreeSent DEF Init, Rows, TabStates, Steps, Stamped, DONE, BILLING
  <2>2. link \in [Emails -> Pages] /\ bound \in [invitations : Nat, tokens : Nat, aside : Nat, failures : Nat]
    BY BoundsAssumption DEF Init, Pages
  <2>3. invitations \in Seq(Invitations) /\ tokens \in Nat
    BY DEF Init
  <2>4. mailed \subseteq Letters /\ users \subseteq [email : Emails, from : DOMAIN invitations]
    BY DEF Init
  <2> QED
    BY <2>1, <2>2, <2>3, <2>4 DEF Init, TypeOK
<1>2. Wizard
  BY FreeSent DEF Init, Wizard, Knows, Waits, InOrder, NothingSkipped, Before, Stamped, DONE
<1>3. Joined
  BY DEF Init, Joined, Mailed, AcceptedOnce
<1> QED
  BY <1>1, <1>2, <1>3 DEF Onboarded

LEMMA OnboardedStep == Onboarded /\ [Next]_vars => Onboarded'
<1> SUFFICES ASSUME Onboarded, [Next]_vars PROVE Onboarded'
  OBVIOUS
<1>1. CASE UNCHANGED vars
  <2>1. Joined' /\ UNCHANGED <<team, setup, tab, link, request, bound>>
    BY <1>1, TeamStays DEF vars, Onboarded
  <2>2. Wizard'
    BY <2>1 DEF Onboarded, Wizard, Knows, Waits, ForTab, At, InOrder, NothingSkipped, Before,
       team, setup
  <2> QED
    BY <2>1, <2>2, TeamStays DEF Onboarded, TypeOK, setup
<1>2. ASSUME NEW k \in Workers, Working(k) \/ Fail(k) PROVE Onboarded'
  BY <1>2, WizardStep, InsertStep, RenewStep, JoinStep, FailStep DEF Working
<1>3. ASSUME NEW k \in Workers, NEW e \in Emails, InviteStaff(k, e) \/ Accept(k, e)
      PROVE  Onboarded'
  BY <1>3, StaffPageStep, AcceptStep
<1>4. ASSUME NEW k \in Workers, NEW i \in DOMAIN invitations, Resend(k, i) PROVE Onboarded'
  BY <1>4, StaffPageStep
<1> QED
  BY <1>1, <1>2, <1>3, <1>4, SubmitStep, InviteInWizardStep, TabStep, ExpireStep, OpenLinkStep
     DEF Next

\* Whatever a request of the wizard or of an invitation has read can no longer be
\* undone when it writes: the steps before the one it advances to were completed,
\* the invitation it joins by is its own; and every account in the table was made
\* by an accepted invitation. (advanceStep, completeOnboarding, accept.)
THEOREM OnboardedInvariant == Spec => []Onboarded
BY OnboardedInit, OnboardedStep, PTL DEF Spec

\* Whatever old tabs submit and requests that fail leave behind, the wizard
\* stands at a step only when those before it were completed
\* (OnboardingService.advanceStep, "never advances out of order").
THEOREM NeverOutOfOrder == Spec => []SetupInOrder
<1>1. Onboarded => SetupInOrder
  BY DEF Onboarded, Wizard, Waits, ForTab, InOrder, SetupInOrder, Awaited, At
<1> QED
  BY <1>1, OnboardedInvariant, PTL

\* However invitations are doubled, resent, opened twice and accepted at the
\* same time, each makes at most one account and one e-mail has one
\* (StaffInvitationsService.accept).
THEOREM OneAccountEach == Spec => []AcceptedOnce
<1>1. Onboarded => AcceptedOnce
  BY DEF Onboarded, Joined
<1> QED
  BY <1>1, OnboardedInvariant, PTL

=============================================================================

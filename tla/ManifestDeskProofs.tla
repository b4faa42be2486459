-------------------------- MODULE ManifestDeskProofs --------------------------
(***************************************************************************)
(* The dashboard's transport pages can be trusted: for any number of       *)
(* manifests and containers, any number of calls, and whatever the rest of *)
(* the staff does, PageIsTrue and CreatedCanFinalize are invariants of     *)
(* ManifestDeskSpec.                                                       *)
(*                                                                         *)
(* What the page does to the cargo is a step of Cargo or none, so          *)
(* Transport of CargoProofs holds behind every page. From it: a manifest   *)
(* never goes back and, once finalized, keeps its snapshot; a sealed       *)
(* container stays sealed and keeps its items. So a copy of one stays true *)
(* however late it arrives, and what was shown when a button was pressed   *)
(* is what the server moves.                                               *)
(***************************************************************************)
EXTENDS ManifestDesk, CargoProofs

Final == {"FINALIZED", "DEPARTED", "ARRIVED"}
Open == {NotCreated, "BOOKED", "LOADING"}

-----------------------------------------------------------------------------
\* The form.

\* For every mode and however it is filled in, a form without errors sends all
\* that finalize will ask for.
LEMMA FormIsComplete ==
  ASSUME NEW mode, NEW filled, FormErrors(mode, filled) = {}
  PROVE  Missing(mode, Sent(mode, filled)) = {}
<1>1. CASE mode = "AIR"
  BY <1>1 DEF FormErrors, Missing, Sent
<1>2. CASE mode # "AIR"
  BY <1>2 DEF FormErrors, Missing, Sent
<1> QED
  BY <1>1, <1>2

LEMMA NothingMissing ==
  ASSUME NEW mode, NEW missing \in MissingOfForms(mode)
  PROVE  missing = {}
<1>1. PICK filled \in SUBSET Fields :
        FormErrors(mode, filled) = {} /\ missing = Missing(mode, Sent(mode, filled))
  BY DEF MissingOfForms
<1> QED
  BY <1>1, FormIsComplete

-----------------------------------------------------------------------------
\* The invariant.

DeskType ==
  [page: Pages \cup {None}, filter: Filters \cup {"ALL"}, rows: SUBSET Copies,
   selected: Manifests \cup Containers \cup {None},
   busy: [Flags -> Manifests \cup Containers \cup Items \cup {None}]]

\* A manifest has one of the statuses that requests give it.
KnownStatuses == \A m \in Manifests : manifestStatus[m] \in DOMAIN Order

\* A row the page may show.
RowTrue(row) ==
  IF row.id \in Manifests
  THEN /\ row.status \in {"DRAFT"} \cup Final
       /\ Order[row.status] <= Order[manifestStatus[row.id]]
       /\ row.status # "DRAFT" => row.cargo = snapshot[row.id]
  ELSE /\ row.parts \subseteq Items
       /\ containerStatus[row.id] # NotCreated
       /\ row.status \notin Open =>
            row.cargo = Aboard(row.id) /\ containerStatus[row.id] \notin Open

\* Which parts a call is about, and which flag waits for it.
Addressed(call) ==
  /\ call.op \in {"create", "finalize", "depart", "arrive"} => call.id \in Manifests
  /\ call.op \in {"assign", "unassign"} => call.id \in Manifests /\ call.part \in Containers
  /\ call.op \in {"addItem", "removeItem", "scan"} => call.id \in Manifests /\ call.part \in Items
  /\ call.op \in ContainerCalls => call.id \in Containers
  /\ call.op = "unload" => call.part \in Items
  /\ call.op \in {"list", "scan"} => call.flag = None
  /\ call.panel => call.flag \in PanelFlags \cup {None}

\* What a pressed button moves is what was shown then.
CallTrue(call) ==
  /\ call.op \in {"depart", "arrive"} =>
       manifestStatus[call.id] \in Final /\ call.seen = snapshot[call.id]
  /\ call.op \in {"open", "close"} =>
       containerStatus[call.id] \notin Open /\ call.seen = Aboard(call.id)

\* Every flag that is set waits for a call.
Covered(busy, table) ==
  \A f \in Flags : busy[f] # None => \E k \in Slots : table[k] # None /\ table[k].flag = f

CallsOK(table) ==
  /\ table \in [Slots -> CallType \cup {None}]
  /\ \A k \in Slots : table[k] # None => Addressed(table[k])

RowsTrue == \A row \in desk.rows : RowTrue(row)
CallsTrue == \A k \in Slots : calls[k] # None => CallTrue(calls[k])

\* Nothing that finalize asks for is lacking.
NothingLacking == lacking = [m \in Manifests |-> {}]

DeskOK ==
  /\ desk \in DeskType
  /\ CallsOK(calls)
  /\ Covered(desk.busy, calls)

Trusted ==
  Transport /\ KnownStatuses /\ NothingLacking /\ DeskOK /\ RowsTrue /\ CallsTrue

-----------------------------------------------------------------------------
\* What any step of the server leaves as it is.

\* A manifest goes from one of its statuses to a later one, and from finalize
\* on keeps its snapshot.
LEMMA ManifestsGoOn ==
  ASSUME Transport, KnownStatuses, [Next]_vars, NEW m \in Manifests
  PROVE  /\ manifestStatus'[m] \in DOMAIN Order
         /\ Order[manifestStatus[m]] <= Order[manifestStatus'[m]]
         /\ manifestStatus[m] \in Final => snapshot'[m] = snapshot[m]
<1> USE DEF Transport, TypeOK
<1>0. manifestStatus[m] \in DOMAIN Order
  BY DEF KnownStatuses
<1>1. CASE UNCHANGED manifestVars
  BY <1>0, <1>1 DEF manifestVars, Order
<1>2. CASE ManifestStep
  <2> SUFFICES ASSUME NEW n \in Manifests,
                      \/ CreateManifest(n)
                      \/ FinalizeManifest(n)
                      \/ Depart(n)
                      \/ Arrive(n)
                      \/ \E c \in Containers : AssignContainer(n, c) \/ UnassignContainer(n, c)
                      \/ \E i \in Items : AssignItem(n, i) \/ UnassignItem(n, i)
               PROVE  /\ manifestStatus'[m] \in DOMAIN Order
                      /\ Order[manifestStatus[m]] <= Order[manifestStatus'[m]]
                      /\ manifestStatus[m] \in Final => snapshot'[m] = snapshot[m]
    BY <1>2 DEF ManifestStep
  <2>1. CASE CreateManifest(n)
    BY <1>0, <2>1 DEF CreateManifest, Order, NotCreated
  <2>2. CASE FinalizeManifest(n)
    BY <1>0, <2>2 DEF FinalizeManifest, CanFinalize, Order, Final
  <2>3. CASE Depart(n)
    BY <1>0, <2>3 DEF Depart, CanDepart, Order
  <2>4. CASE Arrive(n)
    BY <1>0, <2>4 DEF Arrive, CanArrive, Order
  <2>5. CASE \E c \in Containers : AssignContainer(n, c) \/ UnassignContainer(n, c)
    BY <1>1, <2>5 DEF AssignContainer, UnassignContainer
  <2>6. CASE \E i \in Items : AssignItem(n, i) \/ UnassignItem(n, i)
    BY <1>0, <2>6 DEF AssignItem, UnassignItem, Order
  <2> QED
    BY <2>1, <2>2, <2>3, <2>4, <2>5, <2>6
<1>3. CASE ContainerStep
  BY <1>1, <1>3 DEF ContainerStep, CreateContainer, LoadItem, UnloadItem, FinalizeContainer,
       OpenForUnloading, CloseUnloading
<1>4. CASE UNCHANGED vars
  BY <1>1, <1>4 DEF vars
<1> QED
  BY <1>1, <1>2, <1>3, <1>4, OthersLeaveTransport DEF Next

\* A container that exists goes on existing, and one that is sealed stays
\* sealed and keeps what is in it.
LEMMA ContainersGoOn ==
  ASSUME Transport, [Next]_vars, NEW c \in Containers
  PROVE  /\ containerStatus[c] # NotCreated => containerStatus'[c] # NotCreated
         /\ containerStatus[c] \notin Open =>
              containerStatus'[c] \notin Open /\ Aboard(c)' = Aboard(c)
<1> USE DEF Transport, TypeOK
<1>1. CASE UNCHANGED containerVars
  BY <1>1 DEF containerVars, Aboard
<1>2. CASE ContainerStep
  <2> SUFFICES ASSUME NEW d \in Containers,
                      \/ CreateContainer(d)
                      \/ FinalizeContainer(d)
                      \/ OpenForUnloading(d)
                      \/ CloseUnloading(d)
                      \/ \E i \in Items : LoadItem(d, i) \/ UnloadItem(d, i)
               PROVE  /\ containerStatus[c] # NotCreated => containerStatus'[c] # NotCreated
                      /\ containerStatus[c] \notin Open =>
                           containerStatus'[c] \notin Open /\ Aboard(c)' = Aboard(c)
    BY <1>2 DEF ContainerStep
  <2>1. CASE CreateContainer(d)
    BY <2>1 DEF CreateContainer, Aboard, NotCreated, Open
  <2>2. CASE FinalizeContainer(d)
    BY <2>2 DEF FinalizeContainer, CanSeal, Aboard, NotCreated, Open
  <2>3. CASE OpenForUnloading(d)
    BY <2>3 DEF OpenForUnloading, Aboard, NotCreated, Open
  <2>4. CASE CloseUnloading(d)
    BY <2>4 DEF CloseUnloading, Aboard, NotCreated, Open
  <2>5. ASSUME NEW i \in Items, LoadItem(d, i)
        PROVE  /\ containerStatus[c] # NotCreated => containerStatus'[c] # NotCreated
               /\ containerStatus[c] \notin Open =>
                    containerStatus'[c] \notin Open /\ Aboard(c)' = Aboard(c)
    BY <2>5 DEF LoadItem, CanLoad, Aboard, NotCreated, Open
  <2>6. ASSUME NEW i \in Items, UnloadItem(d, i)
        PROVE  /\ containerStatus[c] # NotCreated => containerStatus'[c] # NotCreated
               /\ containerStatus[c] \notin Open =>
                    containerStatus'[c] \notin Open /\ Aboard(c)' = Aboard(c)
    BY <2>6 DEF UnloadItem, CanUnload, AfterUnload, Aboard, NotCreated, Open
  <2> QED
    BY <2>1, <2>2, <2>3, <2>4, <2>5, <2>6
<1>3. CASE ManifestStep
  <2>1. containerItems' = containerItems
    BY <1>3 DEF ManifestStep, CreateManifest, FinalizeManifest, Depart, Arrive, AssignContainer,
         UnassignContainer, AssignItem, UnassignItem, containerVars
  <2>2. \/ containerStatus' = containerStatus
        \/ /\ \E n \in Manifests : MoveContainers(n, "DEPARTED") /\ CanDepart(n)
           /\ containerStatus'[c] \in {containerStatus[c], "DEPARTED"}
        \/ /\ \E n \in Manifests : MoveContainers(n, "ARRIVED") /\ CanArrive(n)
           /\ containerStatus'[c] \in {containerStatus[c], "ARRIVED"}
    BY ZenonT(30), <1>3
       DEF ManifestStep, CreateManifest, FinalizeManifest, Depart, Arrive, AssignContainer,
           UnassignContainer, AssignItem, UnassignItem, containerVars, MoveContainers
  <2>3. Aboard(c)' = Aboard(c)
    BY <2>1 DEF Aboard
  <2> QED
    BY <2>2, <2>3 DEF Open, NotCreated
<1>4. CASE UNCHANGED vars
  BY <1>1, <1>4 DEF vars
<1> QED
  BY <1>1, <1>2, <1>3, <1>4, OthersLeaveTransport DEF Next

\* So rows and calls that are true stay true.
LEMMA RowStaysTrue ==
  ASSUME Transport, KnownStatuses, [Next]_vars, NEW row \in Copies, RowTrue(row)
  PROVE  RowTrue(row)'
<1>1. CASE row.id \in Manifests
  <2>1. Order[row.status] \in Nat /\ manifestStatus[row.id] \in DOMAIN Order
    BY <1>1 DEF RowTrue, KnownStatuses, Order, Final
  <2>2. Order[row.status] <= Order[manifestStatus'[row.id]]
    BY <1>1, <2>1, ManifestsGoOn DEF RowTrue, Order
  <2>3. row.status # "DRAFT" => manifestStatus[row.id] \in Final
    BY <1>1, <2>1 DEF RowTrue, Order, Final
  <2> QED
    BY <1>1, <2>2, <2>3, ManifestsGoOn DEF RowTrue
<1>2. CASE row.id \notin Manifests
  <2>1. row.id \in Containers
    BY <1>2 DEF Copies
  <2> QED
    BY <1>2, <2>1, ContainersGoOn DEF RowTrue
<1> QED
  BY <1>1, <1>2

LEMMA CallStaysTrue ==
  ASSUME Transport, KnownStatuses, [Next]_vars, NEW call, Addressed(call), CallTrue(call)
  PROVE  CallTrue(call)'
<1>1. CASE call.op \in {"depart", "arrive"}
  <2>1. call.id \in Manifests /\ manifestStatus[call.id] \in Final
    BY <1>1 DEF Addressed, CallTrue
  <2>2. manifestStatus'[call.id] \in Final /\ snapshot'[call.id] = snapshot[call.id]
    BY <2>1, ManifestsGoOn DEF Order, Final
  <2> QED
    BY <1>1, <2>2 DEF CallTrue
<1>2. CASE call.op \in {"open", "close"}
  <2>1. call.id \in Containers
    BY <1>2 DEF Addressed, ContainerCalls
  <2> QED
    BY <1>2, <2>1, ContainersGoOn DEF CallTrue
<1> QED
  BY <1>1, <1>2 DEF CallTrue

-----------------------------------------------------------------------------
\* What the server sends.

\* A copy taken now is true.
LEMMA CopyIsTrue ==
  ASSUME Transport', KnownStatuses', NEW x \in Manifests \cup Containers, NEW row,
         row = CopyOf(x), row.status # NotCreated
  PROVE  row \in Copies /\ row.id = x /\ RowTrue(row)'
<1> USE DEF Transport, TypeOK
<1>1. CASE x \in Manifests
  <2>1. row = ManifestCopy(x)
    BY <1>1 DEF CopyOf
  <2>2. row.id = x /\ row.status = manifestStatus'[x]
    BY <2>1 DEF ManifestCopy
  <2>3. row.cargo = CargoOf(x)'
    BY <2>1 DEF ManifestCopy, CargoOf, Listed, Aboard, Inside, ContainersOn
  <2>4. row \in Copies
    <3>1. row.status \in ManifestStatuses
      BY <1>1, <2>2
    <3>2. row.cargo \subseteq Items
      BY <2>3 DEF CargoOf, Listed, Aboard
    <3> QED
      BY <1>1, <2>1, <3>1, <3>2 DEF ManifestCopy, Copies
  <2>5. row.status \in {"DRAFT"} \cup Final
    BY <1>1, <2>2 DEF KnownStatuses, Order, Final, NotCreated
  <2>6. row.status # "DRAFT" => row.cargo = snapshot'[x]
    BY <1>1, <2>2, <2>3, <2>5 DEF SnapshotIsCargo, Final
  <2> QED
    BY <1>1, <2>2, <2>4, <2>5, <2>6 DEF RowTrue, Order, Final
<1>2. CASE x \notin Manifests
  <2>1. row = ContainerCopy(x) /\ x \in Containers
    BY <1>2 DEF CopyOf
  <2>2. /\ row.id = x /\ row.status = containerStatus'[x]
        /\ row.parts = Inside(x) /\ row.cargo = Inside(x)
    BY <2>1 DEF ContainerCopy
  <2>3. Inside(x) = Aboard(x)'
    BY DEF Inside, Aboard
  <2>4. row \in Copies
    <3>1. row.status \in ContainerStatuses
      BY <2>1, <2>2
    <3>2. Inside(x) \subseteq Items
      BY DEF Inside
    <3> QED
      BY <2>1, <3>1, <3>2 DEF ContainerCopy, Copies
  <2>5. Inside(x) \subseteq Items
    BY DEF Inside
  <2> QED
    BY <1>2, <2>2, <2>3, <2>4, <2>5 DEF RowTrue, Open
<1> QED
  BY <1>1, <1>2

\* So is every row of a list.
LEMMA ListIsTrue ==
  ASSUME Transport', KnownStatuses', NEW page, NEW filter, NEW row, row \in Listing(page, filter)
  PROVE  row \in Copies /\ RowTrue(row)'
<1>1. PICK x \in Manifests \cup Containers : row = CopyOf(x)
  BY TransportAssumption DEF Listing, CopyOf
<1>2. row.status # NotCreated
  BY DEF Listing
<1> QED
  BY <1>1, <1>2, CopyIsTrue

\* And every row after the copy of one of them was replaced.
LEMMA ReplacedIsTrue ==
  ASSUME Transport, KnownStatuses, DeskOK, RowsTrue, [Next]_vars, Transport', KnownStatuses',
         NEW x, NEW row, row \in Applied(desk.rows, CopyOf(x))
  PROVE  row \in Copies /\ RowTrue(row)'
<1>1. PICK old \in desk.rows : row = IF old.id = CopyOf(x).id THEN CopyOf(x) ELSE old
  BY DEF Applied
<1>2. old \in Copies /\ RowTrue(old)
  BY DEF DeskOK, DeskType, RowsTrue
<1>3. RowTrue(old)'
  BY <1>2, RowStaysTrue
<1>4. CASE row = old
  BY <1>2, <1>3, <1>4
<1>5. CASE old.id = CopyOf(x).id /\ row = CopyOf(x)
  <2>1. row.id = x
    BY <1>5 DEF CopyOf, ManifestCopy, ContainerCopy
  <2>2. x \in Manifests \cup Containers
    BY <1>2, <1>5, <2>1 DEF Copies
  <2>3. row.status # NotCreated
    <3>1. CASE x \in Manifests
      <4>1. row.status = manifestStatus'[x] /\ old.id = x
        BY <1>5, <2>1, <3>1 DEF CopyOf, ManifestCopy
      <4> QED
        BY <1>3, <3>1, <4>1 DEF RowTrue, Order, Final, NotCreated
    <3>2. CASE x \notin Manifests
      <4>1. row.status = containerStatus'[x] /\ old.id = x
        BY <1>5, <2>1, <3>2 DEF CopyOf, ContainerCopy
      <4> QED
        BY <1>3, <3>2, <4>1 DEF RowTrue
    <3> QED
      BY <3>1, <3>2
  <2> QED
    BY <1>5, <2>2, <2>3, CopyIsTrue
<1> QED
  BY <1>1, <1>4, <1>5

-----------------------------------------------------------------------------
\* What the page does on the server is a request of Cargo, or nothing.

LEMMA PerformIsNext ==
  ASSUME NEW call, Addressed(call), Perform(call)
  PROVE  Next
<1>1. CASE call.op \in {"create", "finalize", "depart", "arrive", "assign", "unassign",
                        "addItem", "removeItem"}
  BY <1>1 DEF Perform, Addressed, Next, ManifestStep
<1>2. CASE call.op \in ContainerCalls
  BY <1>2 DEF Perform, Addressed, ContainerCalls, Next, ContainerStep
<1> QED
  BY <1>1, <1>2 DEF Perform, ContainerCalls

LEMMA StillNothingLacking ==
  ASSUME NothingLacking, NEW call, Addressed(call), Perform(call)
  PROVE  NothingLacking'
<1>1. CASE call.op = "create"
  <2>1. PICK missing \in MissingOfForms(ModeOf[call.id]) :
          lacking' = [lacking EXCEPT ![call.id] = missing]
    BY <1>1 DEF Perform
  <2>2. missing = {}
    BY NothingMissing
  <2> QED
    BY <2>1, <2>2 DEF NothingLacking
<1>2. CASE call.op # "create"
  BY <1>2 DEF Perform, NothingLacking
<1> QED
  BY <1>1, <1>2

LEMMA DeskStepsAreRequests ==
  ASSUME DeskOK, NothingLacking, DeskNext
  PROVE  [Next]_vars /\ NothingLacking'
<1>1. \A k \in Slots : calls[k] # None => Addressed(calls[k])
  BY DEF DeskOK, CallsOK
<1>2. CASE UNCHANGED <<vars, lacking>>
  BY <1>2 DEF NothingLacking
<1>3. ASSUME NEW k \in Slots, calls[k] # None, Perform(calls[k])
      PROVE  [Next]_vars /\ NothingLacking'
  BY <1>1, <1>3, PerformIsNext, StillNothingLacking
<1>4. CASE Operate
  BY <1>2, <1>4 DEF Operate, OpenPage, Leave, SetFilter, Select, Press, SubmitForm, EditSelected,
       Edit, ScanInput
<1>5. CASE Answer
  BY <1>2, <1>3, <1>5 DEF Answer, Answers, ListArrived, Scanned, Moved, Refreshed, FormAnswered,
       ContainerChanged, Edited, Failed
<1>6. CASE \E k \in Slots : Lose(k)
  BY <1>2, <1>3, <1>6 DEF Lose
<1>7. CASE Elsewhere
  BY <1>7 DEF Elsewhere, NothingLacking
<1> QED
  BY <1>4, <1>5, <1>6, <1>7 DEF DeskNext

-----------------------------------------------------------------------------
\* The page's own tables.

\* What CallTrue is about.
Same(a, b) == a.op = b.op /\ a.id = b.id /\ a.seen = b.seen
Locking == {"depart", "arrive", "open", "close"}

\* The calls that were there stay true, and the ones that lock nothing are.
LEMMA CallsGoOn ==
  ASSUME Transport, KnownStatuses, DeskOK, CallsTrue, [Next]_vars,
         \A k \in Slots : calls'[k] # None =>
           calls'[k].op \notin Locking \/ (calls[k] # None /\ Same(calls'[k], calls[k]))
  PROVE  CallsTrue'
<1> SUFFICES ASSUME NEW k \in Slots, calls'[k] # None
             PROVE  CallTrue(calls[k])'
  BY DEF CallsTrue
<1>1. CASE calls'[k].op \notin Locking
  BY <1>1 DEF CallTrue, Locking
<1>2. CASE calls[k] # None /\ Same(calls'[k], calls[k])
  <2>1. PICK call : call = calls[k]
    OBVIOUS
  <2>2. Addressed(call) /\ CallTrue(call)
    BY <1>2, <2>1 DEF DeskOK, CallsOK, CallsTrue
  <2>3. CallTrue(call)'
    BY <2>2, CallStaysTrue
  <2> QED
    BY <1>2, <2>1, <2>3 DEF CallTrue, Same
<1> QED
  BY <1>1, <1>2

LEMMA SlotSet ==
  ASSUME NEW table, CallsOK(table), NEW k \in Slots, NEW call \in CallType \cup {None},
         call # None => Addressed(call)
  PROVE  CallsOK([table EXCEPT ![k] = call])
BY DEF CallsOK

\* A call goes into a free slot, so whoever waited for one still does.
LEMMA SendStep ==
  ASSUME DeskOK, NEW call \in CallType, Addressed(call), Send(call)
  PROVE  /\ CallsOK(calls')
         /\ \A busy : Covered(busy, calls) => Covered(busy, calls')
         /\ \E k \in Slots : calls[k] = None /\ calls' = [calls EXCEPT ![k] = call]
<1>1. PICK k \in Slots : calls[k] = None /\ calls' = [calls EXCEPT ![k] = call]
  BY DEF Send
<1>2. CallsOK(calls')
  BY <1>1, SlotSet DEF DeskOK
<1>3. \A j \in Slots : calls[j] # None => calls'[j] = calls[j]
  BY <1>1 DEF DeskOK, CallsOK
<1> QED
  BY <1>1, <1>2, <1>3 DEF Covered

\* Replacing a panel clears the flags of both panels, and only their calls
\* lose track of theirs.
LEMMA ShowStep ==
  ASSUME NEW d \in DeskType, d.page = desk.page,
         NEW table, CallsOK(table), Covered(d.busy, table), ShowWith(d, table)
  PROVE  /\ desk' \in DeskType /\ desk'.rows = d.rows
         /\ CallsOK(calls') /\ Covered(desk'.busy, calls')
         /\ \A k \in Slots : calls'[k] # None => table[k] # None /\ Same(calls'[k], table[k])
<1>1. CASE Panel(d) = Panel(desk)
  BY <1>1 DEF ShowWith, Settled, Orphaned, Same
<1>2. CASE Panel(d) # Panel(desk)
  <2>1. desk.page = "manifests"
    BY <1>2 DEF Panel
  <2>2. desk' = [d EXCEPT !.busy = [f \in Flags |-> IF f \in PanelFlags THEN None ELSE @[f]]]
    BY <1>2, <2>1 DEF ShowWith, Settled
  <2>3. /\ desk' \in DeskType /\ desk'.rows = d.rows
        /\ \A f \in Flags : desk'.busy[f] = IF f \in PanelFlags THEN None ELSE d.busy[f]
    BY <2>2 DEF DeskType
  <2>4. \A k \in Slots :
          calls'[k] = IF table[k] = None THEN None
                      ELSE [table[k] EXCEPT !.flag = IF table[k].panel THEN None ELSE @,
                                            !.panel = FALSE]
    BY <1>2 DEF ShowWith, Orphaned
  <2>5. DOMAIN calls' = Slots
    BY <1>2 DEF ShowWith, Orphaned
  <2>6. \A k \in Slots : table[k] # None =>
          /\ calls'[k] \in CallType /\ Addressed(calls'[k]) /\ Same(calls'[k], table[k])
          /\ calls'[k].flag = IF table[k].panel THEN None ELSE table[k].flag
    <3> SUFFICES ASSUME NEW k \in Slots, table[k] # None
                 PROVE  /\ calls'[k] \in CallType /\ Addressed(calls'[k])
                        /\ Same(calls'[k], table[k])
                        /\ calls'[k].flag = IF table[k].panel THEN None ELSE table[k].flag
      OBVIOUS
    <3>1. PICK call \in CallType : call = table[k]
      BY DEF CallsOK
    <3>2. PICK new : new = calls'[k]
      OBVIOUS
    <3>3. new = [call EXCEPT !.flag = IF call.panel THEN None ELSE @, !.panel = FALSE]
      BY <2>4, <3>1, <3>2
    <3>4. /\ new \in CallType /\ Same(new, call) /\ new.part = call.part
          /\ new.flag = (IF call.panel THEN None ELSE call.flag) /\ ~ new.panel
      BY <3>3 DEF CallType, Same
    <3>5. Addressed(call)
      BY <3>1 DEF CallsOK
    <3>6. Addressed(new)
      BY <3>4, <3>5 DEF Addressed, Same
    <3> QED
      BY <3>1, <3>2, <3>4, <3>6
  <2>7. CallsOK(calls')
    <3>1. calls' = [k \in Slots |-> calls'[k]]
      BY <1>2 DEF ShowWith, Orphaned
    <3> QED
      BY <2>4, <2>6, <3>1 DEF CallsOK
  <2>8. Covered(desk'.busy, calls')
    <3> SUFFICES ASSUME NEW f \in Flags, desk'.busy[f] # None
                 PROVE  \E k \in Slots : calls'[k] # None /\ calls'[k].flag = f
      BY DEF Covered
    <3>1. f \notin PanelFlags /\ d.busy[f] # None
      BY <2>3
    <3>2. PICK k \in Slots : table[k] # None /\ table[k].flag = f
      BY <3>1 DEF Covered
    <3>3. ~ table[k].panel
      BY <3>1, <3>2, DeskNoneAssumption DEF CallsOK, Addressed
    <3>4. calls'[k] \in CallType /\ calls'[k].flag = f
      BY <2>6, <3>2, <3>3
    <3> QED
      BY <3>4, DeskNoneAssumption
  <2> QED
    BY <2>3, <2>4, <2>6, <2>7, <2>8
<1> QED
  BY <1>1, <1>2

\* A flag is reset by the call that set it: the others keep their calls.
LEMMA ResetCovers ==
  ASSUME DeskOK, NEW k \in Slots, calls[k] # None,
         NEW table, \A j \in Slots \ {k} : table[j] = calls[j]
  PROVE  Covered(Reset(desk.busy, calls[k]), table)
<1> SUFFICES ASSUME NEW f \in Flags, Reset(desk.busy, calls[k])[f] # None
             PROVE  \E j \in Slots : table[j] # None /\ table[j].flag = f
  BY DEF Covered
<1>1. /\ calls[k].flag \in Flags \cup {None}
      /\ desk.busy \in [Flags -> Manifests \cup Containers \cup Items \cup {None}]
  BY DEF DeskOK, CallsOK, CallType, DeskType
<1>2. desk.busy[f] # None /\ calls[k].flag # f
  BY <1>1, DeskNoneAssumption DEF Reset
<1>3. PICK j \in Slots : calls[j] # None /\ calls[j].flag = f
  BY <1>2 DEF DeskOK, Covered
<1> QED
  BY <1>2, <1>3

LEMMA ResetTyped ==
  ASSUME DeskOK, NEW call
  PROVE  Reset(desk.busy, call) \in [Flags -> Manifests \cup Containers \cup Items \cup {None}]
BY DEF DeskOK, DeskType, Reset

-----------------------------------------------------------------------------
\* The operator.

LEMMA RowsGoOn ==
  ASSUME Trusted, [Next]_vars, desk'.rows \subseteq desk.rows
  PROVE  RowsTrue'
<1> SUFFICES ASSUME NEW row \in desk'.rows PROVE RowTrue(row)'
  BY DEF RowsTrue
<1>1. row \in Copies /\ RowTrue(row)
  BY DEF Trusted, DeskOK, DeskType, RowsTrue
<1> QED
  BY <1>1, RowStaysTrue DEF Trusted

\* A call that locks nothing, sent while the page's rows stay what they are.
LEMMA SentOK ==
  ASSUME Trusted, UNCHANGED vars, NEW call \in CallType, Addressed(call), call.op \notin Locking,
         Send(call), NEW busy, desk'.busy = busy, Covered(busy, calls'), desk' \in DeskType,
         desk'.rows \subseteq desk.rows
  PROVE  DeskOK' /\ RowsTrue' /\ CallsTrue'
<1>1. CallsOK(calls')
  BY SendStep DEF Trusted
<1>2. PICK k \in Slots : calls[k] = None /\ calls' = [calls EXCEPT ![k] = call]
  BY SendStep DEF Trusted
<1>3. CallsTrue'
  <2>1. \A j \in Slots : calls'[j] = IF j = k THEN call ELSE calls[j]
    BY <1>2 DEF Trusted, DeskOK, CallsOK
  <2> QED
    BY <2>1, CallsGoOn DEF Trusted, Same
<1> QED
  BY <1>1, <1>3, RowsGoOn DEF DeskOK

\* The flag a press sets is the one its call resets.
LEMMA SetFlagCovers ==
  ASSUME DeskOK, NEW call \in CallType, Addressed(call), call.flag \in Flags, Send(call), NEW x
  PROVE  Covered([desk.busy EXCEPT ![call.flag] = x], calls')
<1>1. PICK k \in Slots : calls[k] = None /\ calls' = [calls EXCEPT ![k] = call]
  BY SendStep
<1>2. \A j \in Slots : calls'[j] = IF j = k THEN call ELSE calls[j]
  BY <1>1 DEF DeskOK, CallsOK
<1> SUFFICES ASSUME NEW f \in Flags, [desk.busy EXCEPT ![call.flag] = x][f] # None
             PROVE  \E j \in Slots : calls'[j] # None /\ calls'[j].flag = f
  BY DEF Covered
<1>3. CASE f = call.flag
  BY <1>2, <1>3, DeskNoneAssumption
<1>4. CASE f # call.flag
  <2>1. desk.busy[f] # None
    BY <1>4 DEF DeskOK, DeskType
  <2>2. PICK j \in Slots : calls[j] # None /\ calls[j].flag = f
    BY <2>1 DEF DeskOK, Covered
  <2> QED
    BY <1>1, <1>2, <2>2
<1> QED
  BY <1>3, <1>4

LEMMA OpenPageStep ==
  ASSUME Trusted, NEW page \in Pages, OpenPage(page)
  PROVE  DeskOK' /\ RowsTrue' /\ CallsTrue'
<1>1. PICK call : call = Call("list", None, None)
  OBVIOUS
<1>2. call \in CallType /\ Addressed(call) /\ call.op \notin Locking
  BY <1>1 DEF Call, CallType, Ops, Addressed, Locking, ContainerCalls, Trusted, DeskOK, DeskType
<1>3. Send(call) /\ desk' = Fresh(page) /\ UNCHANGED vars
  BY <1>1 DEF OpenPage
<1>4. desk' \in DeskType /\ desk'.rows = {} /\ desk'.busy = Unset
  BY <1>3 DEF Fresh, DeskType, Unset
<1>5. Covered(Unset, calls')
  BY DEF Covered, Unset
<1> QED
  BY <1>2, <1>3, <1>4, <1>5, SentOK

LEMMA LeaveStep ==
  ASSUME Trusted, Leave
  PROVE  DeskOK' /\ RowsTrue' /\ CallsTrue'
BY DEF Leave, Fresh, Unset, DeskOK, DeskType, CallsOK, Covered, RowsTrue, CallsTrue

LEMMA SetFilterStep ==
  ASSUME Trusted, NEW filter \in Filters, SetFilter(filter)
  PROVE  DeskOK' /\ RowsTrue' /\ CallsTrue'
<1>1. PICK call : call = [Call("list", None, None) EXCEPT !.filter = filter]
  OBVIOUS
<1>2. call \in CallType /\ Addressed(call) /\ call.op \notin Locking
  BY <1>1 DEF Call, CallType, Ops, Addressed, Locking, ContainerCalls
<1>3. Send(call) /\ desk' = [desk EXCEPT !.filter = filter] /\ UNCHANGED vars
  BY <1>1 DEF SetFilter
<1>4. desk' \in DeskType /\ desk'.rows = desk.rows /\ desk'.busy = desk.busy
  BY <1>3 DEF DeskType, Trusted, DeskOK
<1>5. Covered(desk.busy, calls')
  BY <1>2, <1>3, SendStep DEF Trusted, DeskOK
<1> QED
  BY <1>2, <1>3, <1>4, <1>5, SentOK

LEMMA SelectStep ==
  ASSUME Trusted, NEW x \in Manifests \cup Containers, Select(x)
  PROVE  DeskOK' /\ RowsTrue' /\ CallsTrue'
<1>1. PICK d : d = [desk EXCEPT !.selected = x]
  OBVIOUS
<1>2. d \in DeskType /\ d.page = desk.page /\ d.rows = desk.rows /\ d.busy = desk.busy
  BY <1>1 DEF DeskType, Trusted, DeskOK
<1>3. ShowWith(d, calls) /\ UNCHANGED vars
  BY <1>1 DEF Select
<1>4. CallsOK(calls) /\ Covered(d.busy, calls)
  BY <1>2 DEF Trusted, DeskOK
<1>5. /\ desk' \in DeskType /\ desk'.rows = d.rows
      /\ CallsOK(calls') /\ Covered(desk'.busy, calls')
      /\ \A k \in Slots : calls'[k] # None => calls[k] # None /\ Same(calls'[k], calls[k])
  BY <1>2, <1>3, <1>4, ShowStep
<1>6. CallsTrue'
  BY <1>3, <1>5, CallsGoOn DEF Trusted
<1> QED
  BY <1>2, <1>3, <1>5, <1>6, RowsGoOn DEF DeskOK

\* What is pressed is true of the server, or would not be there to press.
LEMMA PressStep ==
  ASSUME Trusted, NEW op \in {"finalize", "depart", "arrive", "seal", "open", "close"}, Press(op)
  PROVE  DeskOK' /\ RowsTrue' /\ CallsTrue'
<1>1. PICK copy \in Selected(desk) :
        /\ op \in IF copy.id \in Manifests THEN ManifestButtons(copy.status)
                  ELSE ContainerButtons(copy.status)
        /\ Send([Call(op, copy.id, None) EXCEPT !.flag = FlagOf[op], !.seen = copy.cargo])
        /\ desk' = [desk EXCEPT !.busy[FlagOf[op]] = copy.id]
        /\ UNCHANGED <<vars, lacking>>
  BY DEF Press
<1>2. copy \in Copies /\ RowTrue(copy)
  BY DEF Trusted, DeskOK, DeskType, RowsTrue, Selected
<1>3. PICK call : call = [Call(op, copy.id, None) EXCEPT !.flag = FlagOf[op], !.seen = copy.cargo]
  OBVIOUS
<1>4. FlagOf[op] \in Flags
  BY DEF FlagOf, Flags
<1>5. /\ call.op = op /\ call.id = copy.id /\ call.flag = FlagOf[op] /\ call.seen = copy.cargo
      /\ ~ call.panel /\ call \in CallType
  <2>1. desk.filter \in Filters \cup {"ALL"}
    BY DEF Trusted, DeskOK, DeskType
  <2> QED
    BY <1>2, <1>3, <1>4, <2>1 DEF Call, CallType, Ops, Copies
<1>6. CallTrue(call) /\ Addressed(call)
  <2>1. CASE copy.id \in Manifests
    <3>1. \/ op = "finalize" /\ copy.status = "DRAFT"
          \/ op = "depart" /\ copy.status = "FINALIZED"
          \/ op = "arrive" /\ copy.status = "DEPARTED"
      BY <1>1, <2>1 DEF ManifestButtons
    <3>2. manifestStatus[copy.id] \in DOMAIN Order
      BY <2>1 DEF Trusted, KnownStatuses
    <3>3. CallTrue(call)
      BY <1>2, <1>5, <2>1, <3>1, <3>2 DEF RowTrue, CallTrue, Order, Final
    <3> QED
      BY <1>5, <2>1, <3>1, <3>3 DEF Addressed, ContainerCalls
  <2>2. CASE copy.id \notin Manifests
    <3>1. \/ op = "seal" /\ copy.status = "LOADING"
          \/ op = "open" /\ copy.status = "ARRIVED"
          \/ op = "close" /\ copy.status = "UNLOADING"
      BY <1>1, <2>2 DEF ContainerButtons
    <3>2. copy.id \in Containers
      BY <1>2, <2>2 DEF Copies
    <3>3. CallTrue(call)
      BY <1>2, <1>5, <2>2, <3>1 DEF RowTrue, CallTrue, Open, NotCreated
    <3> QED
      BY <1>5, <3>1, <3>2, <3>3 DEF Addressed, ContainerCalls
  <2> QED
    BY <2>1, <2>2
<1>7. Send(call) /\ UNCHANGED vars
  BY <1>1, <1>3
<1>8. PICK k \in Slots : calls[k] = None /\ calls' = [calls EXCEPT ![k] = call]
  BY <1>5, <1>6, <1>7, SendStep DEF Trusted
<1>9. /\ desk' \in DeskType /\ desk'.rows = desk.rows
      /\ desk'.busy = [desk.busy EXCEPT ![call.flag] = copy.id]
  BY <1>1, <1>2, <1>4, <1>5 DEF Trusted, DeskOK, DeskType, Copies
<1>10. Covered(desk'.busy, calls')
  BY <1>4, <1>5, <1>6, <1>7, <1>9, SetFlagCovers DEF Trusted
<1>11. CallsOK(calls')
  BY <1>5, <1>6, <1>7, SendStep DEF Trusted
<1>12. CallsTrue'
  <2>1. \A j \in Slots : calls'[j] = IF j = k THEN call ELSE calls[j]
    BY <1>8 DEF Trusted, DeskOK, CallsOK
  <2> QED
    BY <1>6, <1>7, <2>1
       DEF Trusted, CallsTrue, CallTrue, Aboard, vars, manifestVars, containerVars
<1> QED
  BY <1>7, <1>9, <1>10, <1>11, <1>12, RowsGoOn DEF DeskOK

\* A call that locks nothing, sent while its flag is set.
LEMMA FlaggedOK ==
  ASSUME Trusted, UNCHANGED vars, NEW call \in CallType, Addressed(call), call.op \notin Locking,
         Send(call), call.flag \in Flags, NEW x \in Manifests \cup Containers \cup Items,
         desk' = [desk EXCEPT !.busy[call.flag] = x]
  PROVE  DeskOK' /\ RowsTrue' /\ CallsTrue'
<1>1. PICK busy : busy = [desk.busy EXCEPT ![call.flag] = x]
  OBVIOUS
<1>2. desk' \in DeskType /\ desk'.rows = desk.rows /\ desk'.busy = busy
  BY <1>1 DEF Trusted, DeskOK, DeskType
<1>3. Covered(busy, calls')
  BY <1>1, SetFlagCovers DEF Trusted
<1> QED
  BY <1>2, <1>3, SentOK

LEMMA SubmitFormStep ==
  ASSUME Trusted, NEW m \in Manifests, SubmitForm(m)
  PROVE  DeskOK' /\ RowsTrue' /\ CallsTrue'
<1>1. PICK call : call = [Call("create", m, None) EXCEPT !.flag = "creating"]
  OBVIOUS
<1>2. desk.filter \in Filters \cup {"ALL"}
  BY DEF Trusted, DeskOK, DeskType
<1>3. call \in CallType /\ Addressed(call) /\ call.op \notin Locking /\ call.flag = "creating"
  BY <1>1, <1>2 DEF Call, CallType, Ops, Flags, Addressed, Locking, ContainerCalls
<1>4. Send(call) /\ UNCHANGED vars /\ desk' = [desk EXCEPT !.busy[call.flag] = m]
  BY <1>1, <1>3 DEF SubmitForm
<1>5. call.flag \in Flags
  BY <1>3 DEF Flags
<1> QED
  BY <1>3, <1>4, <1>5, FlaggedOK

LEMMA EditStep ==
  ASSUME Trusted, NEW op, NEW x \in Manifests \cup Containers, NEW part, Edit(op, x, part),
         \/ op \in {"assign", "unassign"} /\ x \in Manifests /\ part \in Containers
         \/ op \in {"addItem", "removeItem"} /\ x \in Manifests /\ part \in Items
         \/ op = "unload" /\ x \in Containers /\ part \in Items
  PROVE  DeskOK' /\ RowsTrue' /\ CallsTrue'
<1>0. PICK on \in BOOLEAN : on = (x \in Manifests)
  <2>1. CASE x \in Manifests
    <3>1. TRUE = (x \in Manifests)
      BY <2>1
    <3> QED
      BY <3>1
  <2>2. CASE x \notin Manifests
    <3>1. FALSE = (x \in Manifests)
      BY <2>2
    <3> QED
      BY <3>1
  <2> QED
    BY <2>1, <2>2
<1>1. PICK call : call = [Call(op, x, part) EXCEPT !.flag = FlagOf[op], !.panel = on]
  OBVIOUS
<1>2. desk.filter \in Filters \cup {"ALL"}
  BY DEF Trusted, DeskOK, DeskType
<1>3. FlagOf[op] \in PanelFlags /\ FlagOf[op] \in Flags /\ op \in Ops
  BY DEF FlagOf, PanelFlags, Flags, Ops
<1>4. /\ call \in CallType /\ call.op = op /\ call.id = x /\ call.part = part
      /\ call.flag = FlagOf[op]
  BY <1>1, <1>2, <1>3 DEF Call, CallType
<1>5. Addressed(call) /\ call.op \notin Locking
  BY <1>3, <1>4 DEF Addressed, Locking, ContainerCalls
<1>6. Send(call) /\ UNCHANGED vars /\ desk' = [desk EXCEPT !.busy[call.flag] = part]
  BY <1>0, <1>1, <1>4 DEF Edit
<1> QED
  BY <1>3, <1>4, <1>5, <1>6, FlaggedOK

LEMMA EditSelectedStep ==
  ASSUME Trusted, EditSelected
  PROVE  DeskOK' /\ RowsTrue' /\ CallsTrue'
<1>1. PICK copy \in Selected(desk) :
        \/ /\ copy.id \in Manifests
           /\ \E c \in Containers : Edit("unassign", copy.id, c) \/ Edit("assign", copy.id, c)
        \/ /\ copy.id \in Manifests
           /\ \E i \in Items : Edit("removeItem", copy.id, i) \/ Edit("addItem", copy.id, i)
        \/ /\ copy.id \in Containers
           /\ \E i \in copy.parts : Edit("unload", copy.id, i)
  BY DEF EditSelected
<1>2. RowTrue(copy)
  BY DEF Selected, Trusted, RowsTrue
<1>3. copy.id \in Containers => copy.parts \subseteq Items
  BY <1>2, TransportAssumption DEF RowTrue
<1> QED
  BY <1>1, <1>3, EditStep

LEMMA ScanInputStep ==
  ASSUME Trusted, NEW i \in Items, ScanInput(i)
  PROVE  DeskOK' /\ RowsTrue' /\ CallsTrue'
<1>1. PICK copy \in Selected(desk) :
        /\ copy.id \in Manifests
        /\ Send([Call("scan", copy.id, i) EXCEPT !.panel = TRUE])
        /\ UNCHANGED <<vars, lacking, desk>>
  BY DEF ScanInput
<1>2. PICK call : call = [Call("scan", copy.id, i) EXCEPT !.panel = TRUE]
  OBVIOUS
<1>3. desk.filter \in Filters \cup {"ALL"}
  BY DEF Trusted, DeskOK, DeskType
<1>4. call \in CallType /\ Addressed(call) /\ call.op \notin Locking
  BY <1>1, <1>2, <1>3 DEF Call, CallType, Ops, Addressed, Locking, ContainerCalls
<1>5. Send(call) /\ UNCHANGED <<vars, desk>>
  BY <1>1, <1>2
<1>6. Covered(desk.busy, calls')
  BY <1>4, <1>5, SendStep DEF Trusted, DeskOK
<1>7. desk' \in DeskType /\ desk'.rows \subseteq desk.rows /\ desk'.busy = desk.busy
  BY <1>5 DEF Trusted, DeskOK
<1> QED
  BY <1>4, <1>5, <1>6, <1>7, SentOK

LEMMA OperateStep ==
  ASSUME Trusted, Operate
  PROVE  DeskOK' /\ RowsTrue' /\ CallsTrue'
BY OpenPageStep, LeaveStep, SetFilterStep, SelectStep, PressStep, SubmitFormStep,
   EditSelectedStep, ScanInputStep DEF Operate

-----------------------------------------------------------------------------
\* Answers.

\* An answer that shows true rows, resets the flag of its call and leaves in the
\* slot nothing or a call that locks nothing.
LEMMA ShownOK ==
  ASSUME Trusted, [Next]_vars, NEW k \in Slots, calls[k] # None,
         NEW call \in CallType \cup {None},
         call # None => Addressed(call) /\ call.op \notin Locking,
         NEW d \in DeskType, d.page = desk.page, d.busy = Reset(desk.busy, calls[k]),
         \A row \in d.rows : RowTrue(row)',
         ShowWith(d, [calls EXCEPT ![k] = call])
  PROVE  DeskOK' /\ RowsTrue' /\ CallsTrue'
<1>1. PICK table : table = [calls EXCEPT ![k] = call]
  OBVIOUS
<1>2. CallsOK(table)
  BY <1>1, SlotSet DEF Trusted, DeskOK
<1>3. \A j \in Slots : table[j] = IF j = k THEN call ELSE calls[j]
  BY <1>1 DEF Trusted, DeskOK, CallsOK
<1>4. Covered(d.busy, table)
  BY <1>3, ResetCovers DEF Trusted
<1>5. /\ desk' \in DeskType /\ desk'.rows = d.rows
      /\ CallsOK(calls') /\ Covered(desk'.busy, calls')
      /\ \A j \in Slots : calls'[j] # None => table[j] # None /\ Same(calls'[j], table[j])
  BY <1>1, <1>2, <1>4, ShowStep
<1>6. CallsTrue'
  <2>1. \A j \in Slots : calls'[j] # None =>
          calls'[j].op \notin Locking \/ (calls[j] # None /\ Same(calls'[j], calls[j]))
    BY <1>3, <1>5 DEF Same
  <2> QED
    BY <2>1, CallsGoOn DEF Trusted
<1>7. RowsTrue'
  BY <1>5 DEF RowsTrue
<1> QED
  BY <1>5, <1>6, <1>7 DEF DeskOK

\* The rows that stay are true in the next state.
LEMMA RowsStay ==
  ASSUME Trusted, [Next]_vars
  PROVE  \A row \in desk.rows : row \in Copies /\ RowTrue(row)'
<1> SUFFICES ASSUME NEW row \in desk.rows PROVE row \in Copies /\ RowTrue(row)'
  OBVIOUS
<1>1. row \in Copies /\ RowTrue(row)
  BY DEF Trusted, DeskOK, DeskType, RowsTrue
<1> QED
  BY <1>1, RowStaysTrue DEF Trusted

\* reload's call, whatever the call was that ends.
LEMMA ReloadCall ==
  ASSUME Trusted, NEW k \in Slots, calls[k] # None
  PROVE  Reload(k) \in CallType /\ Addressed(Reload(k)) /\ Reload(k).op \notin Locking
<1>1. PICK call \in CallType : call = calls[k]
  BY DEF Trusted, DeskOK, CallsOK
<1>2. desk.filter \in Filters \cup {"ALL"} /\ call.filter \in Filters \cup {"ALL"}
  BY DEF Trusted, DeskOK, DeskType, CallType
<1>3. PICK new : new = Reload(k)
  OBVIOUS
<1>4. new \in CallType /\ new.op = "list" /\ new.flag = None /\ ~ new.panel
  BY <1>1, <1>2, <1>3 DEF Reload, Call, CallType, Ops
<1>5. Addressed(new) /\ new.op \notin Locking
  BY <1>4 DEF Addressed, Locking, ContainerCalls
<1> QED
  BY <1>3, <1>4, <1>5

LEMMA ListArrivedStep ==
  ASSUME Trusted, Transport', KnownStatuses', NEW k \in Slots, ListArrived(k)
  PROVE  DeskOK' /\ RowsTrue' /\ CallsTrue'
<1>1. PICK rows : rows = Listing(desk.page, calls[k].filter)
  OBVIOUS
<1>2. \A row \in rows : row \in Copies /\ RowTrue(row)'
  BY <1>1, ListIsTrue
<1>3. PICK d : d = [desk EXCEPT !.rows = rows]
  OBVIOUS
<1>4. d \in DeskType /\ d.page = desk.page /\ d.rows = rows /\ d.busy = desk.busy
  BY <1>2, <1>3 DEF DeskType, Trusted, DeskOK
<1>5. calls[k] # None /\ calls[k].flag = None
  BY DEF ListArrived, Answers, Trusted, DeskOK, CallsOK, Addressed
<1>6. ShowWith(d, [calls EXCEPT ![k] = None]) /\ UNCHANGED vars
  BY <1>1, <1>3 DEF ListArrived, Done
<1>7. d.busy = Reset(desk.busy, calls[k])
  BY <1>4, <1>5 DEF Reset
<1> QED
  BY <1>2, <1>4, <1>5, <1>6, <1>7, ShownOK

LEMMA RefreshedStep ==
  ASSUME Trusted, Transport', KnownStatuses', NEW k \in Slots, Refreshed(k)
  PROVE  DeskOK' /\ RowsTrue' /\ CallsTrue'
<1>1. PICK rows :
        rows = IF calls[k].lost THEN desk.rows ELSE Applied(desk.rows, CopyOf(calls[k].id))
  OBVIOUS
<1>2. UNCHANGED vars
  BY DEF Refreshed
<1>3. \A row \in rows : row \in Copies /\ RowTrue(row)'
  BY <1>1, <1>2, RowsStay, ReplacedIsTrue DEF Trusted
<1>4. PICK d : d = [desk EXCEPT !.rows = rows, !.busy = Reset(@, calls[k])]
  OBVIOUS
<1>5. /\ d \in DeskType /\ d.page = desk.page /\ d.rows = rows
      /\ d.busy = Reset(desk.busy, calls[k])
  BY <1>3, <1>4, ResetTyped DEF DeskType, Trusted, DeskOK
<1>6. calls[k] # None /\ ShowWith(d, [calls EXCEPT ![k] = Reload(k)])
  BY <1>1, <1>4 DEF Refreshed, Answers
<1> QED
  BY <1>2, <1>3, <1>5, <1>6, ReloadCall, ShownOK

LEMMA FormAnsweredStep ==
  ASSUME Trusted, [Next]_vars, NEW k \in Slots, FormAnswered(k)
  PROVE  DeskOK' /\ RowsTrue' /\ CallsTrue'
<1>1. PICK d : d = [desk EXCEPT !.selected = calls[k].id, !.busy = Reset(@, calls[k])]
  OBVIOUS
<1>2. calls[k] # None /\ calls[k].id \in Manifests
  BY DEF FormAnswered, Answers, Trusted, DeskOK, CallsOK, Addressed
<1>3. /\ d \in DeskType /\ d.page = desk.page /\ d.rows = desk.rows
      /\ d.busy = Reset(desk.busy, calls[k])
  BY <1>1, <1>2, ResetTyped DEF DeskType, Trusted, DeskOK
<1>4. ShowWith(d, [calls EXCEPT ![k] = Reload(k)])
  BY <1>1 DEF FormAnswered
<1>5. \A row \in d.rows : RowTrue(row)'
  BY <1>3, RowsStay
<1> QED
  BY <1>2, <1>3, <1>4, <1>5, ReloadCall, ShownOK

LEMMA ContainerChangedStep ==
  ASSUME Trusted, [Next]_vars, NEW k \in Slots, ContainerChanged(k)
  PROVE  DeskOK' /\ RowsTrue' /\ CallsTrue'
<1>1. PICK d : d = [desk EXCEPT !.busy = Reset(@, calls[k])]
  OBVIOUS
<1>2. calls[k] # None
  BY DEF ContainerChanged, Answers
<1>3. /\ d \in DeskType /\ d.page = desk.page /\ d.rows = desk.rows
      /\ d.busy = Reset(desk.busy, calls[k])
  BY <1>1, <1>2, ResetTyped DEF DeskType, Trusted, DeskOK
<1>4. ShowWith(d, [calls EXCEPT ![k] = Reload(k)])
  BY <1>1 DEF ContainerChanged
<1>5. \A row \in d.rows : RowTrue(row)'
  BY <1>3, RowsStay
<1> QED
  BY <1>2, <1>3, <1>4, <1>5, ReloadCall, ShownOK

LEMMA EditedStep ==
  ASSUME Trusted, [Next]_vars, Transport', KnownStatuses', NEW k \in Slots, Edited(k)
  PROVE  DeskOK' /\ RowsTrue' /\ CallsTrue'
<1>1. PICK rows : rows = Applied(desk.rows, CopyOf(calls[k].id))
  OBVIOUS
<1>2. \A row \in rows : row \in Copies /\ RowTrue(row)'
  BY <1>1, ReplacedIsTrue DEF Trusted
<1>3. PICK d : d = [desk EXCEPT !.rows = rows, !.busy = Reset(@, calls[k])]
  OBVIOUS
<1>4. calls[k] # None /\ ShowWith(d, [calls EXCEPT ![k] = None])
  BY <1>1, <1>3 DEF Edited, Answers, Done
<1>5. /\ d \in DeskType /\ d.page = desk.page /\ d.rows = rows
      /\ d.busy = Reset(desk.busy, calls[k])
  BY <1>2, <1>3, <1>4, ResetTyped DEF DeskType, Trusted, DeskOK
<1> QED
  BY <1>2, <1>4, <1>5, ShownOK

\* The same call in the same slot, but for its flag, what follows it, or its
\* being lost: nobody's flag loses its call.
LEMMA MovedStep ==
  ASSUME Trusted, [Next]_vars, NEW k \in Slots, Moved(k)
  PROVE  DeskOK' /\ RowsTrue' /\ CallsTrue'
<1>1. PICK call \in CallType : call = calls[k]
  BY DEF Moved, Answers, Trusted, DeskOK, CallsOK
<1>2. PICK new : new = [call EXCEPT !.op = "refresh"]
  OBVIOUS
<1>3. new \in CallType /\ new.op = "refresh" /\ new.flag = call.flag /\ new.panel = call.panel
  BY <1>2 DEF CallType, Ops
<1>4. Addressed(call) /\ call # None
  BY <1>1 DEF Moved, Answers, Trusted, DeskOK, CallsOK
<1>5. Addressed(new)
  BY <1>3, <1>4 DEF Addressed, ContainerCalls
<1>6. calls' = [calls EXCEPT ![k] = new] /\ desk' = desk
  BY <1>1, <1>2 DEF Moved, Trusted, DeskOK, CallsOK
<1>7. CallsOK(calls')
  BY <1>3, <1>5, <1>6, SlotSet DEF Trusted, DeskOK
<1>8. \A j \in Slots : calls'[j] = IF j = k THEN new ELSE calls[j]
  BY <1>6 DEF Trusted, DeskOK, CallsOK
<1>9. Covered(desk'.busy, calls')
  BY <1>1, <1>3, <1>6, <1>8, DeskNoneAssumption DEF Trusted, DeskOK, Covered
<1>10. CallsTrue'
  <2>1. \A j \in Slots : calls'[j] # None =>
          calls'[j].op \notin Locking \/ (calls[j] # None /\ Same(calls'[j], calls[j]))
    BY <1>3, <1>8 DEF Same, Locking
  <2> QED
    BY <2>1, CallsGoOn DEF Trusted
<1>11. RowsTrue'
  BY <1>6, RowsGoOn
<1> QED
  BY <1>6, <1>7, <1>9, <1>10, <1>11 DEF Trusted, DeskOK

LEMMA LoseStep ==
  ASSUME Trusted, [Next]_vars, NEW k \in Slots, Lose(k)
  PROVE  DeskOK' /\ RowsTrue' /\ CallsTrue'
<1>1. PICK call \in CallType : call = calls[k]
  BY DEF Lose, Trusted, DeskOK, CallsOK
<1>2. PICK new : new = [call EXCEPT !.lost = TRUE]
  OBVIOUS
<1>3. /\ new \in CallType /\ Same(new, call) /\ new.part = call.part
      /\ new.flag = call.flag /\ new.panel = call.panel
  BY <1>2 DEF CallType, Same
<1>4. Addressed(call) /\ call # None
  BY <1>1 DEF Lose, Trusted, DeskOK, CallsOK
<1>5. Addressed(new)
  BY <1>3, <1>4 DEF Addressed, Same
<1>6. calls' = [calls EXCEPT ![k] = new] /\ desk' = desk
  BY <1>1, <1>2 DEF Lose, Trusted, DeskOK, CallsOK
<1>7. CallsOK(calls')
  BY <1>3, <1>5, <1>6, SlotSet DEF Trusted, DeskOK
<1>8. \A j \in Slots : calls'[j] = IF j = k THEN new ELSE calls[j]
  BY <1>6 DEF Trusted, DeskOK, CallsOK
<1>9. Covered(desk'.busy, calls')
  BY <1>1, <1>3, <1>6, <1>8, DeskNoneAssumption DEF Trusted, DeskOK, Covered
<1>10. CallsTrue'
  <2>1. \A j \in Slots : calls'[j] # None =>
          calls'[j].op \notin Locking \/ (calls[j] # None /\ Same(calls'[j], calls[j]))
    BY <1>1, <1>3, <1>4, <1>8 DEF Same
  <2> QED
    BY <2>1, CallsGoOn DEF Trusted
<1>11. RowsTrue'
  BY <1>6, RowsGoOn
<1> QED
  BY <1>6, <1>7, <1>9, <1>10, <1>11 DEF Trusted, DeskOK

LEMMA ScannedStep ==
  ASSUME Trusted, NEW k \in Slots, Scanned(k)
  PROVE  DeskOK' /\ RowsTrue' /\ CallsTrue'
<1>1. PICK call \in CallType : call = calls[k]
  BY DEF Scanned, Answers, Trusted, DeskOK, CallsOK
<1>2. PICK flag : flag = IF call.panel THEN "assigning" ELSE None
  OBVIOUS
<1>3. PICK new : new = [call EXCEPT !.op = "addItem", !.flag = flag]
  OBVIOUS
<1>4. "assigning" \in PanelFlags /\ "assigning" \in Flags
  BY DEF PanelFlags, Flags
<1>5. Addressed(call) /\ call # None /\ call.op = "scan" /\ call.flag = None
  BY <1>1 DEF Scanned, Answers, Trusted, DeskOK, CallsOK, Addressed
<1>6. /\ new \in CallType /\ new.op = "addItem" /\ new.id = call.id /\ new.part = call.part
      /\ new.flag = flag /\ new.panel = call.panel
  BY <1>2, <1>3, <1>4 DEF CallType, Ops
<1>7. Addressed(new)
  BY <1>2, <1>4, <1>5, <1>6 DEF Addressed, ContainerCalls
<1>8. /\ calls' = [calls EXCEPT ![k] = new] /\ UNCHANGED vars
      /\ desk' = IF flag = None THEN desk ELSE [desk EXCEPT !.busy[flag] = call.part]
  BY <1>1, <1>2, <1>3 DEF Scanned, Trusted, DeskOK, CallsOK
<1>9. CallsOK(calls')
  BY <1>6, <1>7, <1>8, SlotSet DEF Trusted, DeskOK
<1>10. \A j \in Slots : calls'[j] = IF j = k THEN new ELSE calls[j]
  BY <1>8 DEF Trusted, DeskOK, CallsOK
<1>11. /\ desk' \in DeskType /\ desk'.rows = desk.rows
       /\ \A f \in Flags : f # flag => desk'.busy[f] = desk.busy[f]
  <2>1. call.part \in Items
    BY <1>5 DEF Addressed
  <2> QED
    BY <1>8, <2>1 DEF Trusted, DeskOK, DeskType
<1>12. Covered(desk'.busy, calls')
  <2> SUFFICES ASSUME NEW f \in Flags, desk'.busy[f] # None
               PROVE  \E j \in Slots : calls'[j] # None /\ calls'[j].flag = f
    BY DEF Covered
  <2>1. CASE f = flag
    BY <1>6, <1>10, <2>1, DeskNoneAssumption
  <2>2. CASE f # flag
    <3>1. PICK j \in Slots : calls[j] # None /\ calls[j].flag = f
      BY <1>11, <2>2 DEF Trusted, DeskOK, Covered
    <3>2. j # k
      BY <1>1, <1>5, <3>1, DeskNoneAssumption
    <3> QED
      BY <1>10, <3>1, <3>2
  <2> QED
    BY <2>1, <2>2
<1>13. CallsTrue'
  <2>1. \A j \in Slots : calls'[j] # None =>
          calls'[j].op \notin Locking \/ (calls[j] # None /\ Same(calls'[j], calls[j]))
    BY <1>6, <1>10 DEF Same, Locking
  <2> QED
    BY <1>8, <2>1, CallsGoOn DEF Trusted
<1>14. RowsTrue'
  BY <1>8, <1>11, RowsGoOn
<1> QED
  BY <1>9, <1>11, <1>12, <1>13, <1>14 DEF DeskOK

LEMMA FailedStep ==
  ASSUME Trusted, NEW k \in Slots, Failed(k)
  PROVE  DeskOK' /\ RowsTrue' /\ CallsTrue'
<1>1. calls[k] # None /\ UNCHANGED vars /\ calls' = [calls EXCEPT ![k] = None]
  BY DEF Failed, Done
<1>2. desk' = [desk EXCEPT !.busy = Reset(desk.busy, calls[k])]
  BY DEF Failed, BusyAfterFailure
<1>3. PICK busy : busy = Reset(desk.busy, calls[k])
  OBVIOUS
<1>4. busy \in [Flags -> Manifests \cup Containers \cup Items \cup {None}]
  BY <1>3, ResetTyped DEF Trusted
<1>5. desk' \in DeskType /\ desk'.rows = desk.rows /\ desk'.busy = busy
  BY <1>2, <1>3, <1>4 DEF Trusted, DeskOK, DeskType
<1>6. \A j \in Slots : calls'[j] = IF j = k THEN None ELSE calls[j]
  BY <1>1 DEF Trusted, DeskOK, CallsOK
<1>7. CallsOK(calls')
  BY <1>1, SlotSet DEF Trusted, DeskOK
<1>8. Covered(desk'.busy, calls')
  <2>1. PICK table : table = calls'
    OBVIOUS
  <2>2. \A j \in Slots \ {k} : table[j] = calls[j]
    BY <1>6, <2>1
  <2>3. Covered(Reset(desk.busy, calls[k]), table)
    BY <1>1, <2>2, ResetCovers DEF Trusted
  <2> QED
    BY <1>3, <1>5, <2>1, <2>3
<1>9. CallsTrue'
  <2>1. \A j \in Slots : calls'[j] # None =>
          calls'[j].op \notin Locking \/ (calls[j] # None /\ Same(calls'[j], calls[j]))
    BY <1>6 DEF Same
  <2> QED
    BY <1>1, <2>1, CallsGoOn DEF Trusted
<1>10. RowsTrue'
  BY <1>1, <1>5, RowsGoOn
<1> QED
  BY <1>5, <1>7, <1>8, <1>9, <1>10 DEF DeskOK

-----------------------------------------------------------------------------
LEMMA TrustedInit == DeskInit => Trusted
<1> SUFFICES ASSUME DeskInit PROVE Trusted
  OBVIOUS
<1>1. Transport
  BY TransportInit DEF DeskInit
<1>2. KnownStatuses /\ NothingLacking
  BY DEF DeskInit, Init, KnownStatuses, NothingLacking, Order, NotCreated
<1>3. desk = Fresh(None) /\ calls = [k \in Slots |-> None]
  BY DEF DeskInit
<1>4. DeskOK /\ RowsTrue /\ CallsTrue
  BY <1>3 DEF Fresh, Unset, DeskOK, DeskType, CallsOK, Covered, RowsTrue, CallsTrue
<1> QED
  BY <1>1, <1>2, <1>4 DEF Trusted

LEMMA TrustedStep == Trusted /\ [DeskNext]_manifestDeskVars => Trusted'
<1> SUFFICES ASSUME Trusted, [DeskNext]_manifestDeskVars PROVE Trusted'
  OBVIOUS
<1>1. CASE DeskNext
  <2>1. [Next]_vars /\ NothingLacking'
    BY <1>1, DeskStepsAreRequests DEF Trusted
  <2>2. Transport'
    BY <2>1, TransportStep DEF Trusted
  <2>3. KnownStatuses'
    BY <2>1, ManifestsGoOn DEF Trusted, KnownStatuses
  <2>4. DeskOK' /\ RowsTrue' /\ CallsTrue'
    <3>1. CASE Operate
      BY <3>1, OperateStep
    <3>2. CASE Answer
      BY <2>1, <2>2, <2>3, <3>2, ListArrivedStep, ScannedStep, MovedStep, RefreshedStep,
         FormAnsweredStep, ContainerChangedStep, EditedStep, FailedStep DEF Answer
    <3>3. CASE \E k \in Slots : Lose(k)
      BY <2>1, <3>3, LoseStep
    <3>4. CASE Elsewhere
      <4>1. desk' = desk /\ calls' = calls
        BY <3>4 DEF Elsewhere
      <4>2. CallsTrue'
        BY <2>1, <4>1, CallsGoOn DEF Trusted, Same
      <4> QED
        BY <2>1, <4>1, <4>2, RowsGoOn DEF Trusted, DeskOK
    <3> QED
      BY <1>1, <3>1, <3>2, <3>3, <3>4 DEF DeskNext
  <2> QED
    BY <2>1, <2>2, <2>3, <2>4 DEF Trusted
<1>2. CASE UNCHANGED manifestDeskVars
  <2>1. UNCHANGED <<vars, lacking, desk, calls>>
    BY <1>2 DEF manifestDeskVars, deskVars
  <2>2. Transport' /\ NothingLacking'
    BY <2>1, TransportStep DEF Trusted, NothingLacking
  <2>3. KnownStatuses'
    BY <2>1, ManifestsGoOn DEF Trusted, KnownStatuses
  <2>4. CallsTrue'
    BY <2>1, CallsGoOn DEF Trusted, Same
  <2> QED
    BY <2>1, <2>2, <2>3, <2>4, RowsGoOn DEF Trusted, DeskOK
<1> QED
  BY <1>1, <1>2

-----------------------------------------------------------------------------
\* The inductive invariant: whatever the page does, behind it is a server whose
\* containers and manifests hang together, every row it shows locked is true,
\* every pressed button moves what was shown, every set flag has its call.
THEOREM TrustedInvariant == ManifestDeskSpec => []Trusted
BY TrustedInit, TrustedStep, PTL DEF ManifestDeskSpec

LEMMA TrustedPage == Trusted => PageIsTrue
<1> SUFFICES ASSUME Trusted PROVE PageIsTrue
  OBVIOUS
<1>1. \A m \in Manifests : manifestStatus[m] \in Final => PrintedCargo(m) = snapshot[m]
  BY DEF Trusted, Transport, SnapshotIsCargo, PrintedCargo, PrintedFromSnapshot, Final
<1>2. LockedCopyIsTrue
  <2> SUFFICES ASSUME NEW row \in desk.rows
               PROVE  IF row.id \in Manifests
                      THEN /\ Order[row.status] <= Order[manifestStatus[row.id]]
                           /\ row.status # "DRAFT" => row.cargo = PrintedCargo(row.id)
                      ELSE row.status \notin {"BOOKED", "LOADING"} => row.cargo = Aboard(row.id)
    BY DEF LockedCopyIsTrue
  <2>1. row \in Copies /\ RowTrue(row)
    BY DEF Trusted, DeskOK, DeskType, RowsTrue
  <2>2. CASE row.id \in Manifests
    <3>1. manifestStatus[row.id] \in DOMAIN Order
      BY <2>2 DEF Trusted, KnownStatuses
    <3>2. row.status # "DRAFT" => manifestStatus[row.id] \in Final
      BY <2>1, <2>2, <3>1 DEF RowTrue, Order, Final
    <3> QED
      BY <1>1, <2>1, <2>2, <3>2 DEF RowTrue
  <2>3. CASE row.id \notin Manifests
    BY <2>1, <2>3 DEF RowTrue, Open, Copies, NotCreated, ManifestStatuses, ContainerStatuses
  <2> QED
    BY <2>2, <2>3
<1>3. DepartsWhatWasShown
  <2> SUFFICES ASSUME NEW k \in Slots, calls[k] # None,
                      calls[k].op \in {"depart", "arrive", "open", "close"}
               PROVE  calls[k].seen = IF calls[k].id \in Manifests THEN PrintedCargo(calls[k].id)
                                      ELSE Aboard(calls[k].id)
    BY DEF DepartsWhatWasShown
  <2>1. Addressed(calls[k]) /\ CallTrue(calls[k])
    BY DEF Trusted, DeskOK, CallsOK, CallsTrue
  <2> QED
    BY <1>1, <2>1, TransportAssumption DEF Addressed, CallTrue, ContainerCalls
<1>4. NeverStuck
  BY DEF Trusted, DeskOK, Covered, NeverStuck
<1> QED
  BY <1>2, <1>3, <1>4 DEF PageIsTrue

\* What the Manifests and Containers pages lock is true, what departs, arrives or
\* is opened is what was on the screen, and no button or input stays disabled, in
\* whatever order calls are answered or lost and however the rest of the staff
\* works meanwhile.
THEOREM PageStaysTrue == ManifestDeskSpec => []PageIsTrue
BY TrustedInvariant, TrustedPage, PTL

\* No manifest the form makes lacks what finalize asks for.
THEOREM CreatedCanAlwaysFinalize == ManifestDeskSpec => []CreatedCanFinalize
<1>1. Trusted => CreatedCanFinalize
  BY DEF Trusted, NothingLacking, CreatedCanFinalize
<1> QED
  BY <1>1, TrustedInvariant, PTL

\* Behind the page the server does what Cargo says, whatever is pressed, lost or
\* answered late: all that is proved of Spec is true of it.
THEOREM BehindThePage == ManifestDeskSpec => Spec
<1>1. Trusted /\ [DeskNext]_manifestDeskVars => [Next]_vars
  BY DeskStepsAreRequests DEF Trusted, manifestDeskVars
<1>2. DeskInit => Init
  BY DEF DeskInit
<1> QED
  BY <1>1, <1>2, TrustedInvariant, PTL DEF ManifestDeskSpec, Spec

=============================================================================

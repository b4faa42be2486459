----------------------------- MODULE ManifestDesk -----------------------------
(***************************************************************************)
(* The dashboard's two transport pages, Manifests and Containers: a list   *)
(* loaded for a status filter, the one selected row in detail, and the     *)
(* buttons its status calls for; under a DRAFT manifest the panel that     *)
(* assigns containers (ocean) or scanned items (air). The server is Cargo: *)
(* a press is one of its actions or is refused, and the rest of the staff  *)
(* keeps working, so what is on the page may be out of date when it is     *)
(* acted on. Also the manifest form, and the document printed of one.      *)
(*                                                                         *)
(* One browser tab. Its calls are answered in any order. A handler goes on *)
(* with what the render that started it knew: the row it acts on and the   *)
(* filter it reloads the list for; what it writes lands in the page as it  *)
(* is by then.                                                             *)
(*                                                                         *)
(* Left out: the user's role (this one may press everything), messages,    *)
(* the window.confirm dialogues, which container's contents are folded     *)
(* out, and the list of eligible containers: an assignment is tried for    *)
(* any container that was ever sealed, as an old list would offer it.      *)
(***************************************************************************)
EXTENDS Cargo

CONSTANTS
  Pages,        \* the pages the tab may be at
  Filters,      \* the status filters pressed, "ALL" among them
  MaxSteps      \* bound: while a page is open, how many calls it starts, others'
                \* requests and lost calls there are in all

VARIABLES
  lacking,      \* manifest -> what finalize will miss of its transport details
  desk,         \* what the mounted page holds
  calls,        \* slot -> the call in flight there, or None
  used          \* how many of MaxSteps there have been

deskVars == <<desk, calls, used>>
manifestDeskVars == <<vars, lacking, deskVars>>

Slots == 1..2
Flags == {"finalizing", "departing", "arriving", "opening", "closing", "creating",
          "assigning", "removing"}
PanelFlags == {"assigning", "removing"}
Ops ==
  {"list", "refresh", "scan", "create", "finalize", "depart", "arrive", "assign", "unassign",
   "addItem", "removeItem", "seal", "open", "close", "unload"}
Unset == [f \in Flags |-> None]

ASSUME PagesAssumption == Pages \subseteq {"manifests", "containers"}
ASSUME DeskBoundAssumption == MaxSteps \in Nat

\* What the list and the detail show of a manifest or container, and a call.
Copies ==
  [id: Manifests \cup Containers, status: ManifestStatuses \cup ContainerStatuses,
   parts: SUBSET (Items \cup Containers), cargo: SUBSET Items]
CallType ==
  [op: Ops, id: Manifests \cup Containers \cup {None}, part: Items \cup Containers \cup {None},
   flag: Flags \cup {None}, panel: BOOLEAN, filter: Filters \cup {"ALL"}, seen: SUBSET Items,
   lost: BOOLEAN]

ASSUME DeskNoneAssumption == None \notin Flags \cup CallType

\* useState of a page just mounted; page None is no page at all.
Fresh(page) == [page |-> page, filter |-> "ALL", rows |-> {}, selected |-> None, busy |-> Unset]

DeskInit ==
  /\ Init
  /\ lacking = [m \in Manifests |-> {}]
  /\ desk = Fresh(None)
  /\ calls = [k \in Slots |-> None]
  /\ used = 0

-----------------------------------------------------------------------------
\* What the server says of a manifest or container: present(), with the parts it
\* lists (containers, or an air manifest's items) and the items summarized.

Inside(c) == {i \in Items : containerItems'[c][i] > 0}

ManifestCopy(m) ==
  LET parts == IF ModeOf[m] = "AIR" THEN {i \in Items : manifestItems'[m][i] > 0}
               ELSE {c \in Containers : manifestId'[c] = m}
  IN  [id |-> m, status |-> manifestStatus'[m], parts |-> parts,
       cargo |-> IF ModeOf[m] = "AIR" THEN parts ELSE UNION {Inside(c) : c \in parts}]

ContainerCopy(c) ==
  [id |-> c, status |-> containerStatus'[c], parts |-> Inside(c), cargo |-> Inside(c)]

CopyOf(x) == IF x \in Manifests THEN ManifestCopy(x) ELSE ContainerCopy(x)

\* findAll of the page's table.
Listing(page, filter) ==
  {copy \in IF page = "manifests" THEN {ManifestCopy(m) : m \in Manifests}
            ELSE {ContainerCopy(c) : c \in Containers} :
     copy.status # NotCreated /\ filter \in {"ALL", copy.status}}

\* getPrintDocument: a manifest that has a snapshot is documented from it, a
\* draft from the rows there are now.
PrintedFromLive(m) == CargoOf(m)
PrintedFromSnapshot(m) == snapshot[m]
PrintedCargo(m) == IF snapshot[m] # {} THEN PrintedFromSnapshot(m) ELSE PrintedFromLive(m)

-----------------------------------------------------------------------------
\* The manifest form.

Fields == {"carrierName", "vesselName", "voyageNumber", "flightNumber", "warehouse",
           "originLocation", "destinationLocation"}

\* Mistake for CreatedCanFinalize: any one field identifies the voyage.
FormErrorsLoose(mode, filled) ==
  ({"carrierName", "destinationLocation"} \ filled)
    \cup (IF mode = "AIR" THEN {"flightNumber"} \ filled
          ELSE IF {"vesselName", "voyageNumber"} \cap filled # {} THEN {} ELSE {"vesselName"})
    \cup (IF {"warehouse", "originLocation"} \cap filled = {} THEN {"origin"} ELSE {})

\* validate: what the form complains of.
FormErrors(mode, filled) ==
  ({"carrierName", "destinationLocation"} \ filled)
    \cup ((IF mode = "AIR" THEN {"flightNumber"} ELSE {"vesselName", "voyageNumber"}) \ filled)
    \cup (IF {"warehouse", "originLocation"} \cap filled = {} THEN {"origin"} ELSE {})

\* handleSubmit: fields of the other mode, typed before the mode was changed, are
\* not sent.
Sent(mode, filled) ==
  filled \ (IF mode = "AIR" THEN {"vesselName", "voyageNumber"} ELSE {"flightNumber"})

\* ManifestsService.finalize's missing.
Missing(mode, stored) ==
  {f \in {"carrierName", "destinationLocation"} : f \notin stored}
    \cup {f \in {"flightNumber"} : mode = "AIR" /\ f \notin stored}
    \cup {f \in {"vesselName", "voyageNumber"} : mode # "AIR" /\ f \notin stored}
    \cup {f \in {"origin"} : stored \cap {"originLocation", "warehouse"} = {}}

\* What finalize would miss of a manifest the form lets through.
MissingOfForms(mode) ==
  {Missing(mode, Sent(mode, filled)) : filled \in {F \in SUBSET Fields : FormErrors(mode, F) = {}}}

-----------------------------------------------------------------------------
\* Calls.

FlagOf ==
  [finalize |-> "finalizing", seal |-> "finalizing", depart |-> "departing",
   arrive |-> "arriving", open |-> "opening", close |-> "closing",
   create |-> "creating", assign |-> "assigning", addItem |-> "assigning",
   unassign |-> "removing", removeItem |-> "removing", unload |-> "removing"]

\* flag: the busy flag its end resets, or None. panel: sent by the panel on the
\* screen, whose own state the answer may still set. seen: the cargo shown then.
Call(op, x, part) ==
  [op |-> op, id |-> x, part |-> part, flag |-> None, panel |-> FALSE,
   filter |-> desk.filter, seen |-> {}, lost |-> FALSE]

Send(call) ==
  /\ used < MaxSteps
  /\ used' = used + 1
  /\ \E k \in Slots :
       /\ calls[k] = None
       /\ \A j \in Slots : j < k => calls[j] # None
       /\ calls' = [calls EXCEPT ![k] = call]

Selected(d) == {copy \in d.rows : copy.id = d.selected}

\* The panel under the selected manifest: which mode's, if there is one.
Panel(d) == IF d.page = "manifests" THEN {ModeOf[copy.id] : copy \in Selected(d)} ELSE {}

\* A panel that is replaced by the other one, or goes with the selection, takes
\* its flags along, and its calls' answers find it gone.
Settled(d) == IF Panel(d) = Panel(desk) \/ desk.page # "manifests" THEN d
              ELSE [d EXCEPT !.busy = [f \in Flags |-> IF f \in PanelFlags THEN None ELSE @[f]]]
Orphaned(d, table) ==
  IF Panel(d) = Panel(desk) THEN table
  ELSE [k \in Slots |-> IF table[k] = None THEN None
                        ELSE [table[k] EXCEPT !.flag = IF table[k].panel THEN None ELSE @,
                                              !.panel = FALSE]]
ShowWith(d, table) == desk' = Settled(d) /\ calls' = Orphaned(d, table)

\* applyUpdate: the copy of that row is replaced, if the list has it.
\* Mistake for PageIsTrue: the row keeps the assignments it shows.
AppliedToStatus(rows, copy) ==
  {IF row.id = copy.id THEN [row EXCEPT !.status = copy.status] ELSE row : row \in rows}
Applied(rows, copy) == {IF row.id = copy.id THEN copy ELSE row : row \in rows}

Reset(busy, call) == IF call.flag = None THEN busy ELSE [busy EXCEPT ![call.flag] = None]

\* reload() as the handler's render knew it, in the slot of the call that ends.
Reload(k) == [Call("list", None, None) EXCEPT !.filter = calls[k].filter]

-----------------------------------------------------------------------------
\* The operator.

\* There is something to list; the list is loaded as soon as the page is there.
OpenPage(page) ==
  /\ desk.page = None
  /\ IF page = "manifests" THEN \E m \in Manifests : manifestStatus[m] # NotCreated
     ELSE \E c \in Containers : containerStatus[c] # NotCreated
  /\ Send(Call("list", None, None))
  /\ desk' = Fresh(page)
  /\ UNCHANGED <<vars, lacking>>

Leave ==
  /\ desk.page # None
  /\ desk' = Fresh(None)
  /\ calls' = [k \in Slots |-> None]
  /\ used' = 0
  /\ UNCHANGED <<vars, lacking>>

SetFilter(filter) ==
  /\ desk.page # None
  /\ filter # desk.filter
  /\ Send([Call("list", None, None) EXCEPT !.filter = filter])
  /\ desk' = [desk EXCEPT !.filter = filter]
  /\ UNCHANGED <<vars, lacking>>

Select(x) ==
  /\ \E copy \in desk.rows : copy.id = x
  /\ x # desk.selected
  /\ ShowWith([desk EXCEPT !.selected = x], calls)
  /\ UNCHANGED <<vars, lacking, used>>

ManifestButtons(status) ==
  CASE status = "DRAFT" -> {"finalize"}
    [] status = "FINALIZED" -> {"depart"}
    [] status = "DEPARTED" -> {"arrive"}
    [] OTHER -> {}

ContainerButtons(status) ==
  CASE status = "LOADING" -> {"seal"}
    [] status = "ARRIVED" -> {"open"}
    [] status = "UNLOADING" -> {"close"}
    [] OTHER -> {}

\* handleFinalize, handleDepart, handleArrive, handleOpen, handleClose.
Press(op) ==
  \E copy \in Selected(desk) :
    /\ op \in IF copy.id \in Manifests THEN ManifestButtons(copy.status)
              ELSE ContainerButtons(copy.status)
    /\ desk.busy[FlagOf[op]] = None
    /\ Send([Call(op, copy.id, None) EXCEPT !.flag = FlagOf[op], !.seen = copy.cargo])
    /\ desk' = [desk EXCEPT !.busy[FlagOf[op]] = copy.id]
    /\ UNCHANGED <<vars, lacking>>

\* The form stays open while its call runs, with the button disabled.
SubmitForm(m) ==
  /\ desk.page = "manifests"
  /\ desk.busy["creating"] = None
  /\ manifestStatus[m] = NotCreated
  /\ Send([Call("create", m, None) EXCEPT !.flag = "creating"])
  /\ desk' = [desk EXCEPT !.busy["creating"] = m]
  /\ UNCHANGED <<vars, lacking>>

\* A panel's own call about one part.
Edit(op, x, part) ==
  /\ Send([Call(op, x, part) EXCEPT !.flag = FlagOf[op], !.panel = x \in Manifests])
  /\ desk' = [desk EXCEPT !.busy[FlagOf[op]] = part]
  /\ UNCHANGED <<vars, lacking>>

\* ManifestContainerAssignment, ManifestItemAssignment (a row of the manual search
\* is picked; the result may be old) and ContainerContentsList. A flag holds the
\* part its call is about, and disables that part's button only.
Idle(flag, part) == desk.busy[flag] # part

EditSelected ==
  \E copy \in Selected(desk) :
    \/ /\ copy.id \in Manifests /\ copy.status = "DRAFT" /\ ModeOf[copy.id] = "OCEAN"
       /\ \E c \in Containers :
            \/ c \in copy.parts /\ Idle("removing", c) /\ Edit("unassign", copy.id, c)
            \/ /\ containerStatus[c] \notin {NotCreated, "BOOKED", "LOADING"}
               /\ Idle("assigning", c)
               /\ Edit("assign", copy.id, c)
    \/ /\ copy.id \in Manifests /\ copy.status = "DRAFT" /\ ModeOf[copy.id] = "AIR"
       /\ \E i \in Items :
            \/ i \in copy.parts /\ Idle("removing", i) /\ Edit("removeItem", copy.id, i)
            \/ Created(i) /\ Edit("addItem", copy.id, i)
    \/ /\ copy.id \in Containers /\ copy.status \in {"BOOKED", "LOADING"}
       /\ \E i \in copy.parts : Idle("removing", i) /\ Edit("unload", copy.id, i)

\* handleScan: the input is disabled while an item is assigned, not while one is
\* looked up.
ScanInput(i) ==
  \E copy \in Selected(desk) :
    /\ copy.id \in Manifests /\ copy.status = "DRAFT" /\ ModeOf[copy.id] = "AIR"
    /\ desk.busy["assigning"] = None
    /\ Send([Call("scan", copy.id, i) EXCEPT !.panel = TRUE])
    /\ UNCHANGED <<vars, lacking, desk>>

-----------------------------------------------------------------------------
\* Answers.

Answers(k, ops) == calls[k] # None /\ calls[k].op \in ops
Done(k) == [calls EXCEPT ![k] = None]

\* The code is known: the item it names is assigned, in the same handler.
Scanned(k) ==
  /\ Answers(k, {"scan"})
  /\ ~ calls[k].lost /\ Created(calls[k].part)
  /\ LET flag == IF calls[k].panel THEN "assigning" ELSE None IN
       /\ calls' = [calls EXCEPT ![k].op = "addItem", ![k].flag = flag]
       /\ desk' = IF flag = None THEN desk ELSE [desk EXCEPT !.busy[flag] = calls[k].part]
  /\ UNCHANGED <<vars, lacking, used>>

\* What the server does for a call, as an action of Cargo.
Perform(call) ==
  LET x == call.id IN
    /\ \/ call.op = "create" /\ CreateManifest(x)
       \/ call.op = "finalize" /\ lacking[x] = {} /\ FinalizeManifest(x)
       \/ call.op = "depart" /\ Depart(x)
       \/ call.op = "arrive" /\ Arrive(x)
       \/ call.op = "assign" /\ AssignContainer(x, call.part)
       \/ call.op = "unassign" /\ UnassignContainer(x, call.part)
       \/ call.op = "addItem" /\ AssignItem(x, call.part)
       \/ call.op = "removeItem" /\ UnassignItem(x, call.part)
       \/ call.op = "seal" /\ FinalizeContainer(x)
       \/ call.op = "open" /\ OpenForUnloading(x)
       \/ call.op = "close" /\ CloseUnloading(x)
       \/ call.op = "unload" /\ UnloadItem(x, call.part)
    /\ IF call.op = "create"
       THEN \E missing \in MissingOfForms(ModeOf[x]) : lacking' = [lacking EXCEPT ![x] = missing]
       ELSE UNCHANGED lacking

Reads == {"list", "refresh", "scan"}
Moves == {"finalize", "depart", "arrive"}
ContainerCalls == {"seal", "open", "close", "unload"}

\* setManifests, setContainers.
ListArrived(k) ==
  /\ Answers(k, {"list"})
  /\ ~ calls[k].lost
  /\ UNCHANGED <<vars, lacking>>
  /\ ShowWith([desk EXCEPT !.rows = Listing(desk.page, calls[k].filter)], Done(k))
  /\ UNCHANGED used

\* A move of the manifest is followed by a fresh copy of it, and then, whether or
\* not that came, by the list.
Moved(k) ==
  /\ Answers(k, Moves)
  /\ ~ calls[k].lost
  /\ Perform(calls[k])
  /\ calls' = [calls EXCEPT ![k].op = "refresh"]
  /\ UNCHANGED <<desk, used>>

Refreshed(k) ==
  /\ Answers(k, {"refresh"})
  /\ UNCHANGED <<vars, lacking>>
  /\ LET rows == IF calls[k].lost THEN desk.rows ELSE Applied(desk.rows, CopyOf(calls[k].id))
     IN  ShowWith([desk EXCEPT !.rows = rows, !.busy = Reset(@, calls[k])],
                  [calls EXCEPT ![k] = Reload(k)])
  /\ UNCHANGED used

\* onCreated closes the form and selects what it made, before the list has it.
FormAnswered(k) ==
  /\ Answers(k, {"create"})
  /\ ~ calls[k].lost
  /\ Perform(calls[k])
  /\ ShowWith([desk EXCEPT !.selected = calls[k].id, !.busy = Reset(@, calls[k])],
              [calls EXCEPT ![k] = Reload(k)])
  /\ UNCHANGED used

ContainerChanged(k) ==
  /\ Answers(k, ContainerCalls)
  /\ ~ calls[k].lost
  /\ Perform(calls[k])
  /\ ShowWith([desk EXCEPT !.busy = Reset(@, calls[k])], [calls EXCEPT ![k] = Reload(k)])
  /\ UNCHANGED used

\* onUpdated with the answer.
Edited(k) ==
  /\ Answers(k, {"assign", "unassign", "addItem", "removeItem"})
  /\ ~ calls[k].lost
  /\ Perform(calls[k])
  /\ ShowWith([desk EXCEPT !.rows = Applied(@, CopyOf(calls[k].id)), !.busy = Reset(@, calls[k])],
              Done(k))
  /\ UNCHANGED used

BusyAfterFailure(call) == Reset(desk.busy, call)

Refused(call) == call.op \notin Reads /\ ~ ENABLED Perform(call)

\* Refused, unknown or not answered.
Failed(k) ==
  /\ calls[k] # None
  /\ \/ calls[k].lost /\ calls[k].op # "refresh"
     \/ calls[k].op = "scan" /\ ~ Created(calls[k].part)
     \/ Refused(calls[k])
  /\ desk' = [desk EXCEPT !.busy = BusyAfterFailure(calls[k])]
  /\ calls' = Done(k)
  /\ UNCHANGED <<vars, lacking, used>>

\* fetch throws: the call never reached the server, or its answer is lost.
Lose(k) ==
  /\ calls[k] # None
  /\ ~ calls[k].lost
  /\ used < MaxSteps
  /\ used' = used + 1
  /\ calls' = [calls EXCEPT ![k].lost = TRUE]
  /\ \/ UNCHANGED <<vars, lacking>>
     \/ calls[k].op \notin Reads /\ Perform(calls[k])
  /\ UNCHANGED desk

\* The rest of the staff, whose manifests are complete.
Elsewhere ==
  /\ used < MaxSteps
  /\ Next
  /\ \A m \in Manifests :
       lacking[m] # {} => manifestStatus'[m] = manifestStatus[m]
  /\ used' = IF desk.page = None THEN 0 ELSE used + 1
  /\ UNCHANGED <<lacking, desk, calls>>

-----------------------------------------------------------------------------
Operate ==
  \/ \E page \in Pages : OpenPage(page)
  \/ Leave
  \/ \E filter \in Filters : SetFilter(filter)
  \/ \E x \in Manifests \cup Containers : Select(x)
  \/ \E op \in {"finalize", "depart", "arrive", "seal", "open", "close"} : Press(op)
  \/ \E m \in Manifests : SubmitForm(m)
  \/ EditSelected
  \/ \E i \in Items : ScanInput(i)

Answer ==
  \E k \in Slots :
    \/ ListArrived(k)
    \/ Scanned(k)
    \/ Moved(k)
    \/ Refreshed(k)
    \/ FormAnswered(k)
    \/ ContainerChanged(k)
    \/ Edited(k)
    \/ Failed(k)

DeskNext == Operate \/ Answer \/ (\E k \in Slots : Lose(k)) \/ Elsewhere

ManifestDeskSpec == DeskInit /\ [][DeskNext]_manifestDeskVars

-----------------------------------------------------------------------------
\* Properties.

Order == [NOT_CREATED |-> 0, DRAFT |-> 1, FINALIZED |-> 2, DEPARTED |-> 3, ARRIVED |-> 4]

\* What the page says is locked is locked, and true: a manifest shown as FINALIZED
\* or later is at least that far, and lists exactly the cargo its printed document
\* does; a container shown as sealed or later lists exactly what is in it. In
\* whatever order lists, refreshed copies and the answers of the panels come, and
\* however old they are: only a draft, or an open container, can be out of date.
LockedCopyIsTrue ==
  \A row \in desk.rows :
    IF row.id \in Manifests
    THEN /\ Order[row.status] <= Order[manifestStatus[row.id]]
         /\ row.status # "DRAFT" => row.cargo = PrintedCargo(row.id)
    ELSE row.status \notin {"BOOKED", "LOADING"} => row.cargo = Aboard(row.id)

\* "This reflects real, physical movement and cannot be undone": the cargo that
\* departs, arrives, is opened or is closed out is the cargo on the screen when
\* the button was pressed, whatever others did before the page was reloaded.
DepartsWhatWasShown ==
  \A k \in Slots :
    calls[k] # None /\ calls[k].op \in {"depart", "arrive", "open", "close"} =>
      calls[k].seen =
        IF calls[k].id \in Manifests THEN PrintedCargo(calls[k].id) ELSE Aboard(calls[k].id)

\* A button or input that is disabled is enabled again: while a flag is set a call
\* is in flight whose end resets it, also when the panel that set it was replaced,
\* the row left the list, or the call failed.
NeverStuck ==
  \A f \in Flags : desk.busy[f] # None => \E k \in Slots : calls[k] # None /\ calls[k].flag = f

\* The page can be trusted and worked with: what it locks is true, what it lets go
\* is what was seen, and it always becomes usable again.
PageIsTrue == LockedCopyIsTrue /\ DepartsWhatWasShown /\ NeverStuck

\* No manifest is made that can never be finalized: the form asks for what
\* ManifestsService.finalize will ask for, for every mode and however it is filled
\* in (the comment on CreateManifestForm's validate).
CreatedCanFinalize == \A m \in Manifests : lacking[m] = {}

=============================================================================

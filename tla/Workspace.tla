------------------------------- MODULE Workspace -------------------------------
(***************************************************************************)
(* The warehouse page of the web app: its five modes, each a screen that   *)
(* looks an item up by its scanned code, holds a copy of it, and commits   *)
(* what the operator confirms. The server is Cargo: a commit is one of its *)
(* actions or is refused, and everybody else keeps working, so what a      *)
(* screen shows may be out of date when it is acted on.                    *)
(*                                                                         *)
(* One browser tab. Its calls are answered in any order, and an answer     *)
(* finds the screen as it is by then: another item scanned, the mode       *)
(* switched, Rapid Scan turned on or off. What an answer does not re-read  *)
(* it remembers from the render that sent the call, so a call carries it.  *)
(*                                                                         *)
(* Left out: the choice of warehouse (Here is the one selected), messages, *)
(* statistics and tones, warnings about routes, the container list's       *)
(* filters and the inventory and activity lists, which only display.       *)
(* A call whose mode was left is not kept: the server may still run it, as *)
(* it may run anyone's.                                                    *)
(***************************************************************************)
EXTENDS Offers

CONSTANTS
  Modes,        \* the modes the operator may switch to
  Here,         \* the selected warehouse
  MaxSteps      \* bound: from the first call of a mode until it is left, how many
                \* calls it makes, others' requests and lost calls there are in all

VARIABLES
  screen,       \* what the mounted workspace holds
  calls,        \* slot -> the call in flight there, or None
  used          \* how many of MaxSteps there have been

screenVars == <<screen, calls, used>>
workspaceVars == <<vars, screenVars>>

ModeNames == {"RECEIVE", "PROCESS", "LOAD", "DESTINATION_RECEIVE", "PICKUP_DELIVERY"}
Slots == 1..2

ASSUME ModesAssumption == Modes \subseteq ModeNames
ASSUME HereAssumption == Here \in Warehouses
ASSUME BoundsAssumption == MaxSteps \in Nat

\* A call, and what is shown of a container. None is neither.
Views == {"nothing", "panel", "form", "summary", "reinspection", "atDesk", "withDriver"}
Ops ==
  {"scan", "find", "receive", "good", "flag", "ready", "hold", "pickup", "dispatch", "deliver",
   "return", "except", "open", "book", "load", "unload", "seal"}
CallType ==
  [op: Ops, item: Items \cup {None}, box: Containers \cup {None}, rapid: BOOLEAN,
   scanned: BOOLEAN, view: Views, typed: Items \cup {None}, lost: BOOLEAN]
Boxes == [id: Containers, status: ContainerStatuses \cup {NotCreated}, items: SUBSET Items]

ASSUME CallNoneAssumption == None \notin CallType \cup Boxes

\* useState: a workspace starts over whenever its mode is opened.
Fresh(mode) ==
  [mode |-> mode,
   rapid |-> FALSE,      \* rapidMode
   item |-> None,        \* resolvedItem
   scanned |-> FALSE,    \* it was scanned, not picked from the search
   view |-> "nothing",   \* which panel the copy's status puts on the screen
   choice |-> None,      \* actionMode
   typed |-> None,       \* the item whose values are in the form
   busy |-> FALSE,       \* scanBusy, loadingItem: the scan input is disabled
   confirming |-> FALSE, \* confirming, submitting: the buttons are
   codes |-> {},         \* receivedCodesRef, loadedCodesRef
   box |-> None]         \* selectedContainer: [id, status, items]

WorkspaceInit ==
  /\ Init
  /\ screen = Fresh("RECEIVE")
  /\ calls = [k \in Slots |-> None]
  /\ used = 0

-----------------------------------------------------------------------------
\* The commit Rapid Scan or LOAD mode goes on to without asking.
AutoCommit(mode) ==
  CASE mode = "RECEIVE" -> "receive"
    [] mode = "DESTINATION_RECEIVE" -> "good"
    [] mode = "LOAD" -> "load"

\* What the server does for a commit.
Perform(call) ==
  LET i == call.item IN
    \/ call.op = "receive" /\ ReceiveItem(i, Here)
    \/ /\ call.op \in InspectionPanel
       /\ FirstInspection(call.view, i)
       /\ ProcessItem(i, Here, call.op = "ready")
    \/ call.op \in {"good", "flag"} /\ DestinationReceiveItem(i, Here, call.op = "good")
    \/ call.op = "pickup" /\ PickupItem(i, Here)
    \/ call.op = "dispatch" /\ DispatchItem(i, Here)
    \/ call.op = "deliver" /\ DeliverItem(i)
    \/ call.op \in {"return", "except"} /\ ReturnItem(i, Here, call.op = "return")
    \/ call.op = "load" /\ LoadItem(call.box, i)
    \/ call.op = "unload" /\ UnloadItem(call.box, i)
    \/ call.op = "seal" /\ FinalizeContainer(call.box)
    \/ call.op = "book" /\ CreateContainer(call.box)

Lookups == {"scan", "find"}
BoxCalls == {"open", "book", "load", "unload", "seal"}
Copy(c, status, rows) == [id |-> c, status |-> status[c], items |-> {i \in Items : rows[c][i] > 0}]

-----------------------------------------------------------------------------
\* Calls.

BoxId == IF screen.box = None THEN None ELSE screen.box.id

\* What the render that sends a call knows, the answer handler still knows.
Call(op, i, c) ==
  [op |-> op, item |-> i, box |-> c, rapid |-> FALSE, scanned |-> FALSE,
   view |-> "nothing", typed |-> None, lost |-> FALSE]

\* The statuses of the items a mode is for.
WorkOf(mode) ==
  CASE mode = "RECEIVE" -> {"REGISTERED"}
    [] mode = "PROCESS" -> {"RECEIVED_ORIGIN_WAREHOUSE", "PROCESSED", "EXCEPTION"}
    [] mode = "LOAD" -> {"PROCESSED", "ASSIGNED_TO_CONTAINER"}
    [] mode = "DESTINATION_RECEIVE" -> {"ARRIVED_DESTINATION"}
    [] mode = "PICKUP_DELIVERY" -> {"RECEIVED_DESTINATION_WAREHOUSE", "OUT_FOR_DELIVERY"}

\* calls' for one more call, in the first free slot. The operator starts only
\* when there is an item the mode is for, and may then scan any other.
Send(call) ==
  /\ used < MaxSteps
  /\ used = 0 => \E i \in Items : itemStatus[i] \in WorkOf(screen.mode)
  /\ used' = used + 1
  /\ \E k \in Slots :
       /\ calls[k] = None
       /\ \A j \in Slots : j < k => calls[j] # None
       /\ calls' = [calls EXCEPT ![k] = call]

OpenMode(mode) ==
  /\ mode # screen.mode
  /\ screen' = Fresh(mode)
  /\ calls' = [k \in Slots |-> None]
  /\ used' = 0
  /\ UNCHANGED vars

-----------------------------------------------------------------------------
\* Looking an item up.

\* The container selected takes items, as far as the copy of it says.
BoxOpen == screen.box # None /\ screen.box.status \in {"BOOKED", "LOADING"}

InputOpen ==
  /\ screen.mode \in {"RECEIVE", "DESTINATION_RECEIVE", "LOAD"} => ~ screen.busy
  /\ screen.mode = "LOAD" => BoxOpen

\* checkDuplicate: the code is reported without a call.
Duplicate(i) == i \in screen.codes /\ (screen.rapid \/ screen.mode = "LOAD")

Scan(i) ==
  /\ InputOpen
  /\ ~ Duplicate(i)
  /\ Send([Call("scan", i, BoxId) EXCEPT !.scanned = TRUE, !.rapid = screen.rapid])
  /\ screen' = [screen EXCEPT !.busy = @ \/ screen.rapid]
  /\ UNCHANGED vars

\* The manual search, whose result the operator picks as soon as it is there.
Find(i) ==
  /\ screen.mode = "LOAD" => BoxOpen
  /\ Send(Call("find", i, BoxId))
  /\ UNCHANGED <<vars, screen>>

\* GET warehouse/scan and warehouse/search: what they say of the item is put to
\* use as soon as they say it. The copy ages on the screen.
Answers(k, op) ==
  calls[k] # None /\ calls[k].op = op /\ ~ calls[k].lost /\ Created(calls[k].item)
ViewNow(k) == View(screen.mode, itemStatus[calls[k].item])

\* The form's values once the copy of item i has been put on the screen.
\* InspectionForm keeps its own state as long as the same panel stays.
\* Mistake for FormIsForItsItem: resetForm is not called.
TypedKept(view) == screen.typed
TypedAfter(view) ==
  IF screen.mode = "PROCESS" /\ screen.view = "form" /\ view = "form"
  THEN screen.typed ELSE None

Done(k) == calls' = [calls EXCEPT ![k] = None]

\* The item is shown.
Shown(k) ==
  /\ (Answers(k, "scan") /\ ~ calls[k].rapid) \/ Answers(k, "find")
  /\ screen.mode # "LOAD"
  /\ Done(k)
  /\ screen' =
       [screen EXCEPT !.item = calls[k].item, !.view = ViewNow(k),
                      !.scanned = calls[k].scanned, !.choice = None,
                      !.typed = TypedAfter(ViewNow(k))]
  /\ UNCHANGED <<vars, used>>

\* Rapid Scan and LOAD mode commit at once, in the same handler.
ShownAndCommitted(k) ==
  /\ \/ Answers(k, "scan") /\ (calls[k].rapid \/ screen.mode = "LOAD")
     \/ Answers(k, "find") /\ screen.mode = "LOAD"
  /\ calls' = [calls EXCEPT ![k].op = AutoCommit(screen.mode)]
  /\ screen' = [screen EXCEPT !.busy = @ \/ screen.mode = "LOAD"]
  /\ UNCHANGED <<vars, used>>

\* Mistake for FlagsAreRight: only the commit of Rapid Scan resets scanBusy.
BusyWithoutItem(k) == screen.busy
BusyAfterFailure(k) == screen.busy /\ ~ calls[k].rapid

\* No such item, or no answer. A failed search only shows no results.
LookupFailed(k) ==
  /\ calls[k] # None
  /\ calls[k].op \in Lookups
  /\ calls[k].lost \/ ~ Created(calls[k].item)
  /\ Done(k)
  /\ screen' =
       IF calls[k].op = "find" \/ screen.mode = "LOAD" THEN screen
       ELSE [screen EXCEPT !.item = None, !.view = "nothing",
                           !.typed = IF screen.mode = "PROCESS" THEN None ELSE @,
                           !.busy = BusyAfterFailure(k)]
  /\ UNCHANGED <<vars, used>>

-----------------------------------------------------------------------------
\* The panels.

ToggleRapid ==
  /\ screen.mode \in {"RECEIVE", "DESTINATION_RECEIVE"}
  /\ screen' = [screen EXCEPT !.rapid = ~ @, !.item = None, !.view = "nothing"]
  /\ UNCHANGED <<vars, calls, used>>

\* onReinspect, and Cancel of the form it opens.
Reinspect ==
  /\ screen.view \in {"summary", "reinspection"}
  /\ screen.view = "reinspection" => ~ screen.confirming
  /\ screen' = [screen EXCEPT !.view = IF @ = "summary" THEN "reinspection" ELSE "summary",
                              !.typed = None]
  /\ UNCHANGED <<vars, calls, used>>

\* actionMode, and values typed into a form that has none yet.
FillIn(choice) ==
  /\ ~ screen.confirming
  /\ screen.view \in {"form", "reinspection", "atDesk", "withDriver"}
       \/ (screen.mode = "DESTINATION_RECEIVE" /\ screen.view = "panel" /\ ~ screen.rapid)
  /\ choice \in OffersOf(screen.mode, screen.view)
  /\ screen' = [screen EXCEPT !.choice = IF screen.mode = "PICKUP_DELIVERY" THEN choice ELSE None,
                              !.typed = IF @ = None THEN screen.item ELSE @]
  /\ screen' # screen
  /\ UNCHANGED <<vars, calls, used>>

Confirm(op) ==
  /\ ~ screen.confirming
  /\ ~ screen.rapid
  /\ op \in OffersOf(screen.mode, screen.view)
  /\ screen.mode = "PICKUP_DELIVERY" => screen.choice = op
  /\ Send([Call(op, screen.item, None) EXCEPT
             !.scanned = screen.scanned, !.view = screen.view, !.typed = screen.typed])
  /\ screen' = [screen EXCEPT !.confirming = TRUE]
  /\ UNCHANGED vars

Cancel ==
  /\ screen.item # None
  /\ ~ screen.confirming
  /\ screen' = [screen EXCEPT !.item = None, !.view = "nothing", !.choice = None,
                              !.typed = IF screen.mode = "DESTINATION_RECEIVE" THEN @ ELSE None]
  /\ UNCHANGED <<vars, calls, used>>

-----------------------------------------------------------------------------
\* LOAD mode's container: picked from a list (which may be old) or booked, emptied
\* and sealed.

Waiting(op, i) == \E k \in Slots : calls[k] # None /\ calls[k].op = op /\ calls[k].item = i

OpenBox(c) ==
  /\ screen.mode = "LOAD"
  /\ ContainerWarehouse[c] = Here
  /\ IF containerStatus[c] = NotCreated THEN Send(Call("book", None, c))
     ELSE Send(Call("open", None, c))
  /\ UNCHANGED <<vars, screen>>

RemoveItem(i) ==
  /\ BoxOpen
  /\ i \in screen.box.items
  /\ ~ Waiting("unload", i)
  /\ Send(Call("unload", i, BoxId))
  /\ UNCHANGED <<vars, screen>>

Seal ==
  /\ screen.box # None
  /\ screen.box.status = "LOADING"
  /\ ~ Waiting("seal", None)
  /\ Send(Call("seal", None, BoxId))
  /\ UNCHANGED <<vars, screen>>

\* setSelectedContainer; the guard against duplicates is reseeded only when the
\* container is not the one selected before.
WithBox(s, copy) ==
  [s EXCEPT !.box = copy,
            !.codes = IF s.box # None /\ copy # None /\ s.box.id = copy.id THEN @
                      ELSE IF copy = None THEN {} ELSE copy.items]

-----------------------------------------------------------------------------
\* Commits.

\* Mistake for AlreadyReceived: a code counts whatever the answer was.
RememberedAnyway(call, done) ==
  IF call.op = "load" \/ (call.op \in {"receive", "good", "flag"} /\ call.scanned)
  THEN screen.codes \cup {call.item} ELSE screen.codes

\* A scanned code counts as received; LOAD mode counts any item by its code.
Remembered(call, done) ==
  IF done /\ (call.op = "load" \/ (call.op \in {"receive", "good", "flag"} /\ call.scanned))
  THEN screen.codes \cup {call.item} ELSE screen.codes

\* The containers a call was about, as its answer shows them.
Answered(call) == Copy(call.box, containerStatus', containerItems')

\* The server does it and says so. A confirmed item leaves the screen, whichever
\* is shown by now.
Committed(k) ==
  LET call == calls[k]
      known == [screen EXCEPT !.codes = Remembered(call, TRUE)]
  IN
    /\ call # None
    /\ call.op \notin Lookups
    /\ ~ call.lost
    /\ IF call.op = "open" THEN UNCHANGED vars ELSE Perform(call)
    /\ Done(k)
    /\ screen' =
         CASE call.op \in {"open", "book", "unload", "seal"} -> WithBox(screen, Answered(call))
           [] call.op = "load" -> [WithBox(known, Answered(call)) EXCEPT !.busy = FALSE]
           [] call.op # "load" /\ call.rapid -> [known EXCEPT !.busy = FALSE]
           [] OTHER ->
                [known EXCEPT !.item = None, !.view = "nothing", !.choice = None,
                              !.typed = IF screen.mode = "DESTINATION_RECEIVE" THEN @ ELSE None,
                              !.confirming = FALSE]
    /\ UNCHANGED <<used>>

Refused(call) == call.op # "open" /\ ~ ENABLED Perform(call)

\* Refused, or not answered: the item stays on the screen. A container that
\* could not be read is not selected any more.
CommitFailed(k) ==
  LET call == calls[k]
      known == [screen EXCEPT !.codes = Remembered(call, FALSE)]
  IN
    /\ call # None
    /\ call.op \notin Lookups
    /\ call.lost \/ Refused(call)
    /\ Done(k)
    /\ screen' =
         CASE call.op = "open" -> WithBox(screen, None)
           [] call.op \in {"book", "unload", "seal"} -> screen
           [] call.op = "load" \/ call.rapid -> [known EXCEPT !.busy = FALSE]
           [] OTHER -> [known EXCEPT !.confirming = FALSE]
    /\ UNCHANGED <<vars, used>>

\* fetch throws: the call never reached the server, or its answer is lost.
Lose(k) ==
  /\ calls[k] # None
  /\ ~ calls[k].lost
  /\ used < MaxSteps
  /\ used' = used + 1
  /\ calls' = [calls EXCEPT ![k].lost = TRUE]
  /\ \/ UNCHANGED vars
     \/ calls[k].op \notin Lookups \cup {"open"} /\ Perform(calls[k])
  /\ UNCHANGED <<screen>>

\* The rest of the staff, at other screens.
Elsewhere ==
  /\ used < MaxSteps
  /\ Next
  /\ used' = IF used = 0 THEN 0 ELSE used + 1
  /\ UNCHANGED <<screen, calls>>

-----------------------------------------------------------------------------
Operate ==
  \/ \E mode \in Modes : OpenMode(mode)
  \/ \E i \in Items : Scan(i) \/ Find(i) \/ RemoveItem(i)
  \/ ToggleRapid
  \/ Reinspect
  \/ \E op \in OffersOf(screen.mode, screen.view) : FillIn(op) \/ Confirm(op)
  \/ Cancel
  \/ \E c \in Containers : OpenBox(c)
  \/ Seal

Answer ==
  \E k \in Slots :
    Shown(k) \/ ShownAndCommitted(k) \/ LookupFailed(k) \/ Committed(k) \/ CommitFailed(k)

WorkspaceNext == Operate \/ Answer \/ (\E k \in Slots : Lose(k)) \/ Elsewhere

WorkspaceSpec == WorkspaceInit /\ [][WorkspaceNext]_workspaceVars

-----------------------------------------------------------------------------
\* Properties.

\* What is written about an item was typed for that item: the recipient, courier
\* or reason of PICKUP_DELIVERY and the condition or exception of
\* DESTINATION_RECEIVE are never those of the item on the screen before, in
\* whatever order scans, searches and answers come (resetForm).
FormIsForItsItem ==
  \A k \in Slots :
    calls[k] # None /\ screen.mode \in {"DESTINATION_RECEIVE", "PICKUP_DELIVERY"} =>
      calls[k].typed \in {None, calls[k].item}

\* The operator is never locked out: while the scan input or the buttons are
\* disabled a call is in flight whose answer, or failure, enables them again,
\* also after a lookup failed half way through Rapid Scan.
NeverLockedOut ==
  /\ screen.busy =>
       \E k \in Slots : calls[k] # None /\ (calls[k].rapid \/ calls[k].op = "load")
  /\ screen.confirming =>
       \E k \in Slots : /\ calls[k] # None
                        /\ ~ calls[k].rapid
                        /\ calls[k].op \notin Lookups \cup BoxCalls

\* A double-firing scanner starts one Rapid Scan: scanBusy "disables ScanInput for
\* the duration", from the lookup to the end of the commit, so that two commits
\* of a code do not run at once.
OneRapidScan ==
  \A j, k \in Slots :
    calls[j] # None /\ calls[k] # None => (calls[j].rapid /\ calls[k].rapid => j = k)

\* The flags that disable the input and the buttons are up as long as they must be
\* and no longer.
FlagsAreRight == NeverLockedOut /\ OneRapidScan

\* "Already received this session" is true of every code it is said of: the guard
\* that skips the server never hides an item that was not received, though calls
\* fail, overlap, and Rapid Scan is turned on and off.
AlreadyReceived == screen.mode = "RECEIVE" => \A i \in screen.codes : received[i]

=============================================================================

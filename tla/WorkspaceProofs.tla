---------------------------- MODULE WorkspaceProofs ----------------------------
(***************************************************************************)
(* The warehouse page keeps its forms, its flags and its memory of codes   *)
(* apart: for any items, containers and warehouses, any number of calls    *)
(* and any work of others, FormIsForItsItem, FlagsAreRight and             *)
(* AlreadyReceived are invariants of WorkspaceSpec.                        *)
(*                                                                         *)
(* A mode's screen only ever waits for the calls of that mode, since       *)
(* leaving it drops them; what is on a panel belongs to the item shown     *)
(* there; and while Rapid Scan has a call in flight its input is disabled, *)
(* so there is no second one.                                              *)
(***************************************************************************)
EXTENDS Workspace, CargoProofs

ReceivingModes == {"RECEIVE", "DESTINATION_RECEIVE"}
WithForm == {"DESTINATION_RECEIVE", "PICKUP_DELIVERY"}

\* The panels of a mode, and the calls that end up in flight there.
ViewsOf(mode) ==
  CASE mode \in ReceivingModes -> {"nothing", "panel"}
    [] mode = "PROCESS" -> {"nothing", "form", "summary", "reinspection"}
    [] mode = "PICKUP_DELIVERY" -> {"nothing", "atDesk", "withDriver"}
    [] mode = "LOAD" -> {"nothing"}

CommitsOf(mode) ==
  CASE mode = "RECEIVE" -> ReceivePanel
    [] mode = "DESTINATION_RECEIVE" -> ArrivalPanel
    [] mode = "PROCESS" -> InspectionPanel
    [] mode = "PICKUP_DELIVERY" -> AtDeskPanel \cup WithDriverPanel
    [] mode = "LOAD" -> BoxCalls

ScreenType ==
  [mode: ModeNames, rapid: BOOLEAN, item: Items \cup {None}, scanned: BOOLEAN, view: Views,
   choice: Ops \cup {None}, typed: Items \cup {None}, busy: BOOLEAN, confirming: BOOLEAN,
   codes: SUBSET Items, box: Boxes \cup {None}]

\* A screen the page may be in: its panel is one of its mode's, shows an item,
\* and has only that item's values in its form.
ScreenOK(s) ==
  /\ s \in ScreenType
  /\ s.view \in ViewsOf(s.mode)
  /\ s.view # "nothing" => s.item \in Items
  /\ s.rapid => s.mode \in ReceivingModes
  /\ s.mode # "LOAD" => s.box = None
  /\ s.mode \in WithForm /\ s.view # "nothing" => s.typed \in {None, s.item}

\* A call such a screen may wait for.
CallOK(mode, call) ==
  /\ call.op \in Lookups \cup CommitsOf(mode)
  /\ call.op \notin {"open", "book", "seal"} => call.item \in Items
  /\ mode = "LOAD" => call.box \in Containers
  /\ call.rapid => mode \in ReceivingModes /\ call.op # "find"
  /\ mode \in WithForm => call.typed \in {None, call.item}

CallsOK ==
  /\ calls \in [Slots -> CallType \cup {None}]
  /\ \A k \in Slots : calls[k] # None => CallOK(screen.mode, calls[k])

\* While Rapid Scan has a call in flight the input is disabled.
RapidIsBusy == \A k \in Slots : calls[k] # None /\ calls[k].rapid => screen.busy

PageOK == ScreenOK(screen) /\ CallsOK /\ FlagsAreRight /\ RapidIsBusy /\ AlreadyReceived

InOrder == Transport /\ PageOK

-----------------------------------------------------------------------------
\* The server.

\* Once an item was received it stays received.
LEMMA ReceivedStays ==
  ASSUME TypeOK, [Next]_vars, NEW i \in Items, received[i]
  PROVE  received'[i]
<1>1. CASE UNCHANGED received
  BY <1>1
<1>2. CASE ShipmentStep
  BY <1>1, <1>2 DEF TypeOK, ShipmentStep, CreateShipment, AddItem, ManualTrackingEvent
<1>3. CASE WarehouseStep
  <2>1. ASSUME NEW j \in Items, NEW w, NEW good \in BOOLEAN,
               ReceiveItem(j, w) \/ DestinationReceiveItem(j, w, good)
        PROVE  received'[i]
    BY <2>1 DEF TypeOK, ReceiveItem, DestinationReceiveItem
  <2> QED
    BY <1>1, <1>3, <2>1
       DEF WarehouseStep, DeliverItem, PickupItem, DispatchItem, ProcessItem, ReturnItem
<1>4. CASE ContainerStep
  BY <1>1, <1>4 DEF ContainerStep, CreateContainer, FinalizeContainer, OpenForUnloading,
       CloseUnloading, LoadItem, UnloadItem, itemVars
<1>5. CASE ManifestStep
  BY <1>1, <1>5 DEF ManifestStep, CreateManifest, FinalizeManifest, Depart, Arrive,
       AssignContainer, UnassignContainer, AssignItem, UnassignItem, itemVars
<1>6. CASE UNCHANGED vars
  BY <1>1, <1>6 DEF vars, itemVars
<1> QED
  BY <1>2, <1>3, <1>4, <1>5, <1>6 DEF Next

\* A container's calls are LOAD mode's.
LEMMA BoxCallsLoad ==
  ASSUME NEW mode \in ModeNames, NEW call, CallOK(mode, call), call.op \in BoxCalls
  PROVE  mode = "LOAD" /\ call.box \in Containers
BY DEF CallOK, CommitsOf, ReceivingModes, ModeNames, BoxCalls, Lookups, ReceivePanel, ArrivalPanel,
     InspectionPanel, AtDeskPanel, WithDriverPanel

\* A commit is a request of Cargo.
LEMMA PerformIsNext ==
  ASSUME NEW mode \in ModeNames, NEW call, CallOK(mode, call), Perform(call)
  PROVE  Next
<1>1. CASE call.op \in BoxCalls
  <2>1. call.box \in Containers
    BY <1>1, BoxCallsLoad
  <2> QED
    BY <1>1, <2>1 DEF Perform, InspectionPanel, CallOK, BoxCalls, Next, ContainerStep
<1>2. CASE call.op \notin BoxCalls
  <2>1. call.op \in {"receive", "good", "flag", "ready", "hold", "pickup", "dispatch", "deliver",
                     "return", "except"}
    BY <1>2 DEF Perform, InspectionPanel, BoxCalls
  <2>2. call.item \in Items /\ Here \in Warehouses
    BY <2>1, HereAssumption DEF CallOK
  <2>3. WarehouseStep
    BY <2>1, <2>2 DEF Perform, InspectionPanel, WarehouseStep
  <2> QED
    BY <2>3 DEF Next
<1> QED
  BY <1>1, <1>2

LEMMA PageStepsAreRequests ==
  ASSUME ScreenOK(screen), CallsOK, WorkspaceNext
  PROVE  [Next]_vars
<1>1. screen.mode \in ModeNames
  BY DEF ScreenOK, ScreenType
<1>2. ASSUME NEW k \in Slots, calls[k] # None, Perform(calls[k])
      PROVE  Next
  BY <1>1, <1>2, PerformIsNext DEF CallsOK
<1>3. CASE Operate
  BY <1>3 DEF Operate, OpenMode, Scan, Find, RemoveItem, ToggleRapid, Reinspect, FillIn, Confirm,
       Cancel, OpenBox, Seal
<1>4. CASE Answer
  BY <1>2, <1>4 DEF Answer, Shown, ShownAndCommitted, LookupFailed, Committed, CommitFailed
<1>5. CASE \E k \in Slots : Lose(k)
  BY <1>2, <1>5 DEF Lose
<1>6. CASE Elsewhere
  BY <1>6 DEF Elsewhere
<1> QED
  BY <1>3, <1>4, <1>5, <1>6 DEF WorkspaceNext

-----------------------------------------------------------------------------
\* One step of the page.

\* The calls a disabled input, and disabled buttons, may be waiting for.
HoldsInput(call) == call # None /\ (call.rapid \/ call.op = "load")
HoldsButtons(call) == call # None /\ ~ call.rapid /\ call.op \notin Lookups \cup BoxCalls
IsRapid(call) == call # None /\ call.rapid

\* The screen s becomes t when the call old is replaced by new: a flag that is
\* up afterwards has new to wait for or did not wait for old; a second Rapid
\* Scan is not started, and the flag of the first is not reset by another.
FlagsFollow(s, t, old, new) ==
  /\ t.busy => HoldsInput(new) \/ (s.busy /\ ~ HoldsInput(old))
  /\ t.confirming => HoldsButtons(new) \/ (s.confirming /\ ~ HoldsButtons(old))
  /\ IsRapid(new) => t.busy /\ (IsRapid(old) \/ ~ s.busy)
  /\ s.busy => t.busy \/ IsRapid(old) \/ s.mode = "LOAD"

LEMMA OneCall ==
  ASSUME InOrder, [Next]_vars, NEW k \in Slots,
         NEW new \in CallType \cup {None}, new # None => CallOK(screen.mode, new),
         calls' = [calls EXCEPT ![k] = new],
         NEW t, screen' = t, ScreenOK(t), t.mode = screen.mode,
         FlagsFollow(screen, t, calls[k], new),
         t.mode = "RECEIVE" => \A i \in t.codes : i \in screen.codes \/ received'[i]
  PROVE  PageOK'
<1> USE DEF InOrder, PageOK
<1>1. \A j \in Slots : calls'[j] = IF j = k THEN new ELSE calls[j]
  BY DEF CallsOK
<1>2. CallsOK'
  BY <1>1 DEF CallsOK
<1>3. NeverLockedOut'
  <2>1. ASSUME screen'.busy
        PROVE  \E j \in Slots : HoldsInput(calls'[j])
    <3>1. CASE HoldsInput(new)
      BY <1>1, <3>1
    <3>2. CASE screen.busy /\ ~ HoldsInput(calls[k])
      <4>1. PICK j \in Slots : HoldsInput(calls[j])
        BY <3>2 DEF FlagsAreRight, NeverLockedOut, HoldsInput
      <4> QED
        BY <1>1, <3>2, <4>1
    <3> QED
      BY <2>1, <3>1, <3>2 DEF FlagsFollow
  <2>2. ASSUME screen'.confirming
        PROVE  \E j \in Slots : HoldsButtons(calls'[j])
    <3>1. CASE HoldsButtons(new)
      BY <1>1, <3>1
    <3>2. CASE screen.confirming /\ ~ HoldsButtons(calls[k])
      <4>1. PICK j \in Slots : HoldsButtons(calls[j])
        BY <3>2 DEF FlagsAreRight, NeverLockedOut, HoldsButtons
      <4> QED
        BY <1>1, <3>2, <4>1
    <3> QED
      BY <2>2, <3>1, <3>2 DEF FlagsFollow
  <2> QED
    BY <2>1, <2>2 DEF NeverLockedOut, HoldsInput, HoldsButtons
<1>4. \A j \in Slots : IsRapid(calls[j]) => screen.busy /\ screen.mode # "LOAD"
  BY DEF RapidIsBusy, CallsOK, CallOK, IsRapid, ReceivingModes
<1>5. \A i, j \in Slots : IsRapid(calls[i]) /\ IsRapid(calls[j]) => i = j
  BY DEF FlagsAreRight, OneRapidScan, IsRapid
<1>6. \A i, j \in Slots : IsRapid(calls'[i]) /\ IsRapid(calls'[j]) => i = j
  BY <1>1, <1>4, <1>5 DEF FlagsFollow
<1>7. \A j \in Slots : IsRapid(calls'[j]) => screen'.busy
  BY <1>1, <1>4, <1>5 DEF FlagsFollow
<1>8. FlagsAreRight' /\ RapidIsBusy'
  BY <1>3, <1>6, <1>7 DEF FlagsAreRight, OneRapidScan, RapidIsBusy, IsRapid
<1>9. AlreadyReceived'
  <2> SUFFICES ASSUME screen'.mode = "RECEIVE", NEW i \in screen'.codes
               PROVE  received'[i]
    BY DEF AlreadyReceived
  <2>1. i \in screen.codes => i \in Items /\ received[i]
    BY DEF AlreadyReceived, ScreenOK, ScreenType
  <2> QED
    BY <2>1, ReceivedStays DEF Transport
<1> QED
  BY <1>2, <1>8, <1>9

\* A step of the operator that sends nothing.
LEMMA NoCall ==
  ASSUME InOrder, UNCHANGED <<vars, calls>>,
         NEW t, screen' = t, ScreenOK(t), t.mode = screen.mode, t.codes = screen.codes,
         t.busy = screen.busy, t.confirming = screen.confirming
  PROVE  PageOK'
<1> USE DEF InOrder, PageOK
<1>1. CallsOK'
  BY DEF CallsOK
<1>2. FlagsAreRight' /\ RapidIsBusy'
  BY DEF FlagsAreRight, NeverLockedOut, OneRapidScan, RapidIsBusy
<1>3. AlreadyReceived'
  BY DEF AlreadyReceived, vars, itemVars
<1> QED
  BY <1>1, <1>2, <1>3

\* A call goes into a free slot.
LEMMA SendStep ==
  ASSUME NEW call, Send(call)
  PROVE  \E k \in Slots : calls[k] = None /\ calls' = [calls EXCEPT ![k] = call]
BY DEF Send

\* A step of the operator that sends one.
LEMMA Sent ==
  ASSUME InOrder, UNCHANGED vars, NEW call \in CallType, CallOK(screen.mode, call), Send(call),
         NEW t, screen' = t, ScreenOK(t), t.mode = screen.mode, t.codes = screen.codes,
         FlagsFollow(screen, t, None, call)
  PROVE  PageOK'
<1>1. PICK k \in Slots : calls[k] = None /\ calls' = [calls EXCEPT ![k] = call]
  BY SendStep
<1> QED
  BY <1>1, OneCall

-----------------------------------------------------------------------------
\* The operator.

LEMMA FreshOK == ASSUME NEW mode \in ModeNames PROVE ScreenOK(Fresh(mode))
<1>1. PICK s : s = Fresh(mode)
  OBVIOUS
<1>2. s \in ScreenType /\ s.mode = mode /\ s.view = "nothing" /\ ~ s.rapid /\ s.box = None
  BY <1>1 DEF Fresh, ScreenType, Views
<1>3. "nothing" \in ViewsOf(mode)
  BY DEF ViewsOf, ReceivingModes, ModeNames
<1> QED
  BY <1>1, <1>2, <1>3 DEF ScreenOK

LEMMA OpenModeStep ==
  ASSUME InOrder, NEW mode \in ModeNames, OpenMode(mode)
  PROVE  PageOK'
<1>1. screen' = Fresh(mode) /\ calls' = [k \in Slots |-> None]
  BY DEF OpenMode
<1>2. ScreenOK(screen)'
  BY <1>1, FreshOK
<1>3. CallsOK' /\ RapidIsBusy'
  BY <1>1 DEF CallsOK, RapidIsBusy
<1>4. ~ screen'.busy /\ ~ screen'.confirming /\ screen'.codes = {}
  BY <1>1 DEF Fresh
<1>5. FlagsAreRight' /\ AlreadyReceived'
  BY <1>1, <1>4 DEF FlagsAreRight, NeverLockedOut, OneRapidScan, AlreadyReceived
<1> QED
  BY <1>2, <1>3, <1>5 DEF PageOK

\* The box a lookup remembers.
LEMMA BoxIdTyped ==
  ASSUME ScreenOK(screen)
  PROVE  /\ BoxId \in Containers \cup {None}
         /\ screen.box # None => BoxId \in Containers
BY DEF ScreenOK, ScreenType, Boxes, BoxId

LEMMA ScanStep ==
  ASSUME InOrder, NEW i \in Items, Scan(i)
  PROVE  PageOK'
<1>1. PICK call : call = [Call("scan", i, BoxId) EXCEPT !.scanned = TRUE, !.rapid = screen.rapid]
  OBVIOUS
<1>2. ScreenOK(screen) /\ screen.rapid \in BOOLEAN
  BY DEF InOrder, PageOK, ScreenOK, ScreenType
<1>3. /\ call \in CallType /\ call.op = "scan" /\ call.item = i /\ call.box = BoxId
      /\ call.rapid = screen.rapid /\ call.typed = None
  BY <1>1, <1>2, BoxIdTyped DEF Call, CallType, Ops, Views
<1>4. CallOK(screen.mode, call)
  BY <1>2, <1>3, BoxIdTyped DEF CallOK, Lookups, ScreenOK, Scan, InputOpen, BoxOpen
<1>5. PICK t : t = [screen EXCEPT !.busy = @ \/ screen.rapid]
  OBVIOUS
<1>6. /\ ScreenOK(t) /\ t.mode = screen.mode /\ t.codes = screen.codes
      /\ t.busy = (screen.busy \/ screen.rapid) /\ t.confirming = screen.confirming
  <2>1. screen \in ScreenType
    BY <1>2 DEF ScreenOK
  <2>2. PICK busy \in BOOLEAN : busy = (screen.busy \/ screen.rapid)
    BY <2>1 DEF ScreenType
  <2>3. t = [screen EXCEPT !.busy = busy]
    BY <1>5, <2>2
  <2>4. /\ t \in ScreenType /\ t.busy = busy
        /\ t.mode = screen.mode /\ t.codes = screen.codes /\ t.confirming = screen.confirming
        /\ t.view = screen.view /\ t.item = screen.item /\ t.rapid = screen.rapid
        /\ t.box = screen.box /\ t.typed = screen.typed
    BY <2>1, <2>3 DEF ScreenType
  <2> QED
    BY <1>2, <2>2, <2>4 DEF ScreenOK
<1>7. Send(call) /\ screen' = t /\ UNCHANGED vars
  BY <1>1, <1>5 DEF Scan
<1>8. FlagsFollow(screen, t, None, call)
  <2>1. screen.rapid => ~ screen.busy
    BY <1>2 DEF ScreenOK, ReceivingModes, Scan, InputOpen
  <2>2. call # None
    BY <1>3, CallNoneAssumption
  <2> QED
    BY <1>3, <1>6, <2>1, <2>2 DEF FlagsFollow, HoldsInput, HoldsButtons, IsRapid
<1> QED
  BY <1>3, <1>4, <1>6, <1>7, <1>8, Sent

\* A call of no consequence for the flags, sent by a button that changes nothing
\* on the screen.
LEMMA QuietlySent ==
  ASSUME InOrder, UNCHANGED <<vars, screen>>, NEW call \in CallType, CallOK(screen.mode, call),
         Send(call), ~ call.rapid
  PROVE  PageOK'
<1>1. ScreenOK(screen)
  BY DEF InOrder, PageOK
<1>2. PICK t : t = screen
  OBVIOUS
<1>3. ScreenOK(t) /\ screen' = t /\ t.mode = screen.mode /\ t.codes = screen.codes
  BY <1>1, <1>2
<1>4. FlagsFollow(screen, t, None, call)
  BY <1>2 DEF FlagsFollow, HoldsInput, HoldsButtons, IsRapid
<1> QED
  BY <1>3, <1>4, Sent

LEMMA FindStep ==
  ASSUME InOrder, NEW i \in Items, Find(i)
  PROVE  PageOK'
<1>1. PICK call : call = Call("find", i, BoxId)
  OBVIOUS
<1>2. ScreenOK(screen)
  BY DEF InOrder, PageOK
<1>3. /\ call \in CallType /\ call.op = "find" /\ call.item = i /\ call.box = BoxId
      /\ ~ call.rapid /\ call.typed = None
  BY <1>1, <1>2, BoxIdTyped DEF Call, CallType, Ops, Views
<1>4. CallOK(screen.mode, call)
  BY <1>2, <1>3, BoxIdTyped DEF CallOK, Lookups, Find, BoxOpen
<1>5. Send(call) /\ UNCHANGED <<vars, screen>>
  BY <1>1 DEF Find
<1> QED
  BY <1>3, <1>4, <1>5, QuietlySent

\* A selected container is LOAD mode's.
LEMMA BoxInLoad ==
  ASSUME ScreenOK(screen), screen.box # None
  PROVE  screen.mode = "LOAD"
BY DEF ScreenOK

LEMMA LoadCallOK ==
  ASSUME NEW call, call.op \in BoxCalls,
         call.op \notin {"open", "book", "seal"} => call.item \in Items,
         call.box \in Containers, ~ call.rapid
  PROVE  CallOK("LOAD", call)
<1>1. CommitsOf("LOAD") = BoxCalls /\ "LOAD" \notin WithForm
  BY DEF CommitsOf, WithForm
<1> QED
  BY <1>1 DEF CallOK

LEMMA BoxCallSent ==
  ASSUME InOrder, screen.mode = "LOAD", NEW op \in {"unload", "seal", "book", "open"},
         NEW i \in Items \cup {None}, op = "unload" => i \in Items, NEW c \in Containers,
         Send(Call(op, i, c)), UNCHANGED <<vars, screen>>
  PROVE  PageOK'
<1>1. PICK call : call = Call(op, i, c)
  OBVIOUS
<1>2. /\ call \in CallType /\ call.op = op /\ call.item = i /\ call.box = c /\ ~ call.rapid
  BY <1>1 DEF Call, CallType, Ops, Views
<1>3. CallOK("LOAD", call)
  BY <1>2, LoadCallOK DEF BoxCalls
<1> QED
  BY <1>1, <1>2, <1>3, QuietlySent

LEMMA BoxStep ==
  ASSUME InOrder, (\E i \in Items : RemoveItem(i)) \/ Seal \/ (\E c \in Containers : OpenBox(c))
  PROVE  PageOK'
<1>1. ScreenOK(screen)
  BY DEF InOrder, PageOK
<1>2. screen.box # None => BoxId \in Containers /\ screen.mode = "LOAD"
  BY <1>1, BoxIdTyped, BoxInLoad
<1>3. ASSUME NEW i \in Items, RemoveItem(i)
      PROVE  PageOK'
  BY <1>2, <1>3, BoxCallSent DEF RemoveItem, BoxOpen
<1>4. CASE Seal
  BY <1>2, <1>4, BoxCallSent DEF Seal
<1>5. ASSUME NEW c \in Containers, OpenBox(c)
      PROVE  PageOK'
  BY <1>5, BoxCallSent DEF OpenBox
<1> QED
  BY <1>3, <1>4, <1>5

\* Rapid Scan is turned on or off: the panel goes, the calls and flags stay.
LEMMA ToggleRapidStep ==
  ASSUME InOrder, ToggleRapid
  PROVE  PageOK'
<1>1. ScreenOK(screen) /\ screen.mode \in ReceivingModes
  BY DEF InOrder, PageOK, ToggleRapid, ReceivingModes
<1>2. PICK t : t = [screen EXCEPT !.rapid = ~ @, !.item = None, !.view = "nothing"]
  OBVIOUS
<1>3. /\ t \in ScreenType /\ t.mode = screen.mode /\ t.view = "nothing" /\ t.box = screen.box
      /\ t.codes = screen.codes /\ t.busy = screen.busy /\ t.confirming = screen.confirming
  BY <1>1, <1>2 DEF ScreenOK, ScreenType, Views
<1>4. ScreenOK(t)
  BY <1>1, <1>3 DEF ScreenOK, ViewsOf
<1>5. screen' = t /\ UNCHANGED <<vars, calls>>
  BY <1>2 DEF ToggleRapid
<1> QED
  BY <1>3, <1>4, <1>5, NoCall

LEMMA ReinspectStep ==
  ASSUME InOrder, Reinspect
  PROVE  PageOK'
<1>1. ScreenOK(screen) /\ screen.view \in {"summary", "reinspection"}
  BY DEF InOrder, PageOK, Reinspect
<1>2. screen.mode = "PROCESS"
  BY <1>1 DEF ScreenOK, ScreenType, ViewsOf, ModeNames, ReceivingModes
<1>3. PICK view : view = IF screen.view = "summary" THEN "reinspection" ELSE "summary"
  OBVIOUS
<1>4. PICK t : t = [screen EXCEPT !.view = view, !.typed = None]
  OBVIOUS
<1>5. /\ t \in ScreenType /\ t.mode = screen.mode /\ t.view = view /\ t.box = screen.box
      /\ t.codes = screen.codes /\ t.busy = screen.busy /\ t.confirming = screen.confirming
      /\ t.item = screen.item /\ t.rapid = screen.rapid
  BY <1>1, <1>3, <1>4 DEF ScreenOK, ScreenType, Views
<1>6. ScreenOK(t)
  BY <1>1, <1>2, <1>3, <1>5 DEF ScreenOK, ViewsOf, ReceivingModes, WithForm
<1>7. screen' = t /\ UNCHANGED <<vars, calls>>
  BY <1>3, <1>4 DEF Reinspect
<1> QED
  BY <1>5, <1>6, <1>7, NoCall

\* What is offered is one of the mode's commits, and only a panel offers any.
LEMMA Offered ==
  ASSUME ScreenOK(screen), NEW op \in OffersOf(screen.mode, screen.view)
  PROVE  /\ op \in Ops /\ op \in CommitsOf(screen.mode) /\ op \notin Lookups \cup BoxCalls
         /\ screen.view # "nothing" /\ screen.item \in Items /\ screen.mode # "LOAD"
<1> USE DEF ReceivePanel, ArrivalPanel, InspectionPanel, AtDeskPanel, WithDriverPanel
<1>1. screen.mode \in ModeNames /\ screen.view \in ViewsOf(screen.mode)
  BY DEF ScreenOK, ScreenType
<1>2. screen.view # "nothing"
  BY DEF OffersOf
<1>3. screen.mode # "LOAD" /\ screen.item \in Items
  BY <1>1, <1>2 DEF ScreenOK, ViewsOf, ReceivingModes
<1>4. CASE screen.mode = "RECEIVE"
  BY <1>1, <1>2, <1>3, <1>4
     DEF OffersOf, ViewsOf, ReceivingModes, CommitsOf, Ops, Lookups, BoxCalls
<1>5. CASE screen.mode = "DESTINATION_RECEIVE"
  BY <1>1, <1>2, <1>3, <1>5
     DEF OffersOf, ViewsOf, ReceivingModes, CommitsOf, Ops, Lookups, BoxCalls
<1>6. CASE screen.mode = "PROCESS"
  BY <1>1, <1>2, <1>3, <1>6
     DEF OffersOf, ViewsOf, ReceivingModes, CommitsOf, Ops, Lookups, BoxCalls
<1>7. CASE screen.mode = "PICKUP_DELIVERY"
  BY <1>1, <1>2, <1>3, <1>7
     DEF OffersOf, ViewsOf, ReceivingModes, CommitsOf, Ops, Lookups, BoxCalls
<1> QED
  BY <1>1, <1>3, <1>4, <1>5, <1>6, <1>7 DEF ModeNames

LEMMA FillInStep ==
  ASSUME InOrder, NEW op \in OffersOf(screen.mode, screen.view), FillIn(op)
  PROVE  PageOK'
<1>1. ScreenOK(screen) /\ op \in Ops /\ screen.item \in Items
  BY Offered DEF InOrder, PageOK
<1>2. PICK choice : choice = IF screen.mode = "PICKUP_DELIVERY" THEN op ELSE None
  OBVIOUS
<1>3. PICK typed : typed = IF screen.typed = None THEN screen.item ELSE screen.typed
  OBVIOUS
<1>4. PICK t : t = [screen EXCEPT !.choice = choice, !.typed = typed]
  OBVIOUS
<1>5. /\ t \in ScreenType /\ t.mode = screen.mode /\ t.view = screen.view /\ t.box = screen.box
      /\ t.codes = screen.codes /\ t.busy = screen.busy /\ t.confirming = screen.confirming
      /\ t.item = screen.item /\ t.rapid = screen.rapid /\ t.typed = typed
  BY <1>1, <1>2, <1>3, <1>4 DEF ScreenOK, ScreenType
<1>6. ScreenOK(t)
  BY <1>1, <1>3, <1>5 DEF ScreenOK
<1>7. screen' = t /\ UNCHANGED <<vars, calls>>
  BY <1>2, <1>3, <1>4 DEF FillIn
<1> QED
  BY <1>5, <1>6, <1>7, NoCall

\* What is confirmed is the item shown, with what was typed for it.
LEMMA ConfirmStep ==
  ASSUME InOrder, NEW op \in OffersOf(screen.mode, screen.view), Confirm(op)
  PROVE  PageOK'
<1>1. ScreenOK(screen)
  BY DEF InOrder, PageOK
<1>2. /\ op \in Ops /\ op \in CommitsOf(screen.mode) /\ op \notin Lookups \cup BoxCalls
      /\ screen.view # "nothing" /\ screen.item \in Items /\ screen.mode # "LOAD"
  BY <1>1, Offered
<1>3. PICK call : call = [Call(op, screen.item, None) EXCEPT
                            !.scanned = screen.scanned, !.view = screen.view,
                            !.typed = screen.typed]
  OBVIOUS
<1>4. /\ call \in CallType /\ call.op = op /\ call.item = screen.item /\ ~ call.rapid
      /\ call.typed = screen.typed
  BY <1>1, <1>2, <1>3 DEF Call, CallType, ScreenOK, ScreenType
<1>5. CallOK(screen.mode, call)
  BY <1>1, <1>2, <1>4 DEF CallOK, ScreenOK
<1>6. PICK t : t = [screen EXCEPT !.confirming = TRUE]
  OBVIOUS
<1>7. /\ t \in ScreenType /\ t.mode = screen.mode /\ t.view = screen.view /\ t.box = screen.box
      /\ t.codes = screen.codes /\ t.busy = screen.busy /\ t.confirming
      /\ t.item = screen.item /\ t.rapid = screen.rapid /\ t.typed = screen.typed
  BY <1>1, <1>6 DEF ScreenOK, ScreenType
<1>8. ScreenOK(t)
  BY <1>1, <1>7 DEF ScreenOK
<1>9. FlagsFollow(screen, t, None, call)
  BY <1>2, <1>4, <1>7, CallNoneAssumption DEF FlagsFollow, HoldsInput, HoldsButtons, IsRapid
<1>10. Send(call) /\ screen' = t /\ UNCHANGED vars
  BY <1>3, <1>6 DEF Confirm
<1> QED
  BY <1>4, <1>5, <1>7, <1>8, <1>9, <1>10, Sent

LEMMA CancelStep ==
  ASSUME InOrder, Cancel
  PROVE  PageOK'
<1>1. ScreenOK(screen)
  BY DEF InOrder, PageOK
<1>2. PICK typed : typed = IF screen.mode = "DESTINATION_RECEIVE" THEN screen.typed ELSE None
  OBVIOUS
<1>3. PICK t : t = [screen EXCEPT !.item = None, !.view = "nothing", !.choice = None,
                                  !.typed = typed]
  OBVIOUS
<1>4. /\ t \in ScreenType /\ t.mode = screen.mode /\ t.view = "nothing" /\ t.box = screen.box
      /\ t.codes = screen.codes /\ t.busy = screen.busy /\ t.confirming = screen.confirming
      /\ t.rapid = screen.rapid
  BY <1>1, <1>2, <1>3 DEF ScreenOK, ScreenType, Views
<1>5. "nothing" \in ViewsOf(screen.mode)
  BY <1>1 DEF ScreenOK, ScreenType, ViewsOf, ReceivingModes, ModeNames
<1>6. ScreenOK(t)
  BY <1>1, <1>4, <1>5 DEF ScreenOK
<1>7. screen' = t /\ UNCHANGED <<vars, calls>>
  BY <1>2, <1>3 DEF Cancel
<1> QED
  BY <1>4, <1>6, <1>7, NoCall

LEMMA OperateStep ==
  ASSUME InOrder, Operate
  PROVE  PageOK'
BY ModesAssumption, OpenModeStep, ScanStep, FindStep, BoxStep, ToggleRapidStep, ReinspectStep,
   FillInStep, ConfirmStep, CancelStep DEF Operate

-----------------------------------------------------------------------------
\* Answers.

\* The call in slot k, as one value.
LEMMA CallAt ==
  ASSUME InOrder, NEW k \in Slots, calls[k] # None
  PROVE  \E call \in CallType : /\ call = calls[k] /\ call # None
                                /\ CallOK(screen.mode, call)
                                /\ IsRapid(call) => screen.busy
BY DEF InOrder, PageOK, CallsOK, RapidIsBusy, IsRapid

LEMMA ViewTyped ==
  ASSUME NEW mode \in ModeNames, NEW status
  PROVE  View(mode, status) \in ViewsOf(mode) /\ View(mode, status) \in Views
BY DEF View, ProcessView, PickupView, ViewsOf, Views, ReceivingModes, ModeNames

LEMMA ShownStep ==
  ASSUME InOrder, NEW k \in Slots, Shown(k)
  PROVE  PageOK'
<1>1. PICK call \in CallType :
        /\ call = calls[k] /\ call # None /\ CallOK(screen.mode, call)
        /\ IsRapid(call) => screen.busy
  BY CallAt DEF Shown, Answers
<1>2. ScreenOK(screen) /\ screen.mode \in ModeNames /\ screen.mode # "LOAD"
  BY DEF InOrder, PageOK, ScreenOK, ScreenType, Shown
<1>3. call.op \in Lookups /\ ~ call.rapid /\ call.item \in Items
  BY <1>1 DEF Shown, Answers, Lookups, CallOK
<1>4. PICK view : view = ViewNow(k)
  OBVIOUS
<1>5. view \in ViewsOf(screen.mode) /\ view \in Views
  BY <1>2, <1>4, ViewTyped DEF ViewNow
<1>6. PICK typed : typed = TypedAfter(view)
  OBVIOUS
<1>7. /\ typed \in Items \cup {None}
      /\ screen.mode \in WithForm => typed = None
  BY <1>2, <1>6 DEF TypedAfter, WithForm, ScreenOK, ScreenType
<1>8. PICK t : t = [screen EXCEPT !.item = call.item, !.view = view, !.scanned = call.scanned,
                                  !.choice = None, !.typed = typed]
  OBVIOUS
<1>9. /\ t \in ScreenType /\ t.mode = screen.mode /\ t.view = view /\ t.box = screen.box
      /\ t.codes = screen.codes /\ t.busy = screen.busy /\ t.confirming = screen.confirming
      /\ t.item = call.item /\ t.rapid = screen.rapid /\ t.typed = typed
  BY <1>2, <1>3, <1>5, <1>7, <1>8 DEF ScreenOK, ScreenType, CallType
<1>10. ScreenOK(t)
  BY <1>2, <1>3, <1>5, <1>7, <1>9 DEF ScreenOK
<1>11. screen' = t /\ calls' = [calls EXCEPT ![k] = None] /\ UNCHANGED vars
  BY <1>1, <1>4, <1>6, <1>8 DEF Shown, Done
<1>12. FlagsFollow(screen, t, calls[k], None)
  <2>1. ~ HoldsInput(call) /\ ~ HoldsButtons(call) /\ ~ IsRapid(call)
    BY <1>3 DEF HoldsInput, HoldsButtons, IsRapid, Lookups
  <2> QED
    BY <1>1, <1>9, <2>1 DEF FlagsFollow, IsRapid
<1> QED
  BY <1>9, <1>10, <1>11, <1>12, OneCall

LEMMA ShownAndCommittedStep ==
  ASSUME InOrder, NEW k \in Slots, ShownAndCommitted(k)
  PROVE  PageOK'
<1>1. PICK call \in CallType :
        /\ call = calls[k] /\ call # None /\ CallOK(screen.mode, call)
        /\ IsRapid(call) => screen.busy
  BY CallAt DEF ShownAndCommitted, Answers
<1>2. ScreenOK(screen)
  BY DEF InOrder, PageOK
<1>3. call.op \in Lookups /\ call.item \in Items /\ (screen.mode = "LOAD" \/ call.rapid)
  BY <1>1 DEF ShownAndCommitted, Answers, Lookups, CallOK
<1>4. screen.mode = "LOAD" \/ (screen.mode \in ReceivingModes /\ call.rapid)
  BY <1>1, <1>3 DEF CallOK
<1>5. PICK op : op = AutoCommit(screen.mode)
  OBVIOUS
<1>6. /\ op \in Ops /\ op \in CommitsOf(screen.mode) /\ op \notin Lookups
      /\ op = "load" <=> screen.mode = "LOAD"
      /\ op \notin {"open", "book", "seal", "find"}
  BY <1>4, <1>5 DEF AutoCommit, ReceivingModes, Ops, CommitsOf, ReceivePanel, ArrivalPanel, BoxCalls,
       Lookups
<1>7. PICK new : new = [call EXCEPT !.op = op]
  OBVIOUS
<1>8. /\ new \in CallType /\ new.op = op /\ new.item = call.item /\ new.box = call.box
      /\ new.rapid = call.rapid /\ new.typed = call.typed
  BY <1>6, <1>7 DEF CallType
<1>9. CallOK(screen.mode, new) /\ new # None
  BY <1>1, <1>3, <1>6, <1>8, CallNoneAssumption DEF CallOK
<1>10. PICK busy \in BOOLEAN : busy = (screen.busy \/ screen.mode = "LOAD")
  BY <1>2 DEF ScreenOK, ScreenType
<1>11. PICK t : t = [screen EXCEPT !.busy = busy]
  OBVIOUS
<1>12. /\ t \in ScreenType /\ t.mode = screen.mode /\ t.view = screen.view /\ t.box = screen.box
       /\ t.codes = screen.codes /\ t.busy = busy /\ t.confirming = screen.confirming
       /\ t.item = screen.item /\ t.rapid = screen.rapid /\ t.typed = screen.typed
  BY <1>2, <1>11 DEF ScreenOK, ScreenType
<1>13. ScreenOK(t)
  BY <1>2, <1>12 DEF ScreenOK
<1>14. screen' = t /\ calls' = [calls EXCEPT ![k] = new] /\ UNCHANGED vars
  BY <1>1, <1>5, <1>7, <1>10, <1>11 DEF ShownAndCommitted, InOrder, PageOK, CallsOK
<1>15. FlagsFollow(screen, t, calls[k], new)
  <2>1. HoldsInput(new) /\ ~ HoldsButtons(call) /\ IsRapid(new) = IsRapid(call)
    BY <1>1, <1>3, <1>4, <1>6, <1>8, <1>9 DEF HoldsInput, HoldsButtons, IsRapid
  <2> QED
    BY <1>1, <1>10, <1>12, <2>1 DEF FlagsFollow
<1> QED
  BY <1>8, <1>9, <1>12, <1>13, <1>14, <1>15, OneCall

LEMMA LookupFailedStep ==
  ASSUME InOrder, NEW k \in Slots, LookupFailed(k)
  PROVE  PageOK'
<1>1. PICK call \in CallType :
        /\ call = calls[k] /\ call # None /\ CallOK(screen.mode, call)
        /\ IsRapid(call) => screen.busy
  BY CallAt DEF LookupFailed
<1>2. ScreenOK(screen) /\ call.op \in Lookups
  BY <1>1 DEF InOrder, PageOK, LookupFailed
<1>3. calls' = [calls EXCEPT ![k] = None] /\ UNCHANGED vars
  BY DEF LookupFailed, Done
<1>4. ~ HoldsButtons(call)
  BY <1>2 DEF HoldsButtons
<1>5. CASE call.op = "find" \/ screen.mode = "LOAD"
  <2>1. ~ call.rapid
    BY <1>1, <1>5 DEF CallOK, ReceivingModes
  <2>2. PICK t : t = screen
    OBVIOUS
  <2>3. screen' = t
    BY <1>1, <1>5, <2>2 DEF LookupFailed
  <2>4. FlagsFollow(screen, t, calls[k], None)
    BY <1>1, <1>2, <1>4, <2>1, <2>2 DEF FlagsFollow, HoldsInput, IsRapid, Lookups
  <2> QED
    BY <1>2, <1>3, <2>2, <2>3, <2>4, OneCall
<1>6. CASE ~ (call.op = "find" \/ screen.mode = "LOAD")
  <2>1. PICK typed : typed = IF screen.mode = "PROCESS" THEN None ELSE screen.typed
    OBVIOUS
  <2>2. PICK busy \in BOOLEAN : busy = (screen.busy /\ ~ call.rapid)
    BY <1>2 DEF ScreenOK, ScreenType, CallType
  <2>3. PICK t : t = [screen EXCEPT !.item = None, !.view = "nothing", !.typed = typed,
                                    !.busy = busy]
    OBVIOUS
  <2>4. /\ t \in ScreenType /\ t.mode = screen.mode /\ t.view = "nothing" /\ t.box = screen.box
        /\ t.codes = screen.codes /\ t.busy = busy /\ t.confirming = screen.confirming
        /\ t.rapid = screen.rapid
    <3>1. screen \in ScreenType /\ "nothing" \in Views
      BY <1>2 DEF ScreenOK, Views
    <3>2. typed \in Items \cup {None}
      BY <2>1, <3>1 DEF ScreenType
    <3> QED
      BY ZenonT(30), <2>2, <2>3, <3>1, <3>2 DEF ScreenType
  <2>5. "nothing" \in ViewsOf(screen.mode)
    BY <1>2 DEF ScreenOK, ScreenType, ViewsOf, ReceivingModes, ModeNames
  <2>6. ScreenOK(t)
    BY <1>2, <2>4, <2>5 DEF ScreenOK
  <2>7. screen' = t
    BY <1>1, <1>6, <2>1, <2>2, <2>3 DEF LookupFailed, BusyAfterFailure
  <2>8. FlagsFollow(screen, t, calls[k], None)
    BY <1>1, <1>2, <1>4, <2>2, <2>4 DEF FlagsFollow, HoldsInput, IsRapid, Lookups
  <2> QED
    BY <1>3, <2>4, <2>6, <2>7, <2>8, OneCall
<1> QED
  BY <1>5, <1>6

LEMMA LoseStep ==
  ASSUME InOrder, [Next]_vars, NEW k \in Slots, Lose(k)
  PROVE  PageOK'
<1>1. PICK call \in CallType :
        /\ call = calls[k] /\ call # None /\ CallOK(screen.mode, call)
        /\ IsRapid(call) => screen.busy
  BY CallAt DEF Lose
<1>2. PICK new : new = [call EXCEPT !.lost = TRUE]
  OBVIOUS
<1>3. /\ new \in CallType /\ new.op = call.op /\ new.item = call.item /\ new.box = call.box
      /\ new.rapid = call.rapid /\ new.typed = call.typed
  BY <1>2 DEF CallType
<1>4. CallOK(screen.mode, new) /\ new # None
  BY <1>1, <1>3, CallNoneAssumption DEF CallOK
<1>5. PICK t : t = screen
  OBVIOUS
<1>6. screen' = t /\ ScreenOK(t) /\ calls' = [calls EXCEPT ![k] = new]
  BY <1>1, <1>2, <1>5 DEF Lose, InOrder, PageOK, CallsOK
<1>7. FlagsFollow(screen, t, calls[k], new)
  BY <1>1, <1>3, <1>4, <1>5 DEF FlagsFollow, HoldsInput, HoldsButtons, IsRapid
<1> QED
  BY <1>3, <1>4, <1>5, <1>6, <1>7, OneCall

LEMMA ElsewhereStep ==
  ASSUME InOrder, [Next]_vars, UNCHANGED <<screen, calls>>
  PROVE  PageOK'
<1>1. 1 \in Slots
  BY DEF Slots
<1>2. PICK new : new = calls[1]
  OBVIOUS
<1>3. new \in CallType \cup {None} /\ (new # None => CallOK(screen.mode, new))
  BY <1>1, <1>2 DEF InOrder, PageOK, CallsOK
<1>4. PICK t : t = screen
  OBVIOUS
<1>5. screen' = t /\ ScreenOK(t) /\ calls' = [calls EXCEPT ![1] = new]
  BY <1>1, <1>2, <1>4 DEF InOrder, PageOK, CallsOK
<1>6. FlagsFollow(screen, t, calls[1], new)
  BY <1>1, <1>2, <1>4 DEF FlagsFollow, InOrder, PageOK, RapidIsBusy, IsRapid
<1> QED
  BY <1>1, <1>3, <1>4, <1>5, <1>6, OneCall

-----------------------------------------------------------------------------
\* What a commit's end leaves on the screen.

\* The flags and the codes of a screen, and its container in LOAD mode, set at
\* will.
Set(s, codes, busy, confirming, box) ==
  [s EXCEPT !.codes = codes, !.busy = busy, !.confirming = confirming, !.box = box]

LEMMA ScreenSet ==
  ASSUME NEW s, ScreenOK(s), NEW codes \in SUBSET Items, NEW busy \in BOOLEAN,
         NEW confirming \in BOOLEAN, NEW box \in Boxes \cup {None}, s.mode # "LOAD" => box = None,
         NEW t, t = Set(s, codes, busy, confirming, box)
  PROVE  /\ ScreenOK(t) /\ t.mode = s.mode /\ t.codes = codes /\ t.busy = busy
         /\ t.confirming = confirming
<1>1. /\ t \in ScreenType /\ t.mode = s.mode /\ t.codes = codes /\ t.busy = busy
      /\ t.confirming = confirming /\ t.box = box /\ t.view = s.view /\ t.item = s.item
      /\ t.rapid = s.rapid /\ t.typed = s.typed
  BY DEF Set, ScreenOK, ScreenType
<1> QED
  BY <1>1 DEF ScreenOK

\* The item is taken off the screen.
Cleared(s, codes, typed) ==
  [s EXCEPT !.codes = codes, !.item = None, !.view = "nothing", !.choice = None,
            !.typed = typed, !.confirming = FALSE]

LEMMA ScreenCleared ==
  ASSUME NEW s, ScreenOK(s), NEW codes \in SUBSET Items, NEW typed \in Items \cup {None},
         NEW t, t = Cleared(s, codes, typed)
  PROVE  /\ ScreenOK(t) /\ t.mode = s.mode /\ t.codes = codes /\ t.busy = s.busy
         /\ ~ t.confirming
<1>1. /\ t \in ScreenType /\ t.mode = s.mode /\ t.codes = codes /\ t.busy = s.busy
      /\ ~ t.confirming /\ t.box = s.box /\ t.view = "nothing" /\ t.rapid = s.rapid
  BY DEF Cleared, ScreenOK, ScreenType, Views
<1>2. "nothing" \in ViewsOf(s.mode)
  BY DEF ScreenOK, ScreenType, ViewsOf, ReceivingModes, ModeNames
<1> QED
  BY <1>1, <1>2 DEF ScreenOK

\* Selecting another container, or none, changes that and the codes.
LEMMA WithBoxIs ==
  ASSUME ScreenOK(screen), NEW copy \in Boxes \cup {None}, NEW s, ScreenOK(s), s.box = screen.box
  PROVE  \E codes \in SUBSET Items :
           WithBox(s, copy) = [s EXCEPT !.codes = codes, !.box = copy]
<1>1. PICK codes : codes = IF s.box # None /\ copy # None /\ s.box.id = copy.id THEN s.codes
                           ELSE IF copy = None THEN {} ELSE copy.items
  OBVIOUS
<1>2. codes \in SUBSET Items
  BY <1>1 DEF ScreenOK, ScreenType, Boxes
<1>3. WithBox(s, copy) = [s EXCEPT !.codes = codes, !.box = copy]
  BY <1>1 DEF WithBox, ScreenOK, ScreenType
<1> QED
  BY <1>2, <1>3

LEMMA AnsweredTyped ==
  ASSUME TypeOK', NEW call, call.box \in Containers
  PROVE  Answered(call) \in Boxes
BY DEF TypeOK, Answered, Copy, Boxes

\* A code that is remembered on the receiving screen was received.
LEMMA RememberedIs ==
  ASSUME ScreenOK(screen), TypeOK, NEW call, CallOK(screen.mode, call), call.op \notin Lookups
  PROVE  /\ call.op \notin {"open", "book", "seal"} =>
              \A done : Remembered(call, done) \in SUBSET Items
         /\ Remembered(call, FALSE) = screen.codes
         /\ screen.mode = "RECEIVE" /\ Perform(call) =>
              \A i \in Remembered(call, TRUE) : i \in screen.codes \/ received'[i]
<1>1. screen.codes \subseteq Items
  BY DEF ScreenOK, ScreenType
<1>2. ASSUME call.op \notin {"open", "book", "seal"}
      PROVE  \A done : Remembered(call, done) \in SUBSET Items
  BY <1>1, <1>2 DEF Remembered, CallOK
<1>3. ASSUME screen.mode = "RECEIVE", Perform(call)
      PROVE  received'[call.item]
  <2>1. call.op = "receive" /\ call.item \in Items
    BY <1>3 DEF CallOK, CommitsOf, ReceivingModes, ReceivePanel, Lookups
  <2>2. ReceiveItem(call.item, Here)
    BY <1>3, <2>1 DEF Perform, InspectionPanel
  <2> QED
    BY <2>1, <2>2 DEF ReceiveItem, TypeOK
<1> QED
  BY <1>2, <1>3 DEF Remembered

LEMMA CommittedStep ==
  ASSUME InOrder, [Next]_vars, TypeOK', NEW k \in Slots, Committed(k)
  PROVE  PageOK'
<1>1. PICK call \in CallType :
        /\ call = calls[k] /\ call # None /\ CallOK(screen.mode, call)
        /\ IsRapid(call) => screen.busy
  BY CallAt DEF Committed
<1>2. /\ ScreenOK(screen) /\ TypeOK /\ screen.mode \in ModeNames
      /\ screen.codes \in SUBSET Items /\ screen.busy \in BOOLEAN
      /\ screen.confirming \in BOOLEAN /\ screen.box \in Boxes \cup {None}
      /\ screen.typed \in Items \cup {None}
  BY DEF InOrder, PageOK, Transport, ScreenOK, ScreenType
<1>3. /\ calls' = [calls EXCEPT ![k] = None] /\ call.op \notin Lookups
      /\ call.op # "open" => Perform(call)
  BY <1>1 DEF Committed, Done
<1>4. PICK busy \in BOOLEAN, confirming \in BOOLEAN, box \in Boxes \cup {None} :
        busy = screen.busy /\ confirming = screen.confirming /\ box = screen.box
  BY <1>2
<1>5. PICK off \in BOOLEAN : off = FALSE
  OBVIOUS
<1>6. CASE call.op \in {"open", "book", "unload", "seal"}
  <2>1. screen.mode = "LOAD" /\ call.box \in Containers
    BY <1>1, <1>2, <1>6, BoxCallsLoad DEF BoxCalls
  <2>2. PICK copy \in Boxes : copy = Answered(call)
    BY <2>1, AnsweredTyped
  <2>3. PICK codes \in SUBSET Items :
          WithBox(screen, copy) = [screen EXCEPT !.codes = codes, !.box = copy]
    BY <1>2, WithBoxIs
  <2>4. PICK t : t = Set(screen, codes, busy, confirming, copy)
    OBVIOUS
  <2>5. /\ ScreenOK(t) /\ t.mode = screen.mode /\ t.busy = screen.busy
        /\ t.confirming = screen.confirming
    <3>1. screen.mode # "LOAD" => copy = None
      BY <2>1
    <3>2. ScreenOK(t) /\ t.mode = screen.mode /\ t.busy = busy /\ t.confirming = confirming
      BY <1>2, <2>4, <3>1, ScreenSet
    <3> QED
      BY <1>4, <3>2
  <2>6. screen' = WithBox(screen, copy)
    <3>1. ~ call.rapid
      BY <1>1, <2>1 DEF CallOK, ReceivingModes
    <3> QED
      BY <1>1, <1>6, <2>2, <3>1 DEF Committed
  <2>7. screen' = t
    BY <1>2, <1>4, <2>3, <2>4, <2>6 DEF Set, ScreenOK, ScreenType
  <2>8. FlagsFollow(screen, t, calls[k], None)
    <3>1. ~ HoldsInput(call) /\ ~ HoldsButtons(call)
      BY <1>1, <1>6, <2>1 DEF HoldsInput, HoldsButtons, CallOK, ReceivingModes, BoxCalls
    <3> QED
      BY <1>1, <2>5, <3>1 DEF FlagsFollow, IsRapid
  <2> QED
    BY <1>3, <2>1, <2>5, <2>7, <2>8, OneCall
<1>7. CASE call.op = "load"
  <2>1. screen.mode = "LOAD" /\ call.box \in Containers
    BY <1>1, <1>2, <1>7, BoxCallsLoad DEF BoxCalls
  <2>2. PICK copy \in Boxes : copy = Answered(call)
    BY <2>1, AnsweredTyped
  <2>3. PICK remembered \in SUBSET Items : remembered = Remembered(call, TRUE)
    BY <1>1, <1>2, <1>3, <1>7, RememberedIs
  <2>4. PICK known : known = [screen EXCEPT !.codes = remembered]
    OBVIOUS
  <2>5. /\ ScreenOK(known) /\ known.mode = screen.mode /\ known.box = screen.box
        /\ known.confirming = screen.confirming
    <3>1. /\ known \in ScreenType /\ known.mode = screen.mode /\ known.box = screen.box
          /\ known.confirming = screen.confirming /\ known.view = screen.view
          /\ known.item = screen.item /\ known.rapid = screen.rapid /\ known.typed = screen.typed
      BY <1>2, <2>4 DEF ScreenOK, ScreenType
    <3> QED
      BY <1>2, <3>1 DEF ScreenOK
  <2>6. PICK codes \in SUBSET Items :
          WithBox(known, copy) = [known EXCEPT !.codes = codes, !.box = copy]
    BY <1>2, <2>5, WithBoxIs
  <2>7. PICK t : t = Set(known, codes, off, confirming, copy)
    OBVIOUS
  <2>8. /\ ScreenOK(t) /\ t.mode = screen.mode /\ ~ t.busy
        /\ t.confirming = screen.confirming
    BY <1>4, <1>5, <2>1, <2>5, <2>7, ScreenSet
  <2>9. screen' = [WithBox(known, copy) EXCEPT !.busy = FALSE]
    BY <1>1, <1>7, <2>2, <2>3, <2>4 DEF Committed
  <2>10. screen' = t
    BY <1>4, <1>5, <2>5, <2>6, <2>7, <2>9 DEF Set, ScreenOK, ScreenType
  <2>11. FlagsFollow(screen, t, calls[k], None)
    <3>1. ~ HoldsButtons(call)
      BY <1>7 DEF HoldsButtons, BoxCalls
    <3> QED
      BY <1>1, <2>1, <2>8, <3>1 DEF FlagsFollow, IsRapid
  <2> QED
    BY <1>3, <2>1, <2>8, <2>10, <2>11, OneCall
<1>8. CASE call.op \notin {"open", "book", "unload", "seal", "load"} /\ call.rapid
  <2>1. PICK remembered \in SUBSET Items : remembered = Remembered(call, TRUE)
    BY <1>1, <1>2, <1>3, <1>8, RememberedIs
  <2>2. PICK t : t = Set(screen, remembered, off, confirming, box)
    OBVIOUS
  <2>3. /\ ScreenOK(t) /\ t.mode = screen.mode /\ t.codes = remembered /\ ~ t.busy
        /\ t.confirming = screen.confirming
    <3>1. screen.mode # "LOAD" => box = None
      BY <1>2, <1>4 DEF ScreenOK
    <3> QED
      BY <1>2, <1>4, <1>5, <2>2, <3>1, ScreenSet
  <2>4. screen' = [[screen EXCEPT !.codes = remembered] EXCEPT !.busy = FALSE]
    BY <1>1, <1>8, <2>1 DEF Committed
  <2>5. screen' = t
    BY <1>2, <1>4, <1>5, <2>2, <2>4 DEF Set, ScreenOK, ScreenType
  <2>6. FlagsFollow(screen, t, calls[k], None)
    BY <1>1, <1>8, <2>3 DEF FlagsFollow, HoldsButtons, IsRapid
  <2>7. screen.mode = "RECEIVE" => \A i \in remembered : i \in screen.codes \/ received'[i]
    BY <1>1, <1>2, <1>3, <1>8, <2>1, RememberedIs
  <2> QED
    BY <1>3, <2>3, <2>5, <2>6, <2>7, OneCall
<1>9. CASE call.op \notin {"open", "book", "unload", "seal", "load"} /\ ~ call.rapid
  <2>1. PICK remembered \in SUBSET Items : remembered = Remembered(call, TRUE)
    BY <1>1, <1>2, <1>3, <1>9, RememberedIs
  <2>2. PICK typed \in Items \cup {None} :
          typed = IF screen.mode = "DESTINATION_RECEIVE" THEN screen.typed ELSE None
    BY <1>2
  <2>3. PICK t : t = Cleared(screen, remembered, typed)
    OBVIOUS
  <2>4. /\ ScreenOK(t) /\ t.mode = screen.mode /\ t.codes = remembered /\ t.busy = screen.busy
        /\ ~ t.confirming
    BY <1>2, <2>3, ScreenCleared
  <2>5. screen' = [[screen EXCEPT !.codes = remembered] EXCEPT
                     !.item = None, !.view = "nothing", !.choice = None,
                     !.typed = IF screen.mode = "DESTINATION_RECEIVE" THEN @ ELSE None,
                     !.confirming = FALSE]
    BY <1>1, <1>9, <2>1 DEF Committed
  <2>6. screen' = t
    BY <1>2, <2>2, <2>3, <2>5 DEF Cleared, ScreenOK, ScreenType
  <2>7. FlagsFollow(screen, t, calls[k], None)
    BY <1>1, <1>9, <2>4 DEF FlagsFollow, HoldsInput, IsRapid
  <2>8. screen.mode = "RECEIVE" => \A i \in remembered : i \in screen.codes \/ received'[i]
    BY <1>1, <1>2, <1>3, <1>9, <2>1, RememberedIs
  <2> QED
    BY <1>3, <2>4, <2>6, <2>7, <2>8, OneCall
<1> QED
  BY <1>6, <1>7, <1>8, <1>9

LEMMA CommitFailedStep ==
  ASSUME InOrder, [Next]_vars, NEW k \in Slots, CommitFailed(k)
  PROVE  PageOK'
<1>1. PICK call \in CallType :
        /\ call = calls[k] /\ call # None /\ CallOK(screen.mode, call)
        /\ IsRapid(call) => screen.busy
  BY CallAt DEF CommitFailed
<1>2. /\ ScreenOK(screen) /\ TypeOK /\ screen.mode \in ModeNames
      /\ screen.codes \in SUBSET Items /\ screen.busy \in BOOLEAN
      /\ screen.confirming \in BOOLEAN /\ screen.box \in Boxes \cup {None}
      /\ screen.mode # "LOAD" => screen.box = None
  BY DEF InOrder, PageOK, Transport, ScreenOK, ScreenType
<1>3. calls' = [calls EXCEPT ![k] = None] /\ call.op \notin Lookups
  BY <1>1 DEF CommitFailed, Done
<1>4. PICK busy \in BOOLEAN, confirming \in BOOLEAN, box \in Boxes \cup {None},
           codes \in SUBSET Items :
        /\ busy = screen.busy /\ confirming = screen.confirming /\ box = screen.box
        /\ codes = screen.codes
  BY <1>2
<1>5. PICK off \in BOOLEAN : off = FALSE
  OBVIOUS
<1>6. call.op \in BoxCalls => screen.mode = "LOAD" /\ ~ call.rapid
  BY <1>1, <1>2, BoxCallsLoad DEF CallOK, ReceivingModes
<1>7. CASE call.op = "open"
  <2>1. screen.mode = "LOAD" /\ ~ call.rapid
    BY <1>6, <1>7 DEF BoxCalls
  <2>2. PICK none \in Boxes \cup {None} : none = None
    OBVIOUS
  <2>3. PICK left \in SUBSET Items :
          WithBox(screen, none) = [screen EXCEPT !.codes = left, !.box = none]
    BY <1>2, WithBoxIs
  <2>4. PICK t : t = Set(screen, left, busy, confirming, none)
    OBVIOUS
  <2>5. ScreenOK(t) /\ t.mode = screen.mode /\ t.busy = busy /\ t.confirming = confirming
    BY <1>2, <2>2, <2>4, ScreenSet
  <2>6. screen' = WithBox(screen, none)
    BY <1>1, <1>7, <2>1, <2>2 DEF CommitFailed
  <2>7. screen' = t
    BY <1>2, <1>4, <2>3, <2>4, <2>6 DEF Set, ScreenOK, ScreenType
  <2>8. FlagsFollow(screen, t, calls[k], None)
    BY <1>1, <1>4, <1>7, <2>1, <2>5 DEF FlagsFollow, HoldsInput, HoldsButtons, IsRapid, BoxCalls
  <2> QED
    BY <1>3, <2>1, <2>5, <2>7, <2>8, OneCall
<1>8. CASE call.op \in {"book", "unload", "seal"}
  <2>1. screen.mode = "LOAD" /\ ~ call.rapid
    BY <1>6, <1>8 DEF BoxCalls
  <2>2. PICK t : t = screen
    OBVIOUS
  <2>3. screen' = t
    BY <1>1, <1>8, <2>1, <2>2 DEF CommitFailed
  <2>4. FlagsFollow(screen, t, calls[k], None)
    BY <1>1, <1>8, <2>1, <2>2 DEF FlagsFollow, HoldsInput, HoldsButtons, IsRapid, BoxCalls
  <2> QED
    BY <1>2, <1>3, <2>1, <2>2, <2>3, <2>4, OneCall
<1>9. CASE call.op \notin {"open", "book", "unload", "seal"} /\ (call.op = "load" \/ call.rapid)
  <2>1. PICK t : t = Set(screen, codes, off, confirming, box)
    OBVIOUS
  <2>2. /\ ScreenOK(t) /\ t.mode = screen.mode /\ t.codes = codes /\ t.busy = off
        /\ t.confirming = confirming
    BY <1>2, <1>4, <2>1, ScreenSet
  <2>3. Remembered(call, FALSE) = codes
    BY <1>4 DEF Remembered
  <2>4. screen' = [[screen EXCEPT !.codes = codes] EXCEPT !.busy = FALSE]
    BY <1>1, <1>9, <2>3 DEF CommitFailed
  <2>5. screen' = t
    BY <1>2, <1>4, <1>5, <2>1, <2>4 DEF Set, ScreenOK, ScreenType
  <2>6. FlagsFollow(screen, t, calls[k], None)
    <3>1. ~ HoldsButtons(call) /\ (IsRapid(call) \/ screen.mode = "LOAD")
      BY <1>1, <1>6, <1>9 DEF HoldsButtons, IsRapid, BoxCalls
    <3> QED
      BY <1>1, <1>4, <1>5, <2>2, <3>1 DEF FlagsFollow, IsRapid
  <2> QED
    BY <1>3, <1>4, <2>2, <2>5, <2>6, OneCall
<1>10. CASE call.op \notin {"open", "book", "unload", "seal", "load"} /\ ~ call.rapid
  <2>1. PICK t : t = Set(screen, codes, busy, off, box)
    OBVIOUS
  <2>2. /\ ScreenOK(t) /\ t.mode = screen.mode /\ t.codes = codes /\ t.busy = busy
        /\ t.confirming = off
    BY <1>2, <1>4, <2>1, ScreenSet
  <2>3. Remembered(call, FALSE) = codes
    BY <1>4 DEF Remembered
  <2>4. screen' = [[screen EXCEPT !.codes = codes] EXCEPT !.confirming = FALSE]
    BY <1>1, <1>10, <2>3 DEF CommitFailed
  <2>5. screen' = t
    BY <1>2, <1>4, <1>5, <2>1, <2>4 DEF Set, ScreenOK, ScreenType
  <2>6. FlagsFollow(screen, t, calls[k], None)
    BY <1>1, <1>4, <1>5, <1>10, <2>2 DEF FlagsFollow, HoldsInput, IsRapid
  <2> QED
    BY <1>3, <1>4, <2>2, <2>5, <2>6, OneCall
<1> QED
  BY <1>7, <1>8, <1>9, <1>10

-----------------------------------------------------------------------------
\* The invariant.

LEMMA InOrderInit == WorkspaceInit => InOrder
<1> SUFFICES ASSUME WorkspaceInit PROVE InOrder
  OBVIOUS
<1>1. Transport
  BY TransportInit DEF WorkspaceInit
<1>2. screen = Fresh("RECEIVE") /\ calls = [k \in Slots |-> None]
  BY DEF WorkspaceInit
<1>3. ScreenOK(screen)
  BY <1>2, FreshOK DEF ModeNames
<1>4. CallsOK /\ RapidIsBusy
  BY <1>2 DEF CallsOK, RapidIsBusy
<1>5. ~ screen.busy /\ ~ screen.confirming /\ screen.codes = {}
  BY <1>2 DEF Fresh
<1>6. FlagsAreRight /\ AlreadyReceived
  BY <1>2, <1>5 DEF FlagsAreRight, NeverLockedOut, OneRapidScan, AlreadyReceived
<1> QED
  BY <1>1, <1>3, <1>4, <1>6 DEF InOrder, PageOK

LEMMA InOrderStep == InOrder /\ [WorkspaceNext]_workspaceVars => InOrder'
<1> SUFFICES ASSUME InOrder, [WorkspaceNext]_workspaceVars PROVE InOrder'
  OBVIOUS
<1>1. CASE WorkspaceNext
  <2>1. [Next]_vars
    BY <1>1, PageStepsAreRequests DEF InOrder, PageOK
  <2>2. Transport' /\ TypeOK'
    BY <2>1, TransportStep DEF InOrder, Transport
  <2>3. PageOK'
    <3>1. CASE Operate
      BY <3>1, OperateStep
    <3>2. CASE Answer
      BY <2>1, <2>2, <3>2, ShownStep, ShownAndCommittedStep, LookupFailedStep, CommittedStep,
         CommitFailedStep DEF Answer
    <3>3. CASE \E k \in Slots : Lose(k)
      BY <2>1, <3>3, LoseStep
    <3>4. CASE Elsewhere
      <4>1. UNCHANGED <<screen, calls>>
        BY <3>4 DEF Elsewhere
      <4> QED
        BY <2>1, <4>1, ElsewhereStep
    <3> QED
      BY <1>1, <3>1, <3>2, <3>3, <3>4 DEF WorkspaceNext
  <2> QED
    BY <2>2, <2>3 DEF InOrder
<1>2. CASE UNCHANGED workspaceVars
  <2>1. UNCHANGED vars /\ UNCHANGED <<screen, calls>>
    BY <1>2 DEF workspaceVars, screenVars
  <2>2. Transport'
    BY <2>1, TransportStep DEF InOrder
  <2>3. PageOK'
    BY <2>1, ElsewhereStep
  <2> QED
    BY <2>2, <2>3 DEF InOrder
<1> QED
  BY <1>1, <1>2

-----------------------------------------------------------------------------
\* The inductive invariant: whatever is scanned, confirmed, lost or answered
\* late, the screen shows a panel of its mode for an item it has, waits only for
\* calls of that mode, and disables input and buttons while one of them will
\* enable them again.
THEOREM InOrderInvariant == WorkspaceSpec => []InOrder
BY InOrderInit, InOrderStep, PTL DEF WorkspaceSpec

\* What is written about an item was typed for that item: a form's values never
\* reach the server with the item scanned after it (resetForm).
THEOREM FormStaysItsItems == WorkspaceSpec => []FormIsForItsItem
<1>1. InOrder => FormIsForItsItem
  BY DEF InOrder, PageOK, CallsOK, CallOK, WithForm, FormIsForItsItem
<1> QED
  BY <1>1, InOrderInvariant, PTL

\* A disabled input or button waits for a call that enables it again, and there
\* is never a second Rapid Scan beside the first (scanBusy, confirming).
THEOREM FlagsStayRight == WorkspaceSpec => []FlagsAreRight
<1>1. InOrder => FlagsAreRight
  BY DEF InOrder, PageOK
<1> QED
  BY <1>1, InOrderInvariant, PTL

\* "Already received this session" is true of every code it is said of
\* (receivedCodesRef): the server did receive the item, and nothing takes that
\* back.
THEOREM AlreadyReceivedIsTrue == WorkspaceSpec => []AlreadyReceived
<1>1. InOrder => AlreadyReceived
  BY DEF InOrder, PageOK
<1> QED
  BY <1>1, InOrderInvariant, PTL

\* Behind the screen the server does what Cargo says, whatever the operator does
\* and the network loses: all that is proved of Spec is true of it.
THEOREM BehindTheScreen == WorkspaceSpec => Spec
<1>1. InOrder /\ [WorkspaceNext]_workspaceVars => [Next]_vars
  BY PageStepsAreRequests DEF InOrder, PageOK, workspaceVars
<1>2. WorkspaceInit => Init
  BY DEF WorkspaceInit
<1> QED
  BY <1>1, <1>2, InOrderInvariant, PTL DEF WorkspaceSpec, Spec

=============================================================================

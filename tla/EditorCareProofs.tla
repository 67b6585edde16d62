-------------------------- MODULE EditorCareProofs --------------------------
(***************************************************************************)
(* What a user of Editor who waits, and to whom nothing fails, can rely    *)
(* on: what is shown as saved is saved, and it is saved where it belongs.  *)
(***************************************************************************)
EXTENDS EditorProofs

(* The request in flight, by itself.                                       *)
LEMMA Lone ==
    ASSUME TypeOK, Orderly
    PROVE  \/ requests = <<>> /\ Settled
           \/ /\ requests = <<requests[1]>> /\ DOMAIN requests = {1} /\ InFlight(requests[1])
              /\ requests[1] \in Requests /\ Addressed(requests[1])
              /\ requests[1].answer \in Answers
<1>1. Good(requests)
  BY NetNow
<1>2. CASE Len(requests) = 1 /\ InFlight(requests[1])
  <2>1. requests \in Seq(Requests) /\ DOMAIN requests = {1} /\ requests = <<requests[1]>>
    BY <1>1, <1>2 DEF Good
  <2>2. requests[1] \in Requests /\ Addressed(requests[1])
    BY <1>1, <2>1 DEF Good
  <2>3. requests[1].answer \in Answers
    BY <2>2 DEF Requests
  <2> QED  BY <1>2, <2>1, <2>2, <2>3
<1> QED  BY <1>2 DEF Orderly

LEMMA LoneNext ==
    ASSUME NEW r, requests' = <<r>>, InFlight(r)', Readable(store)', DialogHere', ScreenHere'
    PROVE  Orderly'
<1>1. Len(requests') = 1 /\ requests'[1] = r
  OBVIOUS
<1>2. InFlight(requests[1])'
  BY <1>1 DEF InFlight, Saved, Listed, Current, device_name, preset_name, Selected
<1> QED  BY <1>1, <1>2 DEF Orderly

LEMMA NoneNext ==
    ASSUME requests' = <<>>, Settled', Readable(store)', DialogHere', ScreenHere'
    PROVE  Orderly'
BY DEF Orderly

(* Nothing is in flight when a key is pressed.                             *)
LEMMA KeyAlone ==
    ASSUME TypeOK, Patient, Waits, Orderly, Key
    PROVE  requests = <<>> /\ Settled
<1>1. Awaited(requests) = {}
  BY NetNow, KeyListens DEF Waits
<1>2. ASSUME DOMAIN requests = {1}, InFlight(requests[1]), requests[1].answer \in Answers
      PROVE  1 \in Awaited(requests)
  <2>1. requests[1].answer # Delivered
    BY <1>2 DEF InFlight
  <2>2. requests[1].answer.kind # "Delivered"
    BY <1>2, <2>1 DEF Answers, Delivered, Answer
  <2> QED  BY <1>2, <2>2 DEF Awaited
<1> QED  BY <1>1, <1>2, Lone

LEMMA ValidDevice ==
    ASSUME TypeOK, Careful, device_name # None
    PROVE  device_name \in ValidNames /\ device_name \in Devices
<1>1. selected_device \in DOMAIN devices /\ device_name = devices[selected_device]
  BY DEF device_name, Selected
<1>2. devices \in DeviceLists
  BY <1>1 DEF TypeOK, ListsType
<1>3. device_name \in ToSet(devices)
  BY <1>1 DEF ToSet
<1> QED  BY <1>2, <1>3, Chosen DEF Careful

(* A request that was just sent.                                           *)
LEMMA NewInFlight ==
    ASSUME NEW r, New(r), r.op \in OnScreen[screen'],
           r.op = "RefreshPresets" => r.device = device_name',
           r.op \in {"CreatePreset", "DeletePreset"} => Listed(presets)',
           r.op \in {"RefreshEntries", "SavePreset"} => <<r.device, r.preset>> = Current',
           r.op \in {"SavePreset", "ApplyPreset"} => origin' = Current',
           r.op = "SavePreset" => r.entries = entries',
           r.op = "ApplyPreset" => Saved'
    PROVE  InFlight(r)'
<1>1. r.served = FALSE /\ r.answer = Waiting /\ Waiting # Delivered
  BY DEF New, Waiting, Delivered, Answer, Requests
<1> QED  BY <1>1 DEF InFlight

LEMMA CareSwitch ==
    ASSUME TypeOK, Orderly, requests = <<>>, NEW s \in {"Devices", "Presets", "Editor", "Status"},
           screen' = s, Call(Refreshing(requests, s)), overlay' = NoOverlay,
           UNCHANGED <<lists, store>>, ScreenHere'
    PROVE  Orderly'
<1>1. Readable(store)' /\ DialogHere'
  BY DEF Orderly, DialogHere, Readable, NoOverlay
<1>2. device_name' = device_name /\ preset_name' = preset_name /\ Current' = Current
  BY DEF lists, device_name, preset_name, Selected, Current
<1>3. ~NothingToLoad(s)
  <2>1. s = "Editor" => Current \in Slots
    BY <1>2 DEF ScreenHere
  <2>2. s = "Presets" => device_name # None
    BY <1>2 DEF ScreenHere
  <2>3. Current \in Slots => None \notin {device_name, preset_name}
    BY Chosen DEF Slots, Current, Names
  <2> QED  BY <2>1, <2>2, <2>3 DEF NothingToLoad
<1>4. PICK r : New(r) /\ Loads(r, s) /\ requests' = Append(requests, r)
  BY <1>3, SwitchEffect
<1>5. requests' = <<r>>
  BY <1>4
<1>6. InFlight(r)'
  <2>1. r.op \in OnScreen[s]
    BY <1>4 DEF Loads, OnScreen
  <2>2. /\ r.op \notin {"CreatePreset", "DeletePreset", "SavePreset", "ApplyPreset"}
        /\ r.op = "RefreshPresets" => r.device = device_name
        /\ r.op = "RefreshEntries" => <<r.device, r.preset>> = Current
    BY <1>4 DEF Loads, Current
  <2> QED  BY <1>2, <1>4, <2>1, <2>2, NewInFlight
<1> QED  BY <1>1, <1>5, <1>6, LoneNext

(* Keys that send nothing, and leave what is shown as it is.               *)
LEMMA CareQuiet ==
    ASSUME Orderly, requests = <<>>, Settled, requests' = <<>>,
           UNCHANGED <<screen, store, lists, origin>>, DialogHere',
           screen = "Editor" /\ Saved => Saved'
    PROVE  Orderly'
<1>1. /\ Readable(store)' /\ device_name' = device_name /\ preset_name' = preset_name
      /\ Current' = Current /\ presets' = presets
  BY DEF Orderly, Readable, lists, device_name, preset_name, Selected, Current
<1>2. ScreenHere'
  BY <1>1 DEF Orderly, ScreenHere
<1>3. Settled'
  BY <1>1 DEF Settled, Listed
<1> QED  BY <1>1, <1>2, <1>3, NoneNext

LEMMA SamePlace ==
    ASSUME Orderly, UNCHANGED <<screen, store, lists>>
    PROVE  /\ Readable(store)' /\ ScreenHere' /\ Current' = Current /\ presets' = presets
           /\ device_name' = device_name /\ preset_name' = preset_name
           /\ overlay' = NoOverlay => DialogHere'
<1>1. /\ device_name' = device_name /\ preset_name' = preset_name /\ Current' = Current
      /\ presets' = presets
  BY DEF lists, device_name, preset_name, Selected, Current
<1>2. overlay' = NoOverlay => DialogHere'
  BY DEF DialogHere, NoOverlay
<1> QED  BY <1>1, <1>2 DEF Orderly, ScreenHere, Readable

LEMMA CareSpawn ==
    ASSUME TypeOK, Orderly, requests = <<>>, Settled,
           NEW op \in OnScreen[screen] \ {"RefreshPresets", "RefreshEntries"},
           NEW d \in Devices \cup {None}, NEW p \in Names \cup {None},
           NEW content \in Seq(Mappings), Addressed(Request(op, d, p, content)),
           Spawn(op, d, p, content), overlay' = NoOverlay,
           UNCHANGED <<screen, lists, mappings, store>>,
           op = "SavePreset" => <<d, p>> = Current /\ content = entries
    PROVE  Orderly'
<1> DEFINE r == Request(op, d, p, content)
<1>1. op \in Ops
  BY DEF OnScreen, Ops, TypeOK, ScreenType
<1>2. New(r) /\ requests' = Append(requests, r)
  BY <1>1, SpawnEffect
<1>3. r.op = op /\ r.device = d /\ r.preset = p /\ r.entries = content
  BY DEF Request
<1> HIDE DEF r
<1>4. requests' = <<r>>
  BY <1>2
<1>5. /\ Readable(store)' /\ ScreenHere' /\ DialogHere' /\ Current' = Current /\ presets' = presets
      /\ device_name' = device_name
  BY SamePlace
<1>6. InFlight(r)'
  <2>1. op \in {"CreatePreset", "DeletePreset"} => Listed(presets)'
    <3>1. op \in {"CreatePreset", "DeletePreset"} => screen = "Presets"
      BY DEF OnScreen, TypeOK, ScreenType
    <3> QED  BY <1>5, <3>1 DEF Settled, Listed
  <2>2. op \in {"SavePreset", "ApplyPreset"} => origin' = Current' /\ Saved'
    <3>1. op \in {"SavePreset", "ApplyPreset"} => screen = "Editor"
      BY DEF OnScreen, TypeOK, ScreenType
    <3> QED  BY <1>5, <3>1 DEF Settled, Saved, mappings
  <2>3. op = "SavePreset" => content = entries'
    BY DEF mappings
  <2> QED  BY <1>2, <1>3, <1>5, <2>1, <2>2, <2>3, NewInFlight
<1> QED  BY <1>4, <1>5, <1>6, LoneNext

LEMMA CareSwitches ==
    ASSUME TypeOK, SelectionValid, Orderly, requests = <<>>, Settled,
           Tab \/ Esc \/ Enter \/ Reload \/ ConfirmLeaveEditor
    PROVE  Orderly'
<1>1. ASSUME NEW s \in {"Devices", "Status"}, screen' = s, Call(Refreshing(requests, s)),
             overlay' = NoOverlay, UNCHANGED <<lists, store>>
      PROVE  Orderly'
  <2>1. ScreenHere'
    BY <1>1 DEF ScreenHere
  <2> QED  BY <1>1, <2>1, CareSwitch
<1>2. CASE Tab
  <2>1. \E s \in {"Devices", "Status"} : screen' = s /\ Call(Refreshing(requests, s))
    BY <1>2 DEF Tab, switch_screen
  <2> QED  BY <1>1, <1>2, <2>1 DEF Tab, Normal
<1>3. CASE ConfirmLeaveEditor
  BY <1>1, <1>3 DEF ConfirmLeaveEditor, Confirmed, switch_screen
<1>4. CASE Esc
  <2>1. CASE switch_screen("Devices") /\ UNCHANGED overlay
    BY <1>1, <1>4, <2>1 DEF Esc, Normal, switch_screen
  <2>2. CASE overlay' = Confirm("LeaveEditor", None) /\ UNCHANGED <<screen, net>>
    <3>1. DialogHere'
      BY <2>2 DEF DialogHere, Confirm
    <3>2. UNCHANGED <<store, lists, mappings>>
      BY <1>4 DEF Esc
    <3>3. Saved => Saved'
      BY <2>2, <3>2 DEF Saved, Current, lists, mappings, device_name, preset_name, Selected
    <3> QED  BY <2>2, <3>1, <3>2, <3>3, CareQuiet DEF net, mappings
  <2> QED  BY <1>4, <2>1, <2>2 DEF Esc
<1>5. CASE Reload
  <2>1. ScreenHere'
    BY <1>5, SamePlace DEF Reload
  <2>2. screen' \in {"Devices", "Presets", "Editor", "Status"} /\ screen' = screen
    BY <1>5 DEF Reload, TypeOK, ScreenType
  <2> QED  BY <1>5, <2>1, <2>2, CareSwitch DEF Reload, Normal
<1>6. CASE Enter
  <2>1. UNCHANGED <<lists, store>> /\ overlay' = NoOverlay
    BY <1>6 DEF Enter, Normal
  <2>2. /\ device_name' = device_name /\ Current' = Current
    BY <2>1 DEF lists, device_name, preset_name, Selected, Current
  <2>3. CASE screen = "Devices" /\ devices # <<>> /\ switch_screen("Presets")
    <3>1. selected_device \in DOMAIN devices
      BY <2>3 DEF SelectionValid, InRange
    <3>2. device_name \in Devices
      BY <3>1, Chosen DEF device_name, Selected
    <3>3. ScreenHere'
      BY <2>2, <2>3, <3>2, Chosen DEF ScreenHere, switch_screen
    <3> QED  BY <2>1, <2>3, <3>3, CareSwitch DEF switch_screen
  <2>4. CASE screen = "Presets" /\ presets # <<>> /\ switch_screen("Editor")
    <3>1. selected_preset \in DOMAIN presets
      BY <2>4 DEF SelectionValid, InRange
    <3>2. preset_name = presets[selected_preset]
      BY <3>1 DEF preset_name, Selected
    <3>3. preset_name \in Names
      BY <3>1, <3>2 DEF TypeOK, ListsType
    <3>4. device_name # None /\ store[Current] # Absent
      BY <2>4, <3>1, <3>2 DEF Orderly, ScreenHere, Settled, Listed, Current
    <3>5. Current \in Slots
      BY <3>3, <3>4, Chosen DEF Current
    <3>6. ScreenHere'
      BY <2>1, <2>2, <2>4, <3>4, <3>5 DEF ScreenHere, switch_screen
    <3> QED  BY <2>1, <2>4, <3>6, CareSwitch DEF switch_screen
  <2> QED  BY <1>6, <2>3, <2>4 DEF Enter
<1> QED  BY <1>2, <1>3, <1>4, <1>5, <1>6

LEMMA CareSends ==
    ASSUME TypeOK, Orderly, requests = <<>>, Settled,
           save_preset \/ apply_preset \/ StopInjections \/ CreatePreset \/ ConfirmDeletePreset
    PROVE  Orderly'
<1>1. /\ device_name \in Devices \cup {None} /\ preset_name \in Names \cup {None}
      /\ None \in Devices \cup {None} /\ None \in Names \cup {None}
      /\ <<>> \in Seq(Mappings) /\ entries \in Seq(Mappings)
  BY Chosen DEF TypeOK, EntriesType
<1>2. CASE save_preset
  <2>1. /\ screen = "Editor" /\ None \notin {device_name, preset_name} /\ overlay' = NoOverlay
        /\ Spawn("SavePreset", device_name, preset_name, entries)
        /\ UNCHANGED <<screen, lists, mappings, store>>
    BY <1>2 DEF save_preset, Normal
  <2>2. Addressed(Request("SavePreset", device_name, preset_name, entries))
    BY <2>1, Chosen DEF Addressed, Request
  <2>3. "SavePreset" \in OnScreen[screen] \ {"RefreshPresets", "RefreshEntries"}
    BY <2>1 DEF OnScreen
  <2>4. <<device_name, preset_name>> = Current
    BY DEF Current
  <2> QED  BY <1>1, <2>1, <2>2, <2>3, <2>4, CareSpawn
<1>3. CASE apply_preset
  <2>1. /\ screen = "Editor" /\ None \notin {device_name, preset_name} /\ overlay' = NoOverlay
        /\ Spawn("ApplyPreset", device_name, preset_name, <<>>)
        /\ UNCHANGED <<screen, lists, mappings, store>>
    BY <1>3 DEF apply_preset, Normal
  <2>2. Addressed(Request("ApplyPreset", device_name, preset_name, <<>>))
    BY <2>1, Chosen DEF Addressed, Request
  <2>3. "ApplyPreset" \in OnScreen[screen] \ {"RefreshPresets", "RefreshEntries"}
    BY <2>1 DEF OnScreen
  <2> QED  BY <1>1, <2>1, <2>2, <2>3, CareSpawn
<1>4. CASE StopInjections
  <2>1. /\ screen = "Status" /\ overlay' = NoOverlay /\ Spawn("Stop", None, None, <<>>)
        /\ UNCHANGED <<screen, lists, mappings, store>>
    BY <1>4 DEF StopInjections, Normal
  <2>2. Addressed(Request("Stop", None, None, <<>>))
    BY DEF Addressed, Request, OnPreset
  <2>3. "Stop" \in OnScreen[screen] \ {"RefreshPresets", "RefreshEntries"}
    BY <2>1 DEF OnScreen
  <2> QED  BY <1>1, <2>1, <2>2, <2>3, CareSpawn
<1>5. CASE CreatePreset
  <2>1. PICK name \in setting.names : /\ device_name # None /\ overlay' = NoOverlay
                                      /\ Spawn("CreatePreset", device_name, name, <<>>)
    BY <1>5 DEF CreatePreset
  <2>2. name \in Names /\ device_name \in Devices
    BY <2>1, <1>1, EditorAssumption DEF TypeOK, ScreenType, Names
  <2>3. Addressed(Request("CreatePreset", device_name, name, <<>>))
    BY <2>2 DEF Addressed, Request, Slots, Names
  <2>4. screen = "Presets"
    BY <1>5 DEF CreatePreset, Orderly, DialogHere
  <2>5. "CreatePreset" \in OnScreen[screen] \ {"RefreshPresets", "RefreshEntries"}
    BY <2>4 DEF OnScreen
  <2>6. UNCHANGED <<screen, lists, mappings, store>>
    BY <1>5 DEF CreatePreset
  <2> QED  BY <1>1, <2>1, <2>2, <2>3, <2>5, <2>6, CareSpawn
<1>6. CASE ConfirmDeletePreset
  <2>1. /\ None \notin {device_name, preset_name} /\ overlay' = NoOverlay
        /\ Spawn("DeletePreset", device_name, preset_name, <<>>)
        /\ UNCHANGED <<screen, lists, mappings, store>>
    BY <1>6 DEF ConfirmDeletePreset, Confirmed
  <2>2. Addressed(Request("DeletePreset", device_name, preset_name, <<>>))
    BY <2>1, Chosen DEF Addressed, Request
  <2>3. screen = "Presets"
    BY <1>6 DEF ConfirmDeletePreset, Confirmed, Orderly, DialogHere
  <2>4. "DeletePreset" \in OnScreen[screen] \ {"RefreshPresets", "RefreshEntries"}
    BY <2>3 DEF OnScreen
  <2> QED  BY <1>1, <2>1, <2>2, <2>4, CareSpawn
<1> QED  BY <1>2, <1>3, <1>4, <1>5, <1>6

(* Keys that change entries mark them as unsaved.                          *)
LEMMA CareEdits ==
    ASSUME Orderly, requests = <<>>, Settled,
           Recorded \/ SaveChain \/ RenameMapping \/ ConfirmDeleteMapping
    PROVE  Orderly'
<1>1. /\ UNCHANGED <<screen, lists, store, origin>> /\ requests' = <<>>
      /\ unsaved_changes' = TRUE \/ UNCHANGED <<unsaved_changes, entries>>
      /\ overlay' = NoOverlay \/ overlay'.kind = "symbols"
  <2>1. CASE Recorded \/ RenameMapping \/ ConfirmDeleteMapping
    <3>1. UNCHANGED <<screen, lists, store>> /\ requests' = <<>> /\ \E changed : Edit(changed)
      BY <2>1 DEF Recorded, RenameMapping, ConfirmDeleteMapping, net
    <3>2. overlay' = NoOverlay \/ overlay'.kind = "symbols"
      BY <2>1 DEF Recorded, RenameMapping, ConfirmDeleteMapping, Confirmed, SymbolSearch
    <3> QED  BY <3>1, <3>2 DEF Edit
  <2>2. CASE SaveChain
    <3>1. UNCHANGED <<screen, lists, store>> /\ requests' = <<>> /\ overlay' = NoOverlay
      BY <2>2 DEF SaveChain, net
    <3>2. \/ \E changed : Edit(changed)
          \/ UNCHANGED <<entries, unsaved_changes, origin, changes>>
      BY <2>2 DEF SaveChain
    <3> QED  BY <3>1, <3>2 DEF Edit
  <2> QED  BY <2>1, <2>2
<1>2. DialogHere'
  BY <1>1 DEF DialogHere, NoOverlay
<1>3. Saved => Saved'
  <2>1. CASE unsaved_changes' = TRUE
    BY <2>1 DEF Saved
  <2>2. CASE UNCHANGED <<unsaved_changes, entries>>
    BY <1>1, <2>2, SamePlace DEF Saved
  <2> QED  BY <1>1, <2>1, <2>2
<1> QED  BY <1>1, <1>2, <1>3, CareQuiet

LEMMA CareAsks ==
    ASSUME Orderly, requests = <<>>, Settled,
           \/ CtrlC \/ Quit \/ AskPreset \/ AskEntry \/ start_recording \/ CloseOverlay
           \/ BuildChain \/ ConfirmQuit
    PROVE  Orderly'
<1>1. UNCHANGED <<screen, lists, mappings, net, store>>
  <2>1. CASE CtrlC \/ Quit \/ AskPreset \/ AskEntry \/ start_recording
    BY <2>1 DEF CtrlC, Quit, AskPreset, AskEntry, start_recording
  <2>2. CASE CloseOverlay \/ BuildChain \/ ConfirmQuit
    BY <2>2 DEF CloseOverlay, BuildChain, ConfirmQuit
  <2> QED  BY <2>1, <2>2
<1>2. DialogHere'
  <2>1. CASE overlay' = overlay
    BY <1>1, <2>1 DEF Orderly, DialogHere
  <2>2. CASE overlay'.kind \in {"none", "record", "symbols"}
    BY <2>2 DEF DialogHere
  <2>3. CASE CtrlC \/ CloseOverlay \/ ConfirmQuit
    BY <2>1, <2>2, <2>3 DEF CtrlC, CloseOverlay, ConfirmQuit, Confirmed, NoOverlay
  <2>4. CASE Quit
    <3>1. overlay' = overlay \/ overlay' = Confirm("Quit", None)
      BY <2>4 DEF Quit
    <3>2. CASE overlay' = Confirm("Quit", None)
      BY <3>2 DEF DialogHere, Confirm
    <3> QED  BY <2>1, <3>1, <3>2
  <2>5. CASE AskPreset
    BY <1>1, <2>5 DEF AskPreset, DialogHere
  <2>6. CASE AskEntry
    <3> DEFINE input == entries[selected_entry].input
    <3>1. CASE overlay' = SymbolSearch(entries[selected_entry].output, input)
      BY <2>2, <3>1 DEF SymbolSearch
    <3>2. CASE overlay' = Confirm("DeleteMapping", input)
      BY <3>2 DEF DialogHere, Confirm
    <3>3. CASE overlay' = [kind |-> "input", action |-> "RenameMapping",
                           index |-> selected_entry, named |-> input]
      BY <3>3 DEF DialogHere
    <3> QED  BY <2>6, <3>1, <3>2, <3>3 DEF AskEntry
  <2>7. CASE start_recording \/ BuildChain
    BY <2>2, <2>7 DEF start_recording, BuildChain, SymbolSearch
  <2> QED  BY <2>3, <2>4, <2>5, <2>6, <2>7
<1>3. Saved => Saved'
  BY <1>1, SamePlace DEF Saved, mappings
<1> QED  BY <1>1, <1>2, <1>3, CareQuiet DEF net, mappings

LEMMA CareMove ==
    ASSUME TypeOK, Orderly, requests = <<>>, Settled, Move
    PROVE  Orderly'
<1>1. /\ UNCHANGED <<screen, devices, presets, entries, unsaved_changes, origin, store>>
      /\ requests' = <<>> /\ overlay' = NoOverlay
      /\ \/ screen = "Devices"
         \/ screen = "Presets" /\ UNCHANGED <<selected_device, selected_entry>>
         \/ screen = "Editor" /\ UNCHANGED <<selected_device, selected_preset>>
  BY DEF Move, Normal, net
<1>2. Readable(store)' /\ DialogHere'
  BY <1>1 DEF Orderly, Readable, DialogHere, NoOverlay
<1>3. CASE screen = "Devices"
  BY <1>1, <1>2, <1>3, NoneNext DEF ScreenHere, Settled
<1>4. CASE screen = "Presets" /\ UNCHANGED <<selected_device, selected_entry>>
  <2>1. device_name' = device_name
    BY <1>1, <1>4 DEF device_name, Selected
  <2>2. ScreenHere' /\ Settled'
    BY <1>1, <1>4, <2>1 DEF Orderly, ScreenHere, Settled, Listed
  <2> QED  BY <1>1, <1>2, <2>2, NoneNext
<1>5. CASE screen = "Editor" /\ UNCHANGED <<selected_device, selected_preset>>
  <2>1. Current' = Current
    BY <1>1, <1>5 DEF device_name, preset_name, Selected, Current
  <2>2. ScreenHere' /\ Settled'
    BY <1>1, <1>5, <2>1 DEF Orderly, ScreenHere, Settled, Saved
  <2> QED  BY <1>1, <1>2, <2>2, NoneNext
<1> QED  BY <1>1, <1>3, <1>4, <1>5

LEMMA CareKey ==
    ASSUME TypeOK, SelectionValid, Patient, Waits, Orderly, Key
    PROVE  Orderly'
<1>1. requests = <<>> /\ Settled
  BY KeyAlone
<1> QED  BY <1>1, CareSwitches, CareSends, CareEdits, CareAsks, CareMove DEF Key

-----------------------------------------------------------------------------
(* What the daemon does for a user to whom nothing fails.                  *)

LEMMA WrittenReadable ==
    ASSUME TypeOK, Readable(store), NEW slot \in Slots, NEW content \in Seq(Mappings) \cup {Absent},
           content # Absent => slot[2] \in ValidNames
    PROVE  Readable([store EXCEPT ![slot] = content])
<1>1. store \in Stores /\ (content = Absent \/ content # Broken)
  BY NetNow, EditorAssumption
<1>2. DOMAIN store = Slots
  BY <1>1 DEF Stores
<1> QED  BY <1>1, <1>2 DEF Readable

(* Presets are created, deleted and saved as asked, or nothing happens.    *)
LEMMA CareOutcome ==
    ASSUME TypeOK, Careful, Readable(store), NEW r \in Requests, Addressed(r),
           NEW outcome \in Outcomes(r)
    PROVE  /\ Readable(outcome.store) /\ outcome.answer \notin {Waiting, Delivered}
           /\ r.op \notin {"SavePreset", "CreatePreset", "DeletePreset"} => outcome.store = store
           /\ r.op \in {"CreatePreset", "DeletePreset"} =>
                outcome.store = store \/ outcome.answer = Ok
           /\ r.op = "SavePreset" /\ {r.device, r.preset} \subseteq ValidNames =>
                /\ outcome.answer = Ok
                /\ outcome.store = [store EXCEPT ![<<r.device, r.preset>>] = r.entries]
           /\ r.op = "RefreshPresets" /\ r.device \in ValidNames =>
                /\ outcome.answer.kind = "Presets"
                /\ \A i \in DOMAIN outcome.answer.data :
                        store[<<r.device, outcome.answer.data[i]>>] # Absent
           /\ r.op = "RefreshEntries" /\ {r.device, r.preset} \subseteq ValidNames
              /\ store[<<r.device, r.preset>>] \notin {Absent, Broken} =>
                /\ outcome.answer.kind = "PresetData"
                /\ outcome.answer.data = store[<<r.device, r.preset>>]
<1>1. outcome.answer \notin {Waiting, Delivered}
  BY OutcomeType DEF Waiting, Delivered, Answer
<1>2. CASE r.op \in {"SavePreset", "CreatePreset"}
  <2>1. outcome \in SavePreset(store, r.device, r.preset, r.entries, FALSE)
    <3>1. Faults = FALSE
      BY EditorAssumption DEF Careful, Faults, TypeOK, ScreenType
    <3> QED  BY <1>2, <3>1 DEF Outcomes
  <2>2. <<r.device, r.preset>> \in Slots /\ r.entries \in Seq(Mappings)
    BY <1>2 DEF Addressed, OnPreset, Requests
  <2>3. CASE {r.device, r.preset} \subseteq ValidNames
    <3>1. /\ outcome.store = [store EXCEPT ![<<r.device, r.preset>>] = r.entries]
          /\ outcome.answer = Ok
      BY <2>1, <2>3 DEF SavePreset, Outcome
    <3>2. Readable([store EXCEPT ![<<r.device, r.preset>>] = r.entries])
      BY <2>2, <2>3, WrittenReadable
    <3> QED  BY <1>1, <1>2, <3>1, <3>2
  <2>4. CASE ~({r.device, r.preset} \subseteq ValidNames)
    <3>1. outcome.store = store
      BY <2>1, <2>4 DEF SavePreset, Outcome
    <3> QED  BY <1>1, <1>2, <2>4, <3>1
  <2> QED  BY <2>3, <2>4
<1>3. CASE r.op = "DeletePreset"
  <2>1. outcome \in DeletePreset(store, r.device, r.preset, Faults)
    BY <1>3 DEF Outcomes
  <2>2. <<r.device, r.preset>> \in Slots
    BY <1>3 DEF Addressed, OnPreset
  <2>3. Readable([store EXCEPT ![<<r.device, r.preset>>] = Absent])
    BY <2>2, WrittenReadable
  <2>4. \/ outcome.store = store
        \/ /\ outcome.store = [store EXCEPT ![<<r.device, r.preset>>] = Absent]
           /\ outcome.answer = Ok
    BY <2>1 DEF DeletePreset, Outcome
  <2> QED  BY <1>1, <1>3, <2>3, <2>4
<1>4. CASE r.op = "RefreshPresets"
  <2> DEFINE existing == {p \in ToSet(PresetNames) : store[<<r.device, p>>] # Absent}
  <2>1. outcome \in ListPresets(store, r.device)
    BY <1>4 DEF Outcomes
  <2>2. CASE r.device \in ValidNames
    <3>1. outcome \in {Outcome(store, Answer("Presets", list)) :
                            list \in {names \in SetToSeqs(existing) : Sorted(names)}}
      BY <2>1, <2>2 DEF ListPresets
    <3>2. PICK list \in SetToSeqs(existing) : outcome = Outcome(store, Answer("Presets", list))
      BY <3>1
    <3>3. existing \in SUBSET Names
      BY DEF Names
    <3>4. \A i \in DOMAIN list : list[i] \in existing
      <4> HIDE DEF existing
      <4> QED  BY <3>2, <3>3, ListedExist
    <3>5. /\ outcome.store = store /\ outcome.answer.kind = "Presets"
          /\ outcome.answer.data = list
      BY <3>2 DEF Outcome, Answer
    <3> QED  BY <1>1, <1>4, <3>4, <3>5
  <2>3. CASE r.device \notin ValidNames
    <3>1. outcome.store = store
      BY <2>1, <2>3 DEF ListPresets, Outcome
    <3> QED  BY <1>1, <1>4, <2>3, <3>1
  <2> QED  BY <2>2, <2>3
<1>5. CASE r.op = "RefreshEntries"
  <2>1. outcome \in GetPreset(store, r.device, r.preset)
    BY <1>5 DEF Outcomes
  <2>2. /\ outcome.store = store
        /\ outcome.answer = IF {r.device, r.preset} \subseteq ValidNames
                               /\ store[<<r.device, r.preset>>] \notin {Absent, Broken}
                            THEN Answer("PresetData", store[<<r.device, r.preset>>]) ELSE Error
    BY <2>1 DEF GetPreset, Outcome
  <2> QED  BY <1>1, <1>5, <2>2 DEF Answer
<1>6. CASE r.op \in {"RefreshDevices", "RefreshStatus", "ApplyPreset", "Stop"}
  <2>1. outcome.store = store
    BY <1>6 DEF Outcomes, Outcome
  <2> QED  BY <1>1, <1>6, <2>1
<1> QED  BY <1>2, <1>3, <1>4, <1>5, <1>6 DEF Requests, Ops

LEMMA CareServe ==
    ASSUME TypeOK, Careful, Orderly, NEW i \in DOMAIN requests, Serve(i), UNCHANGED setting
    PROVE  Orderly'
<1> DEFINE r == requests[1]
<1>1. /\ requests = <<r>> /\ i = 1 /\ InFlight(r) /\ r \in Requests /\ Addressed(r)
      /\ r.answer # Delivered /\ ~r.served
  <2>1. /\ requests = <<r>> /\ i = 1 /\ InFlight(r) /\ r \in Requests /\ Addressed(r)
    BY Lone
  <2> QED  BY <2>1 DEF Serve, InFlight
<1>2. r.answer = Waiting
  BY <1>1 DEF InFlight
<1>3. PICK outcome \in Outcomes(r) :
        store' = outcome.store /\ requests' = [requests EXCEPT ![1] = With(r, TRUE, outcome.answer)]
  <2>1. PICK outcome \in Outcomes(r) :
            /\ store' = outcome.store
            /\ requests' = IF r.answer = Delivered THEN RemoveAt(requests, 1)
                           ELSE [requests EXCEPT ![1] =
                                    With(@, TRUE, IF @.answer = Waiting THEN outcome.answer
                                                  ELSE @.answer)]
    BY <1>1 DEF Serve
  <2>2. requests' = [requests EXCEPT ![1] = With(r, TRUE, outcome.answer)]
    BY <1>1, <1>2, <2>1
  <2> QED  BY <2>1, <2>2
<1>4. PICK r2 : r2 = With(r, TRUE, outcome.answer)
  OBVIOUS
<1>5. /\ r2.op = r.op /\ r2.device = r.device /\ r2.preset = r.preset
      /\ r2.served = TRUE /\ r2.answer = outcome.answer
  BY <1>4 DEF With
<1>6. requests' = <<r2>>
  <2>1. \A x, y : [<<x>> EXCEPT ![1] = y] = <<y>>
    OBVIOUS
  <2> QED  BY <1>1, <1>3, <1>4, <2>1
<1> HIDE DEF r
<1>7. UNCHANGED <<screen, overlay, lists, mappings>>
  BY DEF Serve
<1>8. /\ device_name' = device_name /\ preset_name' = preset_name /\ Current' = Current
      /\ presets' = presets /\ entries' = entries /\ origin' = origin
      /\ unsaved_changes' = unsaved_changes
  BY <1>7 DEF lists, mappings, device_name, preset_name, Selected, Current
<1>9. DialogHere'
  BY <1>7 DEF Orderly, DialogHere
<1>10. Readable(store) /\ ScreenHere
  BY DEF Orderly
<1>11. Readable(store)'
  <2>1. Readable(outcome.store)
    BY <1>1, <1>10, CareOutcome
  <2> QED  BY <1>3, <2>1 DEF Readable
<1>12. outcome.answer \notin {Waiting, Delivered}
  BY <1>1, <1>10, CareOutcome
<1>13. CASE r.op \in {"RefreshDevices", "RefreshStatus", "ApplyPreset", "Stop"}
  <2>1. store' = store
    BY <1>1, <1>3, <1>10, <1>13, CareOutcome
  <2>2. ScreenHere'
    BY <1>7, <1>8, <1>10, <2>1 DEF ScreenHere
  <2>3. r.op = "ApplyPreset" => origin' = Current' /\ Saved'
    BY <1>1, <1>8, <2>1 DEF InFlight, Saved
  <2>4. r2.op \in OnScreen[screen']
    BY <1>1, <1>5, <1>7 DEF InFlight
  <2>5. InFlight(r2)'
    BY <1>5, <1>12, <1>13, <2>3, <2>4 DEF InFlight
  <2> QED  BY <1>6, <1>9, <1>11, <2>2, <2>5, LoneNext
<1>14. CASE r.op \in {"RefreshPresets", "CreatePreset", "DeletePreset"}
  <2>1. screen = "Presets"
    BY <1>1, <1>14 DEF InFlight, OnScreen, TypeOK, ScreenType
  <2>2. ScreenHere' /\ device_name # None
    BY <1>7, <1>8, <1>10, <2>1 DEF ScreenHere
  <2>3. r.op = "RefreshPresets" =>
            r2.device = device_name' /\ r2.answer.kind = "Presets" /\ Listed(r2.answer.data)'
    <3>1. SUFFICES ASSUME r.op = "RefreshPresets"
                   PROVE  /\ r2.device = device_name' /\ r2.answer.kind = "Presets"
                          /\ Listed(r2.answer.data)'
      OBVIOUS
    <3>2. r.device = device_name /\ device_name \in ValidNames
      BY <1>1, <2>2, <3>1, ValidDevice DEF InFlight
    <3>3. /\ outcome.store = store /\ outcome.answer.kind = "Presets"
          /\ \A j \in DOMAIN outcome.answer.data :
                store[<<device_name, outcome.answer.data[j]>>] # Absent
      BY <1>1, <1>10, <3>1, <3>2, CareOutcome
    <3> QED  BY <1>3, <1>5, <1>8, <3>2, <3>3 DEF Listed
  <2>4. r.op \in {"CreatePreset", "DeletePreset"} /\ r2.answer # Ok => Listed(presets)'
    <3>1. SUFFICES ASSUME r.op \in {"CreatePreset", "DeletePreset"}, r2.answer # Ok
                   PROVE  Listed(presets)'
      OBVIOUS
    <3>2. store' = store
      BY <1>1, <1>3, <1>5, <1>10, <3>1, CareOutcome
    <3>3. Listed(presets)
      BY <1>1, <1>2, <3>1 DEF InFlight, Waiting, Ok, Answer
    <3> QED  BY <1>8, <3>2, <3>3 DEF Listed
  <2>5. r2.op \in OnScreen[screen']
    BY <1>1, <1>5, <1>7 DEF InFlight
  <2>6. InFlight(r2)'
    BY <1>5, <1>12, <1>14, <2>3, <2>4, <2>5 DEF InFlight
  <2> QED  BY <1>6, <1>9, <1>11, <2>2, <2>6, LoneNext
<1>15. CASE r.op \in {"RefreshEntries", "SavePreset"}
  <2>1. screen = "Editor" /\ <<r.device, r.preset>> = Current
    BY <1>1, <1>15 DEF InFlight, OnScreen, TypeOK, ScreenType
  <2>2. Current \in Slots /\ store[Current] # Absent
    BY <1>10, <2>1 DEF ScreenHere
  <2>3. /\ r.device = device_name /\ r.preset = preset_name
    BY <2>1 DEF Current
  <2>4. {r.device, r.preset} \subseteq ValidNames /\ store[Current] \notin {Absent, Broken}
    <3>1. device_name # None
      BY <2>2, Chosen DEF Current, Slots
    <3>2. device_name \in ValidNames
      BY <3>1, ValidDevice
    <3>3. preset_name \in ValidNames /\ store[Current] # Broken
      BY <1>10, <2>2 DEF Readable, Current
    <3> QED  BY <2>2, <2>3, <3>2, <3>3
  <2>5. r2.op \in OnScreen[screen']
    BY <1>1, <1>5, <1>7 DEF InFlight
  <2>6. CASE r.op = "RefreshEntries"
    <3>1. /\ outcome.store = store /\ outcome.answer.kind = "PresetData"
          /\ outcome.answer.data = store[Current]
      BY <1>1, <1>10, <2>1, <2>4, <2>6, CareOutcome
    <3>2. ScreenHere'
      BY <1>3, <1>7, <1>8, <2>1, <2>2, <3>1 DEF ScreenHere
    <3>3. InFlight(r2)'
      BY <1>3, <1>5, <1>8, <1>12, <2>1, <2>5, <2>6, <3>1 DEF InFlight
    <3> QED  BY <1>6, <1>9, <1>11, <3>2, <3>3, LoneNext
  <2>7. CASE r.op = "SavePreset"
    <3>1. outcome.answer = Ok /\ outcome.store = [store EXCEPT ![Current] = r.entries]
      BY <1>1, <1>10, <2>1, <2>4, <2>7, CareOutcome
    <3>2. r.entries = entries /\ origin = Current
      BY <1>1, <2>7 DEF InFlight
    <3>3. store'[Current] = entries
      <4>1. Current \in DOMAIN store
        BY <2>2, NetNow DEF Stores
      <4> QED  BY <1>3, <3>1, <3>2, <4>1
    <3>4. entries # Absent
      BY EditorAssumption DEF TypeOK, EntriesType
    <3>5. ScreenHere'
      BY <1>7, <1>8, <2>1, <2>2, <3>3, <3>4 DEF ScreenHere
    <3>6. InFlight(r2)'
      BY <1>5, <1>8, <1>12, <2>1, <2>5, <2>7, <3>1, <3>2, <3>3 DEF InFlight
    <3> QED  BY <1>6, <1>9, <1>11, <3>5, <3>6, LoneNext
  <2> QED  BY <1>15, <2>6, <2>7
<1> QED  BY <1>1, <1>13, <1>14, <1>15 DEF Requests, Ops

LEMMA OneRemoved ==
    ASSUME NEW r
    PROVE  RemoveAt(<<r>>, 1) = <<>>
<1> DEFINE s == <<r>>
<1>1. s \in Seq({r}) /\ 1 \in DOMAIN s /\ Len(s) = 1
  OBVIOUS
<1> HIDE DEF s
<1>2. RemoveAt(s, 1) \in Seq({r}) /\ Len(RemoveAt(s, 1)) = Len(s) - 1
  BY <1>1, Removed
<1>3. RemoveAt(s, 1) = <<>>
  BY <1>1, <1>2
<1> QED  BY <1>3 DEF s

LEMMA CareResult ==
    ASSUME TypeOK, Careful, Orderly, NEW i \in DOMAIN requests, IpcResult(i)
    PROVE  Orderly'
<1> DEFINE r == requests[1]
<1>1. /\ requests = <<r>> /\ i = 1 /\ InFlight(r) /\ r \in Requests /\ Addressed(r)
  BY Lone
<1>2. UNCHANGED <<store, overlay, screen>>
  BY ResultNet
<1>3. Readable(store)' /\ DialogHere'
  BY <1>2 DEF Orderly, Readable, DialogHere
<1>4. ASSUME NEW ops, NEW kind \in {"Ok", "Error", "Status", "Devices", "Presets", "PresetData"},
             Answered(1, ops, kind)
      PROVE  r.op \in ops /\ r.answer.kind = kind /\ Finished(1) = <<>>
  <2>1. r.op \in ops /\ r.answer.kind = kind
    BY <1>4 DEF Answered
  <2>2. r.answer # Waiting
    BY <2>1 DEF Waiting, Answer
  <2>3. r.served
    BY <1>1, <2>2 DEF InFlight
  <2>4. RemoveAt(<<r>>, 1) = <<>>
    BY OneRemoved
  <2> QED  BY <1>1, <2>1, <2>3, <2>4 DEF Finished
<1> HIDE DEF r
<1>5. Readable(store) /\ ScreenHere /\ screen \in {"Devices", "Presets", "Editor", "Status"}
  BY DEF Orderly, TypeOK, ScreenType
<1>6. r.op \in OnScreen[screen]
  BY <1>1 DEF InFlight
<1>7. CASE DevicesAnswered(1)
  <2>1. r.op = "RefreshDevices" /\ requests' = <<>>
    BY <1>4, <1>7 DEF DevicesAnswered, Finish
  <2>2. screen = "Devices"
    BY <1>5, <1>6, <2>1 DEF OnScreen
  <2> QED  BY <1>2, <1>3, <2>1, <2>2, NoneNext DEF ScreenHere, Settled
<1>8. CASE PresetsAnswered(1)
  <2>1. r.op = "RefreshPresets" /\ requests' = <<>> /\ r.answer.kind = "Presets"
    BY <1>4, <1>8 DEF PresetsAnswered, Finish
  <2>2. screen = "Presets" /\ device_name # None
    BY <1>5, <1>6, <2>1 DEF OnScreen, ScreenHere
  <2>3. Listed(r.answer.data)
    BY <1>1, <2>1 DEF InFlight, Waiting, Answer
  <2>4. presets' = r.answer.data /\ device_name' = device_name
    BY <1>8 DEF PresetsAnswered, device_name, Selected, r
  <2>5. ScreenHere' /\ Settled'
    BY <1>2, <2>2, <2>3, <2>4 DEF ScreenHere, Settled, Listed
  <2> QED  BY <1>3, <2>1, <2>5, NoneNext
<1>9. CASE EntriesAnswered(1)
  <2>1. r.op = "RefreshEntries" /\ requests' = <<>> /\ r.answer.kind = "PresetData"
    BY <1>4, <1>9 DEF EntriesAnswered, Finish
  <2>2. screen = "Editor" /\ Current \in Slots /\ store[Current] # Absent
    BY <1>5, <1>6, <2>1 DEF OnScreen, ScreenHere
  <2>3. r.answer.data = store[Current] /\ <<r.device, r.preset>> = Current
    BY <1>1, <2>1 DEF InFlight, Waiting, Answer
  <2>4. /\ entries' = r.answer.data /\ origin' = <<r.device, r.preset>> /\ UNCHANGED lists
    BY <1>9 DEF EntriesAnswered, r
  <2>5. Current' = Current
    BY <2>4 DEF lists, Current, device_name, preset_name, Selected
  <2>6. ScreenHere' /\ Settled'
    BY <1>2, <2>2, <2>3, <2>4, <2>5 DEF ScreenHere, Settled, Saved
  <2> QED  BY <1>3, <2>1, <2>6, NoneNext
<1>10. CASE SaveAnswered(1)
  <2>1. r.op = "SavePreset" /\ requests' = <<>> /\ r.answer.kind = "Ok"
    BY <1>4, <1>10 DEF SaveAnswered, Finish
  <2>2. screen = "Editor" /\ Current \in Slots /\ store[Current] # Absent
    BY <1>5, <1>6, <2>1 DEF OnScreen, ScreenHere
  <2>3. store[Current] = entries /\ origin = Current
    BY <1>1, <2>1 DEF InFlight, Waiting, Answer
  <2>4. UNCHANGED <<lists, entries, origin>>
    BY <1>10 DEF SaveAnswered
  <2>5. Current' = Current
    BY <2>4 DEF lists, Current, device_name, preset_name, Selected
  <2>6. ScreenHere' /\ Settled'
    BY <1>2, <2>2, <2>3, <2>4, <2>5 DEF ScreenHere, Settled, Saved
  <2> QED  BY <1>3, <2>1, <2>6, NoneNext
<1>11. ASSUME UNCHANGED <<lists, mappings>>
       PROVE  /\ Current' = Current /\ device_name' = device_name /\ ScreenHere'
              /\ Settled => Settled'
  <2>1. Current' = Current /\ device_name' = device_name /\ presets' = presets
    BY <1>11 DEF lists, Current, device_name, preset_name, Selected
  <2> QED  BY <1>2, <1>5, <1>11, <2>1 DEF ScreenHere, Settled, Saved, Listed, mappings
<1>12. CASE ChangeAnswered(1)
  <2>1. UNCHANGED <<lists, mappings>>
    BY <1>12 DEF ChangeAnswered
  <2>2. Finished(1) = <<>> /\ r.op \in {"CreatePreset", "DeletePreset", "Stop"}
    BY <1>4, <1>12 DEF ChangeAnswered
  <2>3. ASSUME NEW r2, New(r2), requests' = <<r2>>,
               \/ r2.op = "RefreshPresets" /\ r2.device = device_name /\ screen = "Presets"
               \/ r2.op = "RefreshStatus" /\ screen = "Status"
        PROVE  Orderly'
    <3>1. r2.op \in OnScreen[screen']
      BY <1>2, <2>3 DEF OnScreen
    <3>2. InFlight(r2)'
      BY <1>11, <2>1, <2>3, <3>1, NewInFlight
    <3> QED  BY <1>3, <1>11, <2>1, <2>3, <3>2, LoneNext
  <2>4. CASE /\ Answered(1, {"CreatePreset", "DeletePreset"}, "Ok")
             /\ Finish(1, Refreshing(Finished(1), "Presets"))
    <3>1. screen = "Presets" /\ device_name # None
      <4>1. r.op \in {"CreatePreset", "DeletePreset"}
        BY <1>4, <2>4
      <4> QED  BY <1>5, <1>6, <4>1 DEF OnScreen, ScreenHere
    <3>2. PICK r2 : New(r2) /\ Loads(r2, "Presets")
                    /\ Refreshing(<<>>, "Presets") = Append(<<>>, r2)
      BY <3>1, RefreshingEffect DEF NothingToLoad
    <3>3. requests' = <<r2>>
      BY <2>2, <2>4, <3>2 DEF Finish
    <3> QED  BY <2>3, <3>1, <3>2, <3>3 DEF Loads
  <2>5. CASE Answered(1, {"Stop"}, "Ok") /\ Finish(1, Refreshing(Finished(1), "Status"))
    <3>1. screen = "Status"
      <4>1. r.op = "Stop"
        BY <1>4, <2>5
      <4> QED  BY <1>5, <1>6, <4>1 DEF OnScreen
    <3>2. PICK r2 : New(r2) /\ Loads(r2, "Status")
                    /\ Refreshing(<<>>, "Status") = Append(<<>>, r2)
      BY RefreshingEffect DEF NothingToLoad
    <3>3. requests' = <<r2>>
      BY <2>2, <2>5, <3>2 DEF Finish
    <3> QED  BY <2>3, <3>1, <3>2, <3>3 DEF Loads
  <2> QED  BY <1>12, <2>4, <2>5 DEF ChangeAnswered
<1>13. CASE OtherAnswered(1)
  <2>1. UNCHANGED <<lists, mappings>> /\ requests' = <<>>
    BY <1>4, <1>13 DEF OtherAnswered, Finish
  <2>2. \/ r.answer.kind = "Error"
        \/ r.op = "RefreshStatus"
        \/ r.op = "ApplyPreset"
    BY <1>4, <1>13 DEF OtherAnswered
  <2>3. r.answer.kind \in {"Error", "Status", "Ok"}
    BY <1>4, <1>13 DEF OtherAnswered
  <2>4. r.served
    BY <1>1, <2>3 DEF InFlight, Waiting, Answer
  <2>5. Settled
    <3>1. CASE screen = "Presets"
      <4>1. r.op \in {"CreatePreset", "DeletePreset"} /\ r.answer # Ok
        BY <1>1, <1>6, <2>2, <2>3, <2>4, <3>1 DEF InFlight, OnScreen, Ok, Answer
      <4> QED  BY <1>1, <3>1, <4>1 DEF InFlight, Settled
    <3>2. CASE screen = "Editor"
      <4>1. r.op = "ApplyPreset"
        BY <1>1, <1>6, <2>2, <2>3, <2>4, <3>2 DEF InFlight, OnScreen, Ok, Answer
      <4> QED  BY <1>1, <3>2, <4>1 DEF InFlight, Settled
    <3> QED  BY <3>1, <3>2 DEF Settled
  <2> QED  BY <1>3, <1>11, <2>1, <2>5, NoneNext
<1> QED  BY <1>1, <1>7, <1>8, <1>9, <1>10, <1>12, <1>13 DEF IpcResult

-----------------------------------------------------------------------------
(* The steps together.                                                     *)

(* The end of a recording at most closes the dialog.                       *)
LEMMA CareSame ==
    ASSUME Orderly, UNCHANGED <<screen, lists, mappings, net, store>>,
           overlay' \in {overlay, NoOverlay}
    PROVE  Orderly'
<1>1. /\ Readable(store)' /\ ScreenHere' /\ Current' = Current /\ presets' = presets
      /\ device_name' = device_name
  BY SamePlace
<1>2. DialogHere'
  BY DEF Orderly, DialogHere, NoOverlay
<1>3. requests' = requests /\ Settled' = Settled
  BY <1>1 DEF Settled, Listed, Saved, mappings, net
<1>4. InFlight(requests[1])' = InFlight(requests[1])
  BY <1>1, <1>3 DEF InFlight, Listed, Saved, mappings
<1> QED  BY <1>1, <1>2, <1>3, <1>4 DEF Orderly

LEMMA CareStep ==
    ASSUME TypeOK, SelectionValid, DialogInv, CareShape, [Next]_vars
    PROVE  CareShape'
<1>1. Careful' = Careful
  BY DEF Next, vars, Careful, Patient, Faults, DeviceLists, Readable
<1>2. SUFFICES ASSUME Careful
               PROVE  Orderly'
  BY <1>1 DEF CareShape
<1>3. Orderly /\ Patient /\ ~Faults
  BY <1>2 DEF CareShape, Careful
<1>4. Waits
  BY <1>3, NetNow, WaitNow DEF DialogInv
<1>5. CASE Key
  BY <1>3, <1>4, <1>5, CareKey
<1>6. CASE handle_record_error \/ handle_record_stopped \/ UNCHANGED vars
  <2>1. UNCHANGED <<screen, lists, mappings, net, store>> /\ overlay' \in {overlay, NoOverlay}
    BY <1>6 DEF handle_record_error, handle_record_stopped, vars
  <2> QED  BY <1>3, <2>1, CareSame
<1>7. ASSUME NEW i \in DOMAIN requests, Serve(i) \/ GiveUp(i) \/ IpcResult(i), UNCHANGED setting
      PROVE  Orderly'
  BY <1>2, <1>3, <1>7, CareServe, CareResult DEF GiveUp
<1> QED  BY <1>5, <1>6, <1>7 DEF Next

LEMMA CareInit ==
    ASSUME Init
    PROVE  CareShape
<1>1. SUFFICES ASSUME Careful
               PROVE  Orderly
  BY DEF CareShape
<1>2. Readable(store) /\ DialogHere /\ ScreenHere
  BY <1>1 DEF Init, Careful, Readable, DialogHere, ScreenHere, NoOverlay
<1> DEFINE r == Request("RefreshDevices", None, None, <<>>)
<1>3. requests = <<r>> /\ screen = "Devices"
  BY DEF Init
<1>4. r.op = "RefreshDevices" /\ r.served = FALSE /\ r.answer = Waiting /\ Waiting # Delivered
  BY DEF Request, Waiting, Delivered, Answer
<1> HIDE DEF r
<1>5. InFlight(r)
  BY <1>3, <1>4 DEF InFlight, OnScreen
<1>6. Len(requests) = 1 /\ requests[1] = r
  BY <1>3
<1> QED  BY <1>2, <1>5, <1>6 DEF Orderly

LEMMA CareAlways == Spec => []CareShape
<1>1. Init => CareShape
  BY CareInit
<1>2. (TypeOK /\ SelectionValid) /\ DialogInv /\ CareShape /\ [Next]_vars => CareShape'
  BY CareStep
<1> QED  BY <1>1, <1>2, TypeAlways, DialogInvariant, PTL DEF Spec

(* A user who waits has one request in flight at most and dialogs about    *)
(* what is selected; if moreover nothing fails, what is in flight is about *)
(* what is shown, and the editor never shows the entries of one preset     *)
(* under another's name (loading, overlay and entries in app.rs).          *)
THEOREM EditorInvariant == Spec => []EditorInv
<1>1. TypeOK /\ DialogInv /\ CareShape => EditorInv
  BY DEF EditorInv, DialogInv
<1> QED  BY <1>1, TypeCorrect, DialogInvariant, CareAlways, PTL

(* What such a user sees as saved is in the file (unsaved_changes, app.rs; *)
(* save_preset, manager.rs).                                               *)
THEOREM SavedIsSaved == Spec => []SavedMeansSaved
<1>1. CareShape => SavedMeansSaved
  <2>1. ASSUME Careful, Orderly, screen = "Editor", ~unsaved_changes, requests = <<>>
        PROVE  store[Current] = entries
    <3>1. Len(requests) # 1
      BY <2>1
    <3> QED  BY <2>1, <3>1 DEF Orderly, Settled, Saved
  <2> QED  BY <2>1 DEF CareShape, SavedMeansSaved, Current
<1> QED  BY <1>1, CareAlways, PTL

(* And it is saved to the preset it was loaded from (save_preset, app.rs). *)
THEOREM SavesWhereItBelongs == Spec => SavesOwnPreset
<1>1. /\ TypeOK /\ DialogInv /\ CareShape /\ [Next]_vars
      => (Careful /\ NewRequest /\ Last(requests').op = "SavePreset" =>
            <<Last(requests').device, Last(requests').preset>> = origin)
  <2>1. ASSUME TypeOK, DialogInv, Orderly, [Next]_vars, Patient, NewRequest,
               Last(requests').op = "SavePreset"
        PROVE  <<Last(requests').device, Last(requests').preset>> = origin
    <3>1. \A i : ~Follows(Last(requests'), i)
      BY <2>1 DEF Follows
    <3>2. Key /\ Purpose(Last(requests'))
      BY <2>1, <3>1, Sent DEF Sends
    <3>3. Waits
      BY <2>1, NetNow, WaitNow DEF DialogInv
    <3>4. Settled
      BY <2>1, <3>2, <3>3, KeyAlone
    <3>5. /\ save_preset /\ Last(requests').device = device_name
          /\ Last(requests').preset = preset_name
      BY <2>1, <3>2 DEF Purpose
    <3>6. screen = "Editor"
      BY <3>5 DEF save_preset
    <3> QED  BY <3>4, <3>5, <3>6 DEF Settled, Current
  <2> QED  BY <2>1 DEF CareShape, Careful
<1>2. TypeOK /\ SelectionValid => TypeOK
  OBVIOUS
<1> QED  BY <1>1, <1>2, TypeAlways, DialogInvariant, CareAlways, PTL DEF Spec, SavesOwnPreset
=============================================================================

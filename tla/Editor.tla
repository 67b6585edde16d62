------------------------------- MODULE Editor -------------------------------
(***************************************************************************)
(* The terminal UI: its screens, dialogs and lists, the requests it sends  *)
(* from a thread each, and the presets it edits (src/tui/app.rs,           *)
(* src/ipc/client.rs, src/daemon/manager.rs).  Indexes count from 1.  The  *)
(* injections that the status screen lists, and what recording does to     *)
(* them, are left out; so are messages and the text of queries.            *)
(***************************************************************************)
EXTENDS PresetStore

CONSTANTS
    Keys,         \* keys that preset files may have mappings for
    Codes,        \* keys that may be recorded
    Symbols,      \* chains that may be built in the symbol search
    Renamings,    \* names a mapping may be given
    None,         \* None, of any type
    Settings      \* the circumstances to check: a set of records, see setting

Mapping(input, output, name) == [input |-> input, output |-> output, name |-> name]
Mappings == [input : Keys, output : Symbols \cup {None}, name : Keys \cup Renamings]
Stores == [Slots -> Seq(Mappings) \cup {Absent, Broken}]

ASSUME EditorAssumption ==
    /\ None \notin Devices \cup ToSet(PresetNames) \cup Keys \cup Symbols
    /\ Absent \notin Seq(Mappings) /\ Broken \notin Seq(Mappings)
    /\ Codes \subseteq Keys /\ PresetNames \in Seq(ToSet(PresetNames))
    /\ \A s \in Settings :
        /\ {s.patient, s.faults} \subseteq BOOLEAN
        /\ {s.requests, s.changes, s.recorders} \subseteq Nat
        /\ s.lists \subseteq Seq(Devices)
        /\ s.names \subseteq ToSet(PresetNames)  \* names the user types
        /\ s.store \in Stores                   \* preset files at the start

VARIABLES
    screen, overlay, should_quit,
    devices, selected_device, presets, selected_preset,
    entries, selected_entry, unsaved_changes,
    loading,    \* whether a "Loading..." message is shown
    requests,   \* requests of threads, in the order they were sent
    recorders,  \* recording threads that have not ended
    store,      \* the preset files
    origin,     \* the slot the entries were loaded from (history)
    changes,    \* changes so far (for MaxChanges)
    setting     \* the circumstances, which never change

Patient == setting.patient          \* the user presses no key while "loading" is shown
Faults == setting.faults            \* requests may time out, and the disk may be full
DeviceLists == setting.lists        \* what list-devices may answer
MaxRequests == setting.requests     \* bound: requests in flight when the user sends one
MaxChanges == setting.changes       \* bound: changes to entries, presets created or deleted
MaxRecorders == setting.recorders   \* bound: recording threads

lists == <<devices, selected_device, presets, selected_preset>>
mappings == <<entries, selected_entry, unsaved_changes, origin>>
net == <<loading, requests>>
vars == <<screen, overlay, should_quit, lists, mappings, net, recorders, store, changes,
          setting>>

Selected(list, i) == IF i \in DOMAIN list THEN list[i] ELSE None
device_name == Selected(devices, selected_device)
preset_name == Selected(presets, selected_preset)

NoOverlay == [kind |-> "none"]
Confirm(action, named) == [kind |-> "confirm", action |-> action, named |-> named]

(* A request, the thread that waits for its answer, and the message of the *)
(* thread until it is received.  What was served needs no entries any more.*)
Waiting == Answer("Waiting", <<>>)
Delivered == Answer("Delivered", <<>>)
Request(op, device, preset, content) ==
    [op |-> op, device |-> device, preset |-> preset, entries |-> content,
     served |-> FALSE, answer |-> Waiting]
With(r, served, answer) ==
    [op |-> r.op, device |-> r.device, preset |-> r.preset,
     entries |-> IF served THEN <<>> ELSE r.entries, served |-> served, answer |-> answer]

Init ==
    /\ screen = "Devices" /\ overlay = NoOverlay /\ should_quit = FALSE
    /\ devices = <<>> /\ selected_device = 1
    /\ presets = <<>> /\ selected_preset = 1
    /\ entries = <<>> /\ selected_entry = 1
    /\ unsaved_changes = FALSE
    /\ loading = TRUE
    /\ requests = <<Request("RefreshDevices", None, None, <<>>)>>
    /\ recorders = 0
    /\ origin = <<None, None>>
    /\ changes = 0
    /\ setting \in Settings
    /\ store = setting.store

-----------------------------------------------------------------------------
(* refresh_devices, refresh_presets, refresh_entries, refresh_status: what *)
(* they add to the requests.                                               *)
Refreshing(rs, s) ==
    CASE s = "Devices" -> Append(rs, Request("RefreshDevices", None, None, <<>>))
      [] s = "Presets" ->
            IF device_name = None THEN rs
            ELSE Append(rs, Request("RefreshPresets", device_name, None, <<>>))
      [] s = "Editor" ->
            IF None \in {device_name, preset_name} THEN rs
            ELSE Append(rs, Request("RefreshEntries", device_name, preset_name, <<>>))
      [] s = "Status" -> Append(rs, Request("RefreshStatus", None, None, <<>>))

(* spawn_ipc; every caller shows that it is loading.                       *)
Call(rs) ==
    /\ Len(rs) > Len(requests) => Len(requests) < MaxRequests
    /\ requests' = rs
    /\ loading' = (loading \/ rs # requests)

Spawn(op, device, preset, content) ==
    Call(Append(requests, Request(op, device, preset, content)))

Change == changes < MaxChanges /\ changes' = changes + 1

switch_screen(s) == screen' = s /\ Call(Refreshing(requests, s))

-----------------------------------------------------------------------------
(* Keys outside of overlays.                                               *)
Listens == ~should_quit /\ (Patient => ~loading)
Normal == Listens /\ overlay = NoOverlay

CtrlC ==
    /\ Normal
    /\ should_quit' = TRUE
    /\ UNCHANGED <<screen, overlay, lists, mappings, net, recorders, store, changes>>

Quit ==
    /\ Normal
    /\ IF unsaved_changes
       THEN overlay' = Confirm("Quit", None) /\ UNCHANGED should_quit
       ELSE should_quit' = TRUE /\ UNCHANGED overlay
    /\ UNCHANGED <<screen, lists, mappings, net, recorders, store, changes>>

Tab ==
    /\ Normal
    /\ switch_screen(IF screen = "Status" THEN "Devices" ELSE "Status")
    /\ UNCHANGED <<overlay, should_quit, lists, mappings, recorders, store, changes>>

Esc ==
    /\ Normal /\ screen \in {"Editor", "Presets"}
    /\ IF screen = "Editor" /\ unsaved_changes
       THEN overlay' = Confirm("LeaveEditor", None) /\ UNCHANGED <<screen, net>>
       ELSE switch_screen("Devices") /\ UNCHANGED overlay
    /\ UNCHANGED <<should_quit, lists, mappings, recorders, store, changes>>

(* Up and Down.                                                            *)
Moved(i, list) == {j \in {i - 1, i + 1} : 1 <= j /\ (j > i => j <= Len(list))}

Move ==
    /\ Normal
    /\ \/ /\ screen = "Devices"
          /\ selected_device' \in Moved(selected_device, devices)
          /\ UNCHANGED <<selected_preset, selected_entry>>
       \/ /\ screen = "Presets"
          /\ selected_preset' \in Moved(selected_preset, presets)
          /\ UNCHANGED <<selected_device, selected_entry>>
       \/ /\ screen = "Editor"
          /\ selected_entry' \in Moved(selected_entry, entries)
          /\ UNCHANGED <<selected_device, selected_preset>>
    /\ UNCHANGED <<screen, overlay, should_quit, devices, presets, entries,
                   unsaved_changes, origin, changes, net, recorders, store>>

(* Variant of Enter: the editor is shown without loading the entries.      *)
EnterWithoutLoading ==
    /\ Normal
    /\ \/ screen = "Devices" /\ devices # <<>> /\ switch_screen("Presets")
       \/ screen = "Presets" /\ presets # <<>> /\ screen' = "Editor" /\ UNCHANGED net
    /\ UNCHANGED <<overlay, should_quit, lists, mappings, recorders, store, changes>>

(* Enter on a device or a preset.                                          *)
Enter ==
    /\ Normal
    /\ \/ screen = "Devices" /\ devices # <<>> /\ switch_screen("Presets")
       \/ screen = "Presets" /\ presets # <<>> /\ switch_screen("Editor")
    /\ UNCHANGED <<overlay, should_quit, lists, mappings, recorders, store, changes>>

(* r, on all screens but the editor.                                       *)
Reload ==
    /\ Normal /\ screen # "Editor"
    /\ Call(Refreshing(requests, screen))
    /\ UNCHANGED <<screen, overlay, should_quit, lists, mappings, recorders, store,
                   changes>>

(* Variant of AskPreset: the dialog names the first preset.                *)
AskFirstPreset ==
    /\ Normal /\ screen = "Presets"
    /\ \/ overlay' = [kind |-> "input", action |-> "NewPreset"]
       \/ /\ presets # <<>>
          /\ overlay' = Confirm("DeletePreset", presets[1])
    /\ UNCHANGED <<screen, should_quit, lists, mappings, net, recorders, store, changes>>

(* n and d on the presets.                                                 *)
AskPreset ==
    /\ Normal /\ screen = "Presets"
    /\ \/ overlay' = [kind |-> "input", action |-> "NewPreset"]
       \/ /\ presets # <<>>
          /\ overlay' = Confirm("DeletePreset", preset_name)
    /\ UNCHANGED <<screen, should_quit, lists, mappings, net, recorders, store, changes>>

(* Enter, d and n on a mapping.                                            *)
SymbolSearch(symbol, input) == [kind |-> "symbols", slots |-> symbol, named |-> input]

AskEntry ==
    /\ Normal /\ screen = "Editor" /\ entries # <<>>
    /\ LET entry == entries[selected_entry]
       IN  overlay' \in {SymbolSearch(entry.output, entry.input),
                         Confirm("DeleteMapping", entry.input),
                         [kind |-> "input", action |-> "RenameMapping",
                          index |-> selected_entry, named |-> entry.input]}
    /\ UNCHANGED <<screen, should_quit, lists, mappings, net, recorders, store, changes>>

(* s and p in the editor.                                                  *)
save_preset ==
    /\ Normal /\ screen = "Editor" /\ None \notin {device_name, preset_name}
    /\ Spawn("SavePreset", device_name, preset_name, entries)
    /\ UNCHANGED <<screen, overlay, should_quit, lists, mappings, recorders, store,
                   changes>>

apply_preset ==
    /\ Normal /\ screen = "Editor" /\ None \notin {device_name, preset_name}
    /\ Spawn("ApplyPreset", device_name, preset_name, <<>>)
    /\ UNCHANGED <<screen, overlay, should_quit, lists, mappings, recorders, store,
                   changes>>

(* s and S on the status screen: Stop stands for StopInjection and StopAll. *)
StopInjections ==
    /\ Normal /\ screen = "Status"
    /\ Spawn("Stop", None, None, <<>>)
    /\ UNCHANGED <<screen, overlay, should_quit, lists, mappings, recorders, store,
                   changes>>

(* a in the editor.                                                        *)
start_recording ==
    /\ Normal /\ screen = "Editor" /\ device_name # None
    /\ recorders < MaxRecorders
    /\ overlay' = [kind |-> "record"]
    /\ recorders' = recorders + 1
    /\ UNCHANGED <<screen, should_quit, lists, mappings, net, store, changes>>

-----------------------------------------------------------------------------
(* Keys in overlays.                                                       *)
(* Variant of Edit: nothing tells that there are changes.                  *)
EditQuietly(changed) ==
    /\ Change
    /\ entries' = changed
    /\ UNCHANGED <<unsaved_changes, origin>>

(* What every change to the entries does.                                  *)
Edit(changed) ==
    /\ Change
    /\ entries' = changed
    /\ unsaved_changes' = TRUE
    /\ UNCHANGED origin

CloseOverlay ==
    /\ Listens /\ overlay.kind \in {"record", "confirm", "input"}
    /\ overlay' = NoOverlay
    /\ UNCHANGED <<screen, should_quit, lists, mappings, net, recorders, store, changes>>

(* Enter on a recorded key.                                                *)
Recorded ==
    /\ Listens /\ overlay.kind = "record"
    /\ \E code \in Codes :
        /\ Edit(Append(entries, Mapping(code, None, code)))
        /\ overlay' = SymbolSearch(None, code)
    /\ selected_entry' = Len(entries) + 1
    /\ UNCHANGED <<screen, should_quit, lists, net, recorders, store>>

(* The keys that build a chain.                                            *)
BuildChain ==
    /\ Listens /\ overlay.kind = "symbols"
    /\ \E symbol \in Symbols \cup {None} : overlay' = SymbolSearch(symbol, overlay.named)
    /\ UNCHANGED <<screen, should_quit, lists, mappings, net, recorders, store, changes>>

(* Variant of SaveChain: the chain goes to the last mapping.               *)
SaveChainLast ==
    /\ Listens /\ overlay.kind = "symbols"
    /\ overlay' = NoOverlay
    /\ IF overlay.slots # None /\ entries # <<>>
       THEN Edit([entries EXCEPT ![Len(entries)].output = overlay.slots])
       ELSE UNCHANGED <<entries, unsaved_changes, origin, changes>>
    /\ UNCHANGED <<screen, should_quit, selected_entry, lists, net, recorders, store>>

(* Esc keeps the chain.                                                    *)
SaveChain ==
    /\ Listens /\ overlay.kind = "symbols"
    /\ overlay' = NoOverlay
    /\ IF overlay.slots # None /\ selected_entry \in DOMAIN entries
       THEN Edit([entries EXCEPT ![selected_entry].output = overlay.slots])
       ELSE UNCHANGED <<entries, unsaved_changes, origin, changes>>
    /\ UNCHANGED <<screen, should_quit, selected_entry, lists, net, recorders, store>>

(* handle_text_input_submit and handle_confirm, below: when there is       *)
(* nothing to act on the overlay just closes, as in CloseOverlay.          *)
CreatePreset ==
    /\ Listens /\ overlay.kind = "input" /\ overlay.action = "NewPreset"
    /\ overlay' = NoOverlay
    /\ device_name # None
    /\ \E name \in setting.names : Spawn("CreatePreset", device_name, name, <<>>)
    /\ Change
    /\ UNCHANGED <<screen, should_quit, lists, mappings, recorders, store>>

RenameMapping ==
    /\ Listens /\ overlay.kind = "input" /\ overlay.action = "RenameMapping"
    /\ overlay' = NoOverlay
    /\ overlay.index \in DOMAIN entries
    /\ \E name \in Renamings : Edit([entries EXCEPT ![overlay.index].name = name])
    /\ UNCHANGED <<screen, should_quit, selected_entry, lists, net, recorders, store>>

(* handle_confirm.                                                         *)
Confirmed(action) ==
    /\ Listens /\ overlay.kind = "confirm" /\ overlay.action = action
    /\ overlay' = NoOverlay

ConfirmDeletePreset ==
    /\ Confirmed("DeletePreset")
    /\ None \notin {device_name, preset_name}
    /\ Spawn("DeletePreset", device_name, preset_name, <<>>)
    /\ Change
    /\ UNCHANGED <<screen, should_quit, lists, mappings, recorders, store>>

(* Variant of ConfirmDeleteMapping: the selection is left where it was.    *)
DeleteKeepingSelection ==
    /\ Confirmed("DeleteMapping")
    /\ selected_entry \in DOMAIN entries
    /\ Edit(RemoveAt(entries, selected_entry))
    /\ UNCHANGED <<screen, should_quit, selected_entry, lists, net, recorders, store>>

ConfirmDeleteMapping ==
    /\ Confirmed("DeleteMapping")
    /\ selected_entry \in DOMAIN entries
    /\ Edit(RemoveAt(entries, selected_entry))
    /\ selected_entry' = IF selected_entry > 1 /\ selected_entry = Len(entries)
                         THEN selected_entry - 1 ELSE selected_entry
    /\ UNCHANGED <<screen, should_quit, lists, net, recorders, store>>

ConfirmLeaveEditor ==
    /\ Confirmed("LeaveEditor")
    /\ unsaved_changes' = FALSE
    /\ switch_screen("Devices")
    /\ UNCHANGED <<should_quit, lists, entries, selected_entry, origin, changes,
                   recorders, store>>

ConfirmQuit ==
    /\ Confirmed("Quit")
    /\ should_quit' = TRUE
    /\ UNCHANGED <<screen, lists, mappings, net, recorders, store, changes>>

-----------------------------------------------------------------------------
(* A recording thread ends.  Its errors close whatever overlay is open.    *)
handle_record_error ==
    /\ ~should_quit /\ recorders > 0
    /\ recorders' = recorders - 1
    /\ overlay' = NoOverlay
    /\ UNCHANGED <<screen, should_quit, lists, mappings, net, store, changes>>

handle_record_stopped ==
    /\ ~should_quit /\ recorders > 0
    /\ recorders' = recorders - 1
    /\ UNCHANGED <<screen, overlay, should_quit, lists, mappings, net, store, changes>>

-----------------------------------------------------------------------------
(* The daemon handles request i, in any order.                             *)
Outcomes(r) ==
    CASE r.op = "RefreshDevices" ->
            {Outcome(store, Answer("Devices", list)) : list \in DeviceLists}
      [] r.op = "RefreshPresets" -> ListPresets(store, r.device)
      [] r.op = "RefreshEntries" -> GetPreset(store, r.device, r.preset)
      [] r.op \in {"SavePreset", "CreatePreset"} ->
            SavePreset(store, r.device, r.preset, r.entries, Faults)
      [] r.op = "DeletePreset" -> DeletePreset(store, r.device, r.preset, Faults)
      [] r.op = "RefreshStatus" -> {Outcome(store, Answer("Status", <<>>))}
      [] r.op \in {"ApplyPreset", "Stop"} ->
            {Outcome(store, Ok), Outcome(store, Error)}

Serve(i) ==
    /\ ~requests[i].served
    /\ \E outcome \in Outcomes(requests[i]) :
        /\ store' = outcome.store
        /\ requests' =
            IF requests[i].answer = Delivered THEN RemoveAt(requests, i)
            ELSE [requests EXCEPT ![i] =
                    With(@, TRUE, IF @.answer = Waiting THEN outcome.answer ELSE @.answer)]
    /\ UNCHANGED <<screen, overlay, should_quit, lists, mappings, loading,
                   recorders, changes>>

(* The client's thread gives up: it could not connect, or it timed out     *)
(* and the daemon may still handle the request.                            *)
GiveUp(i) ==
    /\ Faults /\ requests[i].answer = Waiting
    /\ \E reached \in BOOLEAN :
        requests' = [requests EXCEPT ![i] = With(@, ~reached, Error)]
    /\ UNCHANGED <<screen, overlay, should_quit, lists, mappings, loading,
                   recorders, store, changes>>

-----------------------------------------------------------------------------
(* handle_ipc_result.                                                      *)
Answered(i, ops, kind) ==
    /\ ~should_quit
    /\ requests[i].op \in ops /\ requests[i].answer.kind = kind
Finished(i) == IF requests[i].served THEN RemoveAt(requests, i)
               ELSE [requests EXCEPT ![i] = With(@, FALSE, Delivered)]
(* loading = None, then what a follow-up request sets it to.               *)
Finish(i, following) == requests' = following /\ loading' = (following # Finished(i))

DevicesAnswered(i) ==
    /\ Answered(i, {"RefreshDevices"}, "Devices")
    /\ devices' = requests[i].answer.data /\ selected_device' = 1
    /\ Finish(i, Finished(i))
    /\ UNCHANGED <<screen, overlay, should_quit, presets, selected_preset, mappings,
                   recorders, store, changes>>

PresetsAnswered(i) ==
    /\ Answered(i, {"RefreshPresets"}, "Presets")
    /\ presets' = requests[i].answer.data /\ selected_preset' = 1
    /\ Finish(i, Finished(i))
    /\ UNCHANGED <<screen, overlay, should_quit, devices, selected_device, mappings,
                   recorders, store, changes>>

EntriesAnswered(i) ==
    /\ Answered(i, {"RefreshEntries"}, "PresetData")
    /\ entries' = requests[i].answer.data /\ selected_entry' = 1
    /\ unsaved_changes' = FALSE
    /\ origin' = <<requests[i].device, requests[i].preset>>
    /\ Finish(i, Finished(i))
    /\ UNCHANGED <<screen, overlay, should_quit, lists, changes, recorders, store>>

SaveAnswered(i) ==
    /\ Answered(i, {"SavePreset"}, "Ok")
    /\ unsaved_changes' = FALSE
    /\ Finish(i, Finished(i))
    /\ UNCHANGED <<screen, overlay, should_quit, lists, entries, selected_entry,
                   origin, changes,
                   recorders, store>>

(* A preset was created or deleted, injections were stopped: the lists are *)
(* loaded again.                                                           *)
ChangeAnswered(i) ==
    /\ \/ /\ Answered(i, {"CreatePreset", "DeletePreset"}, "Ok")
          /\ Finish(i, Refreshing(Finished(i), "Presets"))
       \/ /\ Answered(i, {"Stop"}, "Ok")
          /\ Finish(i, Refreshing(Finished(i), "Status"))
    /\ UNCHANGED <<screen, overlay, should_quit, lists, mappings, recorders, store,
                   changes>>

Ops == {"RefreshDevices", "RefreshPresets", "RefreshEntries", "RefreshStatus", "SavePreset",
        "ApplyPreset", "Stop", "CreatePreset", "DeletePreset"}
(* Variant of OtherAnswered: loading is only cleared by a success.         *)
OtherKeepingLoading(i) ==
    /\ \/ Answered(i, Ops, "Error") \/ Answered(i, {"RefreshStatus"}, "Status")
       \/ Answered(i, {"ApplyPreset"}, "Ok")
    /\ requests' = Finished(i)
    /\ loading' = (loading /\ requests[i].answer.kind = "Error")
    /\ UNCHANGED <<screen, overlay, should_quit, lists, mappings, recorders, store,
                   changes>>

(* All other answers only show a message, or nothing.                      *)
OtherAnswered(i) ==
    /\ \/ Answered(i, Ops, "Error") \/ Answered(i, {"RefreshStatus"}, "Status")
       \/ Answered(i, {"ApplyPreset"}, "Ok")
    /\ Finish(i, Finished(i))
    /\ UNCHANGED <<screen, overlay, should_quit, lists, mappings, recorders, store,
                   changes>>

-----------------------------------------------------------------------------
Key ==
    \/ CtrlC \/ Quit \/ Tab \/ Esc \/ Move \/ Enter \/ Reload \/ AskPreset \/ AskEntry
    \/ save_preset \/ apply_preset \/ StopInjections \/ start_recording
    \/ CloseOverlay \/ Recorded \/ BuildChain \/ SaveChain \/ CreatePreset \/ RenameMapping
    \/ ConfirmDeletePreset \/ ConfirmDeleteMapping \/ ConfirmLeaveEditor \/ ConfirmQuit

IpcResult(i) ==
    \/ DevicesAnswered(i) \/ PresetsAnswered(i) \/ EntriesAnswered(i) \/ SaveAnswered(i)
    \/ ChangeAnswered(i) \/ OtherAnswered(i)

Next ==
    /\ \/ Key
       \/ handle_record_error \/ handle_record_stopped
       \/ \E i \in DOMAIN requests : Serve(i) \/ GiveUp(i) \/ IpcResult(i)
    /\ UNCHANGED setting

Spec == Init /\ [][Next]_vars

-----------------------------------------------------------------------------
(* Properties.                                                             *)

Names == ToSet(PresetNames)
Answers ==
    [kind : {"Waiting", "Delivered", "Ok", "Error", "Status"}, data : {<<>>}]
    \cup [kind : {"Devices"}, data : DeviceLists]
    \cup [kind : {"Presets"}, data : Seq(Names)] \cup [kind : {"PresetData"}, data : Seq(Mappings)]
Requests == [op : Ops, device : Devices \cup {None}, preset : Names \cup {None},
             entries : Seq(Mappings), served : BOOLEAN, answer : Answers]
OnPreset == {"RefreshEntries", "SavePreset", "ApplyPreset", "CreatePreset", "DeletePreset"}
Addressed(r) ==
    /\ r.op = "RefreshPresets" => r.device \in Devices
    /\ r.op \in OnPreset => <<r.device, r.preset>> \in Slots

ScreenType ==
    /\ screen \in {"Devices", "Presets", "Editor", "Status"}
    /\ overlay.kind \in {"none", "record", "symbols", "input", "confirm"}
    /\ overlay.kind = "symbols" => overlay.slots \in Symbols \cup {None}
    /\ should_quit \in BOOLEAN
    /\ recorders \in Nat /\ changes \in Nat /\ setting \in Settings
ListsType ==
    /\ devices \in DeviceLists \cup {<<>>} /\ selected_device \in Nat \ {0}
    /\ presets \in Seq(Names) /\ selected_preset \in Nat \ {0}
EntriesType ==
    /\ entries \in Seq(Mappings) /\ selected_entry \in Nat \ {0}
    /\ unsaved_changes \in BOOLEAN
    /\ origin \in Slots \cup {<<None, None>>}
NetType ==
    /\ requests \in Seq(Requests) /\ \A i \in DOMAIN requests : Addressed(requests[i])
    /\ store \in Stores
    /\ loading \in BOOLEAN

(* The types of App's fields; selections count from 1 and never leave the  *)
(* numbers that usize has, however far Up is pressed.                      *)
TypeOK == ScreenType /\ ListsType /\ EntriesType /\ NetType

(* What is drawn and indexed as selected exists, whatever answers come in  *)
(* whatever order: the code indexes entries and presets without a check,   *)
(* and a dialog is only about an entry if there are entries.               *)
InRange(list, i) == list = <<>> \/ i \in DOMAIN list
SelectionValid ==
    /\ InRange(devices, selected_device)
    /\ InRange(presets, selected_preset)
    /\ InRange(entries, selected_entry)

(* The UI never shows that it is loading for ever: some answer that clears *)
(* the message is still to come.                                           *)
LoadingJustified ==
    loading => \E i \in DOMAIN requests : requests[i].answer.kind # "Delivered"

(* The user waits, and nothing fails: no request is lost, no disk is full, *)
(* and every device and preset that is listed can be loaded.               *)
Readable(files) ==
    \A slot \in Slots :
        files[slot] # Absent => slot[2] \in ValidNames /\ files[slot] # Broken
Careful ==
    /\ Patient /\ ~Faults
    /\ \A list \in DeviceLists : ToSet(list) \subseteq ValidNames
    /\ Readable(setting.store)

(* When nothing is in flight and no unsaved changes are shown, the file of *)
(* the preset that the editor shows is what the editor shows.              *)
SavedMeansSaved ==
    /\ Careful
    /\ screen = "Editor" /\ ~unsaved_changes /\ requests = <<>>
    /\ None \notin {device_name, preset_name}
    =>  store[<<device_name, preset_name>>] = entries

NewRequest == Len(requests') > Len(requests)

(* Entries are saved to the preset they were loaded from.                  *)
SavesOwnPreset ==
    [][Careful /\ NewRequest /\ Last(requests').op = "SavePreset" =>
        <<Last(requests').device, Last(requests').preset>> = origin]_vars

(* The preset that is deleted is the one the dialog names, if the user     *)
(* waited while loading was shown; and the same for any user.              *)
DeletesItsName == NewRequest /\ Last(requests').op = "DeletePreset" =>
                     Last(requests').preset = overlay.named
PatientDeletesTheNamed == [][Patient => DeletesItsName]_vars
DeletesTheNamed == [][DeletesItsName]_vars

(* A dialog about a mapping changes the mapping it was opened for.         *)
EditsTheNamed ==
    [][Patient /\ entries' # entries /\ overlay # NoOverlay /\ overlay' = NoOverlay =>
        \A i \in DOMAIN entries :
            (i \notin DOMAIN entries' \/ entries'[i] # entries[i]) /\
            (\A j \in 1..(i - 1) : entries'[j] = entries[j]) =>
                entries[i].input = overlay.named]_vars

-----------------------------------------------------------------------------
(* Inductive strengthenings.                                               *)

(* A user who waits has one request to wait for, while loading is shown,   *)
(* and no dialog is open meanwhile.                                        *)
Awaited(rs) == {i \in DOMAIN rs : rs[i].answer.kind # "Delivered"}
WaitShape ==
    Patient =>
        /\ \A i, j \in Awaited(requests) : i = j
        /\ ~loading => Awaited(requests) = {}
        /\ overlay.kind # "none" => ~loading

(* A dialog then is about what is selected.                                *)
DialogShape ==
    Patient =>
        /\ overlay.kind = "confirm" /\ overlay.action = "DeletePreset" =>
                overlay.named = preset_name
        /\ \/ overlay.kind = "confirm" /\ overlay.action = "DeleteMapping"
           \/ overlay.kind = "symbols"
           => /\ selected_entry \in DOMAIN entries
              /\ overlay.named = entries[selected_entry].input
        /\ overlay.kind = "input" /\ overlay.action = "RenameMapping" =>
                /\ overlay.index \in DOMAIN entries
                /\ overlay.named = entries[overlay.index].input

(* What is shown, for a user to whom nothing fails, when nothing is in     *)
(* flight: presets that exist, and the entries of the preset they are      *)
(* shown under.                                                            *)
Current == <<device_name, preset_name>>
Listed(list) == \A i \in DOMAIN list : store[<<device_name, list[i]>>] # Absent
Saved == ~unsaved_changes => store[Current] = entries
Settled ==
    /\ screen = "Presets" => Listed(presets)
    /\ screen = "Editor" => origin = Current /\ Saved

(* What is in flight otherwise: a request of the screen that is shown, and *)
(* when it is answered the screen is settled.                              *)
OnScreen == [Devices |-> {"RefreshDevices"},
             Presets |-> {"RefreshPresets", "CreatePreset", "DeletePreset"},
             Editor |-> {"RefreshEntries", "SavePreset", "ApplyPreset"},
             Status |-> {"RefreshStatus", "Stop"}]
InFlight(r) ==
    /\ r.served <=> r.answer # Waiting
    /\ r.answer # Delivered
    /\ r.op \in OnScreen[screen]
    /\ r.op = "RefreshPresets" =>
        /\ r.device = device_name
        /\ r.served => r.answer.kind = "Presets" /\ Listed(r.answer.data)
    /\ r.op \in {"CreatePreset", "DeletePreset"} /\ r.answer # Ok => Listed(presets)
    /\ r.op \in {"RefreshEntries", "SavePreset"} => <<r.device, r.preset>> = Current
    /\ r.op = "RefreshEntries" /\ r.served =>
        r.answer.kind = "PresetData" /\ r.answer.data = store[Current]
    /\ r.op \in {"SavePreset", "ApplyPreset"} => origin = Current
    /\ r.op = "SavePreset" =>
        IF r.served THEN store[Current] = entries /\ r.answer = Ok ELSE r.entries = entries
    /\ r.op = "ApplyPreset" => Saved

(* Where the user is.                                                      *)
DialogHere ==
    /\ overlay.kind = "confirm" /\ overlay.action = "DeletePreset" => screen = "Presets"
    /\ overlay.kind = "input" /\ overlay.action = "NewPreset" => screen = "Presets"
ScreenHere ==
    /\ screen = "Presets" => device_name # None
    /\ screen = "Editor" => Current \in Slots /\ store[Current] # Absent

Orderly ==
    /\ Readable(store) /\ DialogHere /\ ScreenHere
    /\ \/ requests = <<>> /\ Settled
       \/ Len(requests) = 1 /\ InFlight(requests[1])
CareShape == Careful => Orderly

EditorInv == TypeOK /\ WaitShape /\ DialogShape /\ CareShape
=============================================================================

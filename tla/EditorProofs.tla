---------------------------- MODULE EditorProofs ----------------------------
(***************************************************************************)
(* The safety of Editor, for any devices, presets, mappings and settings.  *)
(***************************************************************************)
EXTENDS Editor, FiniteSetTheorems, SequenceTheorems, WellFoundedInduction, TLAPS

(* What is left of a sequence when an element is taken out.                *)
LEMMA Removed ==
    ASSUME NEW S, NEW s \in Seq(S), NEW i \in DOMAIN s
    PROVE  /\ RemoveAt(s, i) \in Seq(S) /\ Len(RemoveAt(s, i)) = Len(s) - 1
           /\ \A j \in 1..(Len(s) - 1) :
                RemoveAt(s, i)[j] = IF j < i THEN s[j] ELSE s[j + 1]
<1> DEFINE left == SubSeq(s, 1, i - 1)
           right == SubSeq(s, i + 1, Len(s))
<1>1. /\ i \in 1..Len(s) /\ Len(s) \in Nat
      /\ left \in Seq(S) /\ Len(left) = i - 1 /\ \A j \in 1..(i - 1) : left[j] = s[j]
      /\ right \in Seq(S) /\ Len(right) = Len(s) - i
      /\ \A j \in 1..(Len(s) - i) : right[j] = s[i + j]
  OBVIOUS
<1> HIDE DEF left, right
<1>2. /\ left \o right \in Seq(S) /\ Len(left \o right) = Len(s) - 1
      /\ \A j \in 1..(Len(s) - 1) :
            (left \o right)[j] = IF j < i THEN left[j] ELSE right[j - (i - 1)]
  BY <1>1, ConcatProperties
<1>3. \A j \in 1..(Len(s) - 1) :
            (left \o right)[j] = IF j < i THEN s[j] ELSE s[j + 1]
  BY <1>1, <1>2
<1> QED  BY <1>2, <1>3 DEF RemoveAt, left, right

(* The names of presets that are listed exist.                             *)
LEMMA ListedExist ==
    ASSUME NEW existing \in SUBSET Names, NEW list \in SetToSeqs(existing)
    PROVE  list \in Seq(Names) /\ \A i \in DOMAIN list : list[i] \in existing
<1>1. IsFiniteSet(Names)
  <2>1. PresetNames \in [1..Len(PresetNames) -> Names] /\ Len(PresetNames) \in Nat
    BY EditorAssumption DEF Names
  <2>2. \A x \in Names : \E i \in 1..Len(PresetNames) : PresetNames[i] = x
    BY <2>1 DEF Names, ToSet
  <2>3. ExistsSurjection(1..Len(PresetNames), Names)
    BY <2>1, <2>2 DEF ExistsSurjection, Surjection
  <2> QED  BY <2>1, <2>3, FS_NatSurjection
<1>2. Cardinality(existing) \in Nat
  BY <1>1, FS_Subset, FS_CardinalityType
<1>3. list \in [1..Cardinality(existing) -> existing]
  BY DEF SetToSeqs
<1> QED  BY <1>2, <1>3

-----------------------------------------------------------------------------
(* Requests, and what becomes of them.                                     *)
LEMMA Chosen ==
    ASSUME TypeOK
    PROVE  /\ device_name \in Devices \cup {None} /\ preset_name \in Names \cup {None}
           /\ None \notin Devices /\ None \notin Names
           /\ devices \in Seq(Devices) /\ DeviceLists \subseteq Seq(Devices)
           /\ None \notin {device_name, preset_name} => <<device_name, preset_name>> \in Slots
<1>1. DeviceLists \subseteq Seq(Devices) /\ devices \in Seq(Devices)
  <2>1. setting \in Settings /\ devices \in DeviceLists \cup {<<>>}
    BY DEF TypeOK, ScreenType, ListsType
  <2>2. DeviceLists \subseteq Seq(Devices)
    BY <2>1, EditorAssumption DEF DeviceLists
  <2>3. CASE devices = <<>>
    BY <2>2, <2>3
  <2>4. CASE devices \in DeviceLists
    BY <2>2, <2>4
  <2> QED  BY <2>1, <2>2, <2>3, <2>4
<1>2. device_name \in Devices \cup {None}
  BY <1>1 DEF device_name, Selected
<1>3. preset_name \in Names \cup {None}
  BY DEF preset_name, Selected, TypeOK, ListsType
<1>4. None \notin Devices /\ None \notin Names
  BY EditorAssumption DEF Names
<1> QED  BY <1>1, <1>2, <1>3, <1>4 DEF Slots, Names

New(r) == r \in Requests /\ Addressed(r) /\ ~r.served /\ r.answer = Waiting

LEMMA RequestNew ==
    ASSUME NEW op \in Ops, NEW d \in Devices \cup {None}, NEW p \in Names \cup {None},
           NEW content \in Seq(Mappings), Addressed(Request(op, d, p, content))
    PROVE  New(Request(op, d, p, content))
<1>1. Waiting \in Answers
  BY DEF Waiting, Answer, Answers
<1> QED  BY <1>1 DEF New, Request, Requests

(* A screen is loaded by a new request, or has nothing to load.            *)
Loads(r, s) ==
    \/ s = "Devices" /\ r.op = "RefreshDevices"
    \/ s = "Presets" /\ r.op = "RefreshPresets" /\ r.device = device_name
    \/ s = "Editor" /\ r.op = "RefreshEntries" /\ <<r.device, r.preset>> =
                                                        <<device_name, preset_name>>
    \/ s = "Status" /\ r.op = "RefreshStatus"

NothingToLoad(s) ==
    \/ s = "Presets" /\ device_name = None
    \/ s = "Editor" /\ None \in {device_name, preset_name}

LEMMA RefreshingEffect ==
    ASSUME TypeOK, NEW rs, NEW s \in {"Devices", "Presets", "Editor", "Status"}
    PROVE  \/ Refreshing(rs, s) = rs /\ NothingToLoad(s)
           \/ \E r : New(r) /\ Loads(r, s) /\ Refreshing(rs, s) = Append(rs, r)
<1>1. /\ <<>> \in Seq(Mappings) /\ None \in Devices \cup {None} /\ None \in Names \cup {None}
      /\ device_name \in Devices \cup {None} /\ preset_name \in Names \cup {None}
  BY Chosen
<1>2. CASE s = "Devices"
  <2> DEFINE r == Request("RefreshDevices", None, None, <<>>)
  <2>1. "RefreshDevices" \in Ops
    BY DEF Ops
  <2>2. /\ r.op = "RefreshDevices" /\ r.device = None /\ r.preset = None
    BY DEF Request
  <2>3. Refreshing(rs, s) = Append(rs, r)
    BY <1>2 DEF Refreshing
  <2>4. Addressed(r)
    BY <1>1, <1>2, <2>2, Chosen DEF Addressed, OnPreset
  <2>5. New(r)
    BY <1>1, <2>1, <2>4, RequestNew
  <2> HIDE DEF r
  <2> QED  BY <1>2, <2>2, <2>3, <2>5 DEF Loads
<1>3. CASE s = "Status"
  <2> DEFINE r == Request("RefreshStatus", None, None, <<>>)
  <2>1. "RefreshStatus" \in Ops
    BY DEF Ops
  <2>2. /\ r.op = "RefreshStatus" /\ r.device = None /\ r.preset = None
    BY DEF Request
  <2>3. Refreshing(rs, s) = Append(rs, r)
    BY <1>3 DEF Refreshing
  <2>4. Addressed(r)
    BY <1>1, <1>3, <2>2, Chosen DEF Addressed, OnPreset
  <2>5. New(r)
    BY <1>1, <2>1, <2>4, RequestNew
  <2> HIDE DEF r
  <2> QED  BY <1>3, <2>2, <2>3, <2>5 DEF Loads
<1>4. CASE s = "Presets" /\ device_name # None
  <2> DEFINE r == Request("RefreshPresets", device_name, None, <<>>)
  <2>1. "RefreshPresets" \in Ops
    BY DEF Ops
  <2>2. /\ r.op = "RefreshPresets" /\ r.device = device_name /\ r.preset = None
    BY DEF Request
  <2>3. Refreshing(rs, s) = Append(rs, r)
    BY <1>4 DEF Refreshing
  <2>4. Addressed(r)
    BY <1>1, <1>4, <2>2, Chosen DEF Addressed, OnPreset
  <2>5. New(r)
    BY <1>1, <2>1, <2>4, RequestNew
  <2> HIDE DEF r
  <2> QED  BY <1>4, <2>2, <2>3, <2>5 DEF Loads
<1>5. CASE s = "Editor" /\ None \notin {device_name, preset_name}
  <2> DEFINE r == Request("RefreshEntries", device_name, preset_name, <<>>)
  <2>1. "RefreshEntries" \in Ops
    BY DEF Ops
  <2>2. /\ r.op = "RefreshEntries" /\ r.device = device_name /\ r.preset = preset_name
    BY DEF Request
  <2>3. Refreshing(rs, s) = Append(rs, r)
    BY <1>5 DEF Refreshing
  <2>4. Addressed(r)
    BY <1>1, <1>5, <2>2, Chosen DEF Addressed, OnPreset
  <2>5. New(r)
    BY <1>1, <2>1, <2>4, RequestNew
  <2> HIDE DEF r
  <2> QED  BY <1>5, <2>2, <2>3, <2>5 DEF Loads
<1>6. CASE \/ s = "Presets" /\ device_name = None
           \/ s = "Editor" /\ None \in {device_name, preset_name}
  BY <1>6 DEF Refreshing, NothingToLoad
<1> QED  BY <1>2, <1>3, <1>4, <1>5, <1>6

(* What the daemon may do to the files and answer.                         *)
LEMMA OutcomeType ==
    ASSUME TypeOK, NEW r \in Requests, Addressed(r), NEW outcome \in Outcomes(r)
    PROVE  /\ outcome.store \in Stores /\ outcome.answer \in Answers
           /\ outcome.answer.kind \notin {"Waiting", "Delivered"}
<1> USE DEF Outcome, Answer
<1>1. /\ Ok \in Answers /\ Error \in Answers
      /\ Ok.kind = "Ok" /\ Error.kind = "Error"
  BY DEF Ok, Error, Answers
<1>2. store \in Stores
  BY DEF TypeOK, NetType
<1>3. CASE r.op \in {"SavePreset", "CreatePreset"}
  <2>1. \A content \in {r.entries, Broken} :
            [store EXCEPT ![<<r.device, r.preset>>] = content] \in Stores
    BY <1>2 DEF Stores, Requests
  <2>2. outcome \in SavePreset(store, r.device, r.preset, r.entries, Faults)
    BY <1>3 DEF Outcomes
  <2>3. /\ outcome.store \in
                {store} \cup {[store EXCEPT ![<<r.device, r.preset>>] = content] :
                                content \in {r.entries, Broken}}
        /\ outcome.answer \in {Ok, Error}
    BY <2>2 DEF SavePreset
  <2> QED  BY <1>1, <1>2, <2>1, <2>3
<1>4. CASE r.op = "DeletePreset"
  <2>1. [store EXCEPT ![<<r.device, r.preset>>] = Absent] \in Stores
    BY <1>2 DEF Stores
  <2>2. outcome \in DeletePreset(store, r.device, r.preset, Faults)
    BY <1>4 DEF Outcomes
  <2> QED  BY <1>1, <1>2, <2>1, <2>2 DEF DeletePreset
<1>5. CASE r.op = "RefreshEntries"
  <2>1. store[<<r.device, r.preset>>] \in Seq(Mappings) \cup {Absent, Broken}
    BY <1>2, <1>5 DEF Stores, Addressed, OnPreset
  <2>2. outcome \in GetPreset(store, r.device, r.preset)
    BY <1>5 DEF Outcomes
  <2> QED  BY <1>1, <1>2, <2>1, <2>2 DEF GetPreset, Answers
<1>6. CASE r.op = "RefreshPresets"
  <2> DEFINE existing == {p \in ToSet(PresetNames) : store[<<r.device, p>>] # Absent}
  <2>1. outcome \in ListPresets(store, r.device)
    BY <1>6 DEF Outcomes
  <2>2. \A list \in SetToSeqs(existing) : list \in Seq(Names)
    BY ListedExist DEF Names
  <2>3. /\ outcome.store = store
        /\ \/ outcome.answer = Error
           \/ \E list \in SetToSeqs(existing) :
                    outcome.answer = [kind |-> "Presets", data |-> list]
    <3> HIDE DEF existing
    <3>1. CASE r.device \notin ValidNames
      BY <2>1, <3>1 DEF ListPresets
    <3>2. CASE r.device \in ValidNames
      <4>1. outcome \in {[store |-> store, answer |-> [kind |-> "Presets", data |-> list]] :
                            list \in {names \in SetToSeqs(existing) : Sorted(names)}}
        BY <2>1, <3>2 DEF ListPresets, existing
      <4>2. PICK list \in SetToSeqs(existing) :
                    outcome = [store |-> store, answer |-> [kind |-> "Presets", data |-> list]]
        BY <4>1
      <4> QED  BY <4>2
    <3> QED  BY <3>1, <3>2
  <2>4. CASE outcome.answer = Error
    BY <1>1, <1>2, <2>3, <2>4
  <2>5. ASSUME NEW list \in SetToSeqs(existing),
               outcome.answer = [kind |-> "Presets", data |-> list]
        PROVE  outcome.answer \in Answers /\ outcome.answer.kind = "Presets"
    <3>1. list \in Seq(Names)
      BY <2>2
    <3> QED  BY <2>5, <3>1 DEF Answers
  <2> HIDE DEF existing
  <2> QED  BY <1>2, <2>3, <2>4, <2>5
<1>7. CASE r.op = "RefreshDevices"
  BY <1>2, <1>7 DEF Outcomes, Answers
<1>8. CASE r.op = "RefreshStatus"
  BY <1>2, <1>8 DEF Outcomes, Answers
<1>9. CASE r.op \in {"ApplyPreset", "Stop"}
  BY <1>1, <1>2, <1>9 DEF Outcomes
<1> QED  BY <1>3, <1>4, <1>5, <1>6, <1>7, <1>8, <1>9 DEF Requests, Ops

-----------------------------------------------------------------------------
(* What keys do.                                                           *)

(* A request is sent while no dialog is open, and a preset is deleted from *)
(* the dialog and saved from the editor only.                              *)
Purpose(r) ==
    /\ r.op = "DeletePreset" => ConfirmDeletePreset /\ r.preset = preset_name
    /\ r.op = "SavePreset" =>
        /\ save_preset /\ <<r.device, r.preset>> = <<device_name, preset_name>>
        /\ r.entries = entries
Sends(r) ==
    /\ New(r) /\ Purpose(r)
    /\ requests' = Append(requests, r) /\ loading' = TRUE /\ overlay' = NoOverlay

LEMMA LoadsPurpose ==
    ASSUME NEW r, NEW s, Loads(r, s)
    PROVE  /\ Purpose(r)
           /\ r.op \in {"RefreshDevices", "RefreshPresets", "RefreshEntries", "RefreshStatus"}
BY DEF Loads, Purpose

LEMMA CallEffect ==
    ASSUME TypeOK, NEW r, Call(Append(requests, r))
    PROVE  requests' = Append(requests, r) /\ loading' = TRUE
<1>1. Append(requests, r) # requests
  <2>1. Len(Append(requests, r)) = Len(requests) + 1 /\ Len(requests) \in Nat
    BY DEF TypeOK, NetType
  <2> QED  BY <2>1
<1>2. /\ requests' = Append(requests, r)
      /\ loading' = (loading \/ Append(requests, r) # requests)
  BY DEF Call
<1> QED  BY <1>1, <1>2

LEMMA SwitchEffect ==
    ASSUME TypeOK, NEW s \in {"Devices", "Presets", "Editor", "Status"},
           Call(Refreshing(requests, s))
    PROVE  \/ UNCHANGED net /\ NothingToLoad(s)
           \/ \E r : New(r) /\ Loads(r, s) /\ requests' = Append(requests, r) /\ loading' = TRUE
<1>1. CASE Refreshing(requests, s) = requests /\ NothingToLoad(s)
  <2>1. requests' = requests /\ loading' = (loading \/ FALSE)
    BY <1>1 DEF Call
  <2>2. loading' = loading
    BY <2>1 DEF TypeOK, NetType
  <2> QED  BY <1>1, <2>1, <2>2 DEF net
<1>2. ASSUME NEW r, New(r), Loads(r, s), Refreshing(requests, s) = Append(requests, r)
      PROVE  requests' = Append(requests, r) /\ loading' = TRUE
  BY <1>2, CallEffect
<1> QED  BY <1>1, <1>2, RefreshingEffect

LEMMA SpawnEffect ==
    ASSUME TypeOK, NEW op \in Ops, NEW d \in Devices \cup {None}, NEW p \in Names \cup {None},
           NEW content \in Seq(Mappings), Addressed(Request(op, d, p, content)),
           Spawn(op, d, p, content)
    PROVE  /\ New(Request(op, d, p, content)) /\ loading' = TRUE
           /\ requests' = Append(requests, Request(op, d, p, content))
<1>1. Call(Append(requests, Request(op, d, p, content)))
  BY DEF Spawn
<1> QED  BY <1>1, CallEffect, RequestNew

LEMMA KeyNet ==
    ASSUME TypeOK, Key
    PROVE  UNCHANGED net \/ \E r : Sends(r)
<1>1. CASE Tab
  <2> DEFINE s == IF screen = "Status" THEN "Devices" ELSE "Status"
  <2>1. Call(Refreshing(requests, s)) /\ overlay' = NoOverlay
    BY <1>1 DEF Tab, Normal, switch_screen
  <2>2. s \in {"Devices", "Presets", "Editor", "Status"}
    OBVIOUS
  <2> HIDE DEF s
  <2> QED  BY <2>1, <2>2, SwitchEffect, LoadsPurpose DEF Sends
<1>2. CASE Esc
  <2>1. overlay = NoOverlay
    BY <1>2 DEF Esc, Normal
  <2>2. CASE UNCHANGED net
    BY <2>2
  <2>3. CASE Call(Refreshing(requests, "Devices")) /\ UNCHANGED overlay
    BY <2>1, <2>3, SwitchEffect, LoadsPurpose DEF Sends
  <2> QED  BY <1>2, <2>2, <2>3 DEF Esc, switch_screen
<1>3. CASE Enter
  <2>1. \E s \in {"Presets", "Editor"} : Call(Refreshing(requests, s)) /\ overlay' = NoOverlay
    BY <1>3 DEF Enter, Normal, switch_screen
  <2> QED  BY <2>1, SwitchEffect, LoadsPurpose DEF Sends
<1>4. CASE Reload
  <2>1. Call(Refreshing(requests, screen)) /\ overlay' = NoOverlay
    BY <1>4 DEF Reload, Normal
  <2>2. screen \in {"Devices", "Presets", "Editor", "Status"}
    BY DEF TypeOK, ScreenType
  <2> QED  BY <2>1, <2>2, SwitchEffect, LoadsPurpose DEF Sends
<1>5. CASE ConfirmLeaveEditor
  <2>1. Call(Refreshing(requests, "Devices")) /\ overlay' = NoOverlay
    BY <1>5 DEF ConfirmLeaveEditor, Confirmed, switch_screen
  <2> QED  BY <2>1, SwitchEffect, LoadsPurpose DEF Sends
<1>6. /\ device_name \in Devices \cup {None} /\ preset_name \in Names \cup {None}
      /\ None \in Devices \cup {None} /\ None \in Names \cup {None}
      /\ <<>> \in Seq(Mappings) /\ entries \in Seq(Mappings)
  BY Chosen DEF TypeOK, EntriesType
<1>7. CASE save_preset
  <2>1. /\ None \notin {device_name, preset_name} /\ overlay' = NoOverlay
        /\ Spawn("SavePreset", device_name, preset_name, entries)
    BY <1>7 DEF save_preset, Normal
  <2>2. Addressed(Request("SavePreset", device_name, preset_name, entries))
    BY <2>1, Chosen DEF Addressed, Request
  <2>3. "SavePreset" \in Ops
    BY DEF Ops
  <2>5. Purpose(Request("SavePreset", device_name, preset_name, entries))
    BY <1>7 DEF Purpose, Request
  <2> QED  BY <1>6, <2>1, <2>2, <2>3, <2>5, SpawnEffect DEF Sends
<1>8. CASE apply_preset
  <2>1. /\ None \notin {device_name, preset_name} /\ overlay' = NoOverlay
        /\ Spawn("ApplyPreset", device_name, preset_name, <<>>)
    BY <1>8 DEF apply_preset, Normal
  <2>2. Addressed(Request("ApplyPreset", device_name, preset_name, <<>>))
    BY <2>1, Chosen DEF Addressed, Request
  <2>3. "ApplyPreset" \in Ops
    BY DEF Ops
  <2>5. Purpose(Request("ApplyPreset", device_name, preset_name, <<>>))
    BY DEF Purpose, Request
  <2> QED  BY <1>6, <2>1, <2>2, <2>3, <2>5, SpawnEffect DEF Sends
<1>9. CASE StopInjections
  <2>1. overlay' = NoOverlay /\ Spawn("Stop", None, None, <<>>)
    BY <1>9 DEF StopInjections, Normal
  <2>2. Addressed(Request("Stop", None, None, <<>>))
    BY DEF Addressed, Request, OnPreset
  <2>3. "Stop" \in Ops
    BY DEF Ops
  <2>5. Purpose(Request("Stop", None, None, <<>>))
    BY DEF Purpose, Request
  <2> QED  BY <1>6, <2>1, <2>2, <2>3, <2>5, SpawnEffect DEF Sends
<1>10. CASE CreatePreset
  <2>1. PICK name \in setting.names : /\ device_name # None /\ overlay' = NoOverlay
                                      /\ Spawn("CreatePreset", device_name, name, <<>>)
    BY <1>10 DEF CreatePreset
  <2>2. name \in Names /\ device_name \in Devices
    BY <2>1, <1>6, EditorAssumption DEF TypeOK, ScreenType, Names
  <2>3. Addressed(Request("CreatePreset", device_name, name, <<>>))
    BY <2>2 DEF Addressed, Request, Slots, Names
  <2>4. "CreatePreset" \in Ops
    BY DEF Ops
  <2>5. Purpose(Request("CreatePreset", device_name, name, <<>>))
    BY DEF Purpose, Request
  <2> QED  BY <1>6, <2>1, <2>2, <2>3, <2>4, <2>5, SpawnEffect DEF Sends
<1>11. CASE ConfirmDeletePreset
  <2>1. /\ None \notin {device_name, preset_name} /\ overlay' = NoOverlay
        /\ Spawn("DeletePreset", device_name, preset_name, <<>>)
    BY <1>11 DEF ConfirmDeletePreset, Confirmed
  <2>2. Addressed(Request("DeletePreset", device_name, preset_name, <<>>))
    BY <2>1, Chosen DEF Addressed, Request
  <2>3. "DeletePreset" \in Ops
    BY DEF Ops
  <2>5. Purpose(Request("DeletePreset", device_name, preset_name, <<>>))
    BY <1>11 DEF Purpose, Request
  <2> QED  BY <1>6, <2>1, <2>2, <2>3, <2>5, SpawnEffect DEF Sends
<1>12. CASE \/ CtrlC \/ Quit \/ Move \/ AskPreset \/ AskEntry \/ start_recording \/ CloseOverlay
            \/ Recorded \/ BuildChain \/ SaveChain \/ RenameMapping \/ ConfirmDeleteMapping
            \/ ConfirmQuit
  BY <1>12 DEF CtrlC, Quit, Move, AskPreset, AskEntry, start_recording, CloseOverlay, Recorded,
               BuildChain, SaveChain, RenameMapping, ConfirmDeleteMapping, ConfirmQuit
<1> QED  BY <1>1, <1>2, <1>3, <1>4, <1>5, <1>7, <1>8, <1>9, <1>10, <1>11, <1>12 DEF Key

LEMMA Moves ==
    ASSUME NEW list, NEW n \in Nat, DOMAIN list = 1..n, NEW i \in Nat \ {0}, InRange(list, i),
           NEW j \in Moved(i, list), list # <<>> => Len(list) = n, list = <<>> => Len(list) = 0
    PROVE  j \in Nat \ {0} /\ InRange(list, j)
  BY DEF Moved, InRange

LEMMA KeyLists ==
    ASSUME TypeOK, SelectionValid, Key, UNCHANGED setting
    PROVE  ListsType' /\ InRange(devices, selected_device)' /\ InRange(presets, selected_preset)'
<1>1. /\ ListsType /\ InRange(devices, selected_device) /\ InRange(presets, selected_preset)
      /\ devices \in Seq(Devices)
  BY Chosen DEF TypeOK, SelectionValid
<1>2. CASE UNCHANGED lists
  BY <1>1, <1>2 DEF lists, ListsType, InRange, DeviceLists
<1>3. CASE Move
  <2>1. UNCHANGED <<devices, presets>>
    BY <1>3 DEF Move
  <2>2. selected_device' = selected_device \/ selected_device' \in Moved(selected_device, devices)
    BY <1>3 DEF Move
  <2>3. selected_preset' = selected_preset \/ selected_preset' \in Moved(selected_preset, presets)
    BY <1>3 DEF Move
  <2>4. selected_device' \in Nat \ {0} /\ InRange(devices, selected_device')
    BY <1>1, <2>2 DEF Moved, InRange, ListsType
  <2>5. selected_preset' \in Nat \ {0} /\ InRange(presets, selected_preset')
    BY <1>1, <2>3 DEF Moved, InRange, ListsType
  <2> QED  BY <1>1, <2>1, <2>4, <2>5 DEF ListsType, InRange, DeviceLists
<1>4. CASE \/ CtrlC \/ Quit \/ Tab \/ Esc \/ Enter \/ Reload \/ AskPreset \/ AskEntry
           \/ save_preset \/ apply_preset \/ StopInjections \/ start_recording
  BY <1>2, <1>4 DEF CtrlC, Quit, Tab, Esc, Enter, Reload, AskPreset, AskEntry, save_preset,
                    apply_preset, StopInjections, start_recording
<1>5. CASE \/ CloseOverlay \/ Recorded \/ BuildChain \/ SaveChain \/ CreatePreset \/ RenameMapping
           \/ ConfirmDeletePreset \/ ConfirmDeleteMapping \/ ConfirmLeaveEditor \/ ConfirmQuit
  BY <1>2, <1>5 DEF CloseOverlay, Recorded, BuildChain, SaveChain, CreatePreset, RenameMapping,
                    ConfirmDeletePreset, ConfirmDeleteMapping, ConfirmLeaveEditor, ConfirmQuit
<1> QED  BY <1>3, <1>4, <1>5 DEF Key

(* What keys do to the mappings: they are changed in a dialog only.        *)
LEMMA KeyMappings ==
    ASSUME Key
    PROVE  \/ entries' = entries /\ UNCHANGED <<selected_entry, origin>>
           \/ Move /\ entries' = entries /\ UNCHANGED origin
           \/ Recorded \/ SaveChain \/ RenameMapping \/ ConfirmDeleteMapping
<1>1. CASE \/ CtrlC \/ Quit \/ Tab \/ Esc \/ Enter \/ Reload \/ AskPreset \/ AskEntry
           \/ save_preset \/ apply_preset \/ StopInjections \/ start_recording
  BY <1>1 DEF CtrlC, Quit, Tab, Esc, Enter, Reload, AskPreset, AskEntry, save_preset,
              apply_preset, StopInjections, start_recording, mappings
<1>2. CASE \/ CloseOverlay \/ BuildChain \/ CreatePreset \/ ConfirmDeletePreset
           \/ ConfirmLeaveEditor \/ ConfirmQuit
  BY <1>2 DEF CloseOverlay, BuildChain, CreatePreset, ConfirmDeletePreset, ConfirmLeaveEditor,
              ConfirmQuit, mappings
<1>3. CASE Move
  BY <1>3 DEF Move
<1> QED  BY <1>1, <1>2, <1>3 DEF Key

LEMMA Amended ==
    ASSUME NEW list \in Seq(Mappings), NEW i \in DOMAIN list
    PROVE  /\ \A output \in Symbols \cup {None} :
                /\ [list EXCEPT ![i].output = output] \in Seq(Mappings)
                /\ DOMAIN [list EXCEPT ![i].output = output] = DOMAIN list
                /\ [list EXCEPT ![i].output = output][i].input = list[i].input
                /\ \A j \in DOMAIN list \ {i} : [list EXCEPT ![i].output = output][j] = list[j]
           /\ \A name \in Renamings :
                /\ [list EXCEPT ![i].name = name] \in Seq(Mappings)
                /\ DOMAIN [list EXCEPT ![i].name = name] = DOMAIN list
                /\ [list EXCEPT ![i].name = name][i].input = list[i].input
                /\ \A j \in DOMAIN list \ {i} : [list EXCEPT ![i].name = name][j] = list[j]
<1>1. list[i] \in Mappings
  OBVIOUS
<1>2. \A output \in Symbols \cup {None} : /\ [list[i] EXCEPT !.output = output] \in Mappings
                                         /\ [list[i] EXCEPT !.output = output].input = list[i].input
  BY <1>1 DEF Mappings
<1>3. \A name \in Renamings : /\ [list[i] EXCEPT !.name = name] \in Mappings
                              /\ [list[i] EXCEPT !.name = name].input = list[i].input
  BY <1>1 DEF Mappings
<1>4. \A m \in Mappings : /\ [list EXCEPT ![i] = m] \in Seq(Mappings)
                         /\ DOMAIN [list EXCEPT ![i] = m] = DOMAIN list
                         /\ [list EXCEPT ![i] = m][i] = m
                         /\ \A j \in DOMAIN list \ {i} : [list EXCEPT ![i] = m][j] = list[j]
  OBVIOUS
<1>5. \A output : [list EXCEPT ![i].output = output]
                    = [list EXCEPT ![i] = [list[i] EXCEPT !.output = output]]
  OBVIOUS
<1>6. \A name : [list EXCEPT ![i].name = name]
                  = [list EXCEPT ![i] = [list[i] EXCEPT !.name = name]]
  OBVIOUS
<1>7. ASSUME NEW output \in Symbols \cup {None}
      PROVE  /\ [list EXCEPT ![i].output = output] \in Seq(Mappings)
             /\ DOMAIN [list EXCEPT ![i].output = output] = DOMAIN list
             /\ [list EXCEPT ![i].output = output][i].input = list[i].input
             /\ \A j \in DOMAIN list \ {i} : [list EXCEPT ![i].output = output][j] = list[j]
  <2> DEFINE m == [list[i] EXCEPT !.output = output]
  <2>1. m \in Mappings /\ m.input = list[i].input
    BY <1>2
  <2>2. [list EXCEPT ![i].output = output] = [list EXCEPT ![i] = m]
    BY <1>5
  <2> HIDE DEF m
  <2> QED  BY <1>4, <2>1, <2>2
<1>8. ASSUME NEW name \in Renamings
      PROVE  /\ [list EXCEPT ![i].name = name] \in Seq(Mappings)
             /\ DOMAIN [list EXCEPT ![i].name = name] = DOMAIN list
             /\ [list EXCEPT ![i].name = name][i].input = list[i].input
             /\ \A j \in DOMAIN list \ {i} : [list EXCEPT ![i].name = name][j] = list[j]
  <2> DEFINE m == [list[i] EXCEPT !.name = name]
  <2>1. m \in Mappings /\ m.input = list[i].input
    BY <1>3
  <2>2. [list EXCEPT ![i].name = name] = [list EXCEPT ![i] = m]
    BY <1>6
  <2> HIDE DEF m
  <2> QED  BY <1>4, <2>1, <2>2
<1> QED  BY <1>7, <1>8

LEMMA KeyFlags ==
    ASSUME Key, unsaved_changes \in BOOLEAN
    PROVE  origin' = origin /\ unsaved_changes' \in BOOLEAN
<1>1. CASE UNCHANGED mappings
  BY <1>1 DEF mappings
<1>2. CASE \/ CtrlC \/ Quit \/ Tab \/ Esc \/ Enter \/ Reload \/ AskPreset \/ AskEntry
           \/ save_preset \/ apply_preset \/ StopInjections \/ start_recording
  BY <1>1, <1>2 DEF CtrlC, Quit, Tab, Esc, Enter, Reload, AskPreset, AskEntry, save_preset,
              apply_preset, StopInjections, start_recording
<1>3. CASE \/ CloseOverlay \/ BuildChain \/ CreatePreset \/ ConfirmDeletePreset
           \/ ConfirmQuit
  BY <1>1, <1>3 DEF CloseOverlay, BuildChain, CreatePreset, ConfirmDeletePreset, ConfirmQuit
<1>4. CASE Move \/ ConfirmLeaveEditor
  BY <1>4 DEF Move, ConfirmLeaveEditor
<1>5. CASE \E changed : Edit(changed)
  BY <1>5 DEF Edit
<1>6. CASE Recorded \/ RenameMapping \/ ConfirmDeleteMapping
  BY <1>5, <1>6 DEF Recorded, RenameMapping, ConfirmDeleteMapping
<1>7. CASE SaveChain
  BY <1>5, <1>7 DEF SaveChain
<1> QED  BY <1>2, <1>3, <1>4, <1>6, <1>7 DEF Key

(* A dialog amends one mapping; or adds one at the end, or takes one out.  *)
LEMMA SaveChainEffect ==
    ASSUME TypeOK, SaveChain
    PROVE  /\ selected_entry' = selected_entry
           /\ \/ entries' = entries
              \/ /\ selected_entry \in DOMAIN entries /\ overlay.kind = "symbols"
                 /\ overlay.slots \in Symbols \cup {None}
                 /\ entries' = [entries EXCEPT ![selected_entry].output = overlay.slots]
<1>1. overlay.kind = "symbols" /\ overlay.slots \in Symbols \cup {None}
  BY DEF SaveChain, TypeOK, ScreenType
<1> QED  BY <1>1 DEF SaveChain, Edit

LEMMA KeyEntries ==
    ASSUME TypeOK, SelectionValid, Key
    PROVE  EntriesType' /\ InRange(entries, selected_entry)'
<1>1. /\ entries \in Seq(Mappings) /\ selected_entry \in Nat \ {0}
      /\ InRange(entries, selected_entry)
      /\ origin' \in Slots \cup {<<None, None>>} /\ unsaved_changes' \in BOOLEAN
  BY KeyFlags DEF TypeOK, EntriesType, SelectionValid
<1>2. SUFFICES /\ entries' \in Seq(Mappings) /\ selected_entry' \in Nat \ {0}
               /\ InRange(entries', selected_entry')
  BY <1>1 DEF EntriesType, InRange
<1>3. CASE entries' = entries /\ UNCHANGED selected_entry
  BY <1>1, <1>3
<1>4. CASE Move /\ entries' = entries
  <2>1. selected_entry' = selected_entry \/ selected_entry' \in Moved(selected_entry, entries)
    BY <1>4 DEF Move
  <2>2. selected_entry' \in Nat \ {0} /\ InRange(entries, selected_entry')
    BY <1>1, <2>1 DEF Moved, InRange
  <2> QED  BY <1>1, <1>4, <2>2
<1>5. CASE Recorded
  <2>1. PICK code \in Codes : entries' = Append(entries, Mapping(code, None, code))
    BY <1>5 DEF Recorded, Edit
  <2>2. Mapping(code, None, code) \in Mappings
    BY EditorAssumption DEF Mapping, Mappings
  <2>3. selected_entry' = Len(entries) + 1
    BY <1>5 DEF Recorded
  <2> HIDE DEF Mapping
  <2> QED  BY <1>1, <2>1, <2>2, <2>3 DEF InRange
<1>6. CASE SaveChain
  <2>1. CASE entries' = entries
    BY <1>1, <1>6, <2>1, SaveChainEffect
  <2>2. CASE /\ selected_entry \in DOMAIN entries
             /\ overlay.slots \in Symbols \cup {None}
             /\ entries' = [entries EXCEPT ![selected_entry].output = overlay.slots]
    <3>1. entries' \in Seq(Mappings) /\ DOMAIN entries' = DOMAIN entries
      BY <1>1, <2>2, Amended
    <3>2. selected_entry' = selected_entry
      BY <1>6, SaveChainEffect
    <3> QED  BY <1>1, <2>2, <3>1, <3>2 DEF InRange
  <2> QED  BY <1>6, <2>1, <2>2, SaveChainEffect
<1>7. CASE RenameMapping
  <2>1. PICK name \in Renamings : entries' = [entries EXCEPT ![overlay.index].name = name]
    BY <1>7 DEF RenameMapping, Edit
  <2>2. overlay.index \in DOMAIN entries /\ selected_entry' = selected_entry
    BY <1>7 DEF RenameMapping
  <2>3. entries' \in Seq(Mappings) /\ DOMAIN entries' = DOMAIN entries
    BY <1>1, <2>1, <2>2, Amended
  <2>4. selected_entry \in DOMAIN entries
    <3>1. entries # <<>>
      BY <2>2
    <3> QED  BY <1>1, <3>1 DEF InRange
  <2> QED  BY <1>1, <2>2, <2>3, <2>4 DEF InRange
<1>8. CASE ConfirmDeleteMapping
  <2>1. /\ selected_entry \in DOMAIN entries
        /\ entries' = RemoveAt(entries, selected_entry)
        /\ selected_entry' = IF selected_entry > 1 /\ selected_entry = Len(entries)
                             THEN selected_entry - 1 ELSE selected_entry
    BY <1>8 DEF ConfirmDeleteMapping, Edit
  <2>2. entries' \in Seq(Mappings) /\ Len(entries') = Len(entries) - 1
    BY <1>1, <2>1, Removed
  <2>3. selected_entry \in 1..Len(entries) /\ Len(entries) \in Nat
    BY <1>1, <2>1
  <2>4. CASE Len(entries) = 1
    BY <1>1, <2>1, <2>2, <2>3, <2>4 DEF InRange
  <2>5. CASE Len(entries) > 1
    BY <1>1, <2>1, <2>2, <2>3, <2>5 DEF InRange
  <2>6. Len(entries) = 1 \/ Len(entries) > 1
    <3>1. \A n \in Nat \ {0} : n = 1 \/ n > 1
      OBVIOUS
    <3>2. Len(entries) \in Nat \ {0}
      BY <2>3
    <3> QED  BY <3>1, <3>2
  <2> QED  BY <2>4, <2>5, <2>6
<1> QED  BY <1>3, <1>4, <1>5, <1>6, <1>7, <1>8, KeyMappings

LEMMA KeyScreen ==
    ASSUME TypeOK, SelectionValid, Key, UNCHANGED setting
    PROVE  ScreenType'
<1>1. /\ screen \in {"Devices", "Presets", "Editor", "Status"} /\ should_quit \in BOOLEAN
      /\ recorders \in Nat /\ changes \in Nat /\ setting' \in Settings
      /\ entries \in Seq(Mappings)
  BY DEF TypeOK, ScreenType, EntriesType
<1>2. screen' \in {"Devices", "Presets", "Editor", "Status"}
  <2>1. CASE Tab \/ Esc \/ Enter \/ ConfirmLeaveEditor
    BY <1>1, <2>1 DEF Tab, Esc, Enter, ConfirmLeaveEditor, switch_screen
  <2>2. CASE UNCHANGED screen
    BY <1>1, <2>2
  <2>3. CASE \/ CtrlC \/ Quit \/ Move \/ Reload \/ AskPreset \/ AskEntry
             \/ save_preset \/ apply_preset \/ StopInjections \/ start_recording
    BY <2>2, <2>3 DEF CtrlC, Quit, Move, Reload, AskPreset, AskEntry, save_preset,
                      apply_preset, StopInjections, start_recording
  <2>4. CASE \/ CloseOverlay \/ Recorded \/ BuildChain \/ SaveChain \/ CreatePreset
             \/ RenameMapping \/ ConfirmDeletePreset \/ ConfirmDeleteMapping \/ ConfirmQuit
    BY <2>2, <2>4 DEF CloseOverlay, Recorded, BuildChain, SaveChain, CreatePreset,
                      RenameMapping, ConfirmDeletePreset, ConfirmDeleteMapping, ConfirmQuit,
                      Confirmed
  <2> QED  BY <2>1, <2>3, <2>4 DEF Key
<1>3. should_quit' \in BOOLEAN
  <2>1. CASE CtrlC \/ Quit \/ ConfirmQuit
    BY <1>1, <2>1 DEF CtrlC, Quit, ConfirmQuit
  <2>2. CASE UNCHANGED should_quit
    BY <1>1, <2>2
  <2>3. CASE \/ Tab \/ Esc \/ Enter \/ Move \/ Reload \/ AskPreset \/ AskEntry
             \/ save_preset \/ apply_preset \/ StopInjections \/ start_recording
    BY <2>2, <2>3 DEF Tab, Esc, Enter, Move, Reload, AskPreset, AskEntry, save_preset,
                      apply_preset, StopInjections, start_recording
  <2>4. CASE \/ CloseOverlay \/ Recorded \/ BuildChain \/ SaveChain \/ CreatePreset
             \/ RenameMapping \/ ConfirmDeletePreset \/ ConfirmDeleteMapping
             \/ ConfirmLeaveEditor
    BY <2>2, <2>4 DEF CloseOverlay, Recorded, BuildChain, SaveChain, CreatePreset,
                      RenameMapping, ConfirmDeletePreset, ConfirmDeleteMapping,
                      ConfirmLeaveEditor
  <2> QED  BY <2>1, <2>3, <2>4 DEF Key
<1>4. recorders' \in Nat /\ changes' \in Nat
  <2>1. CASE \/ CtrlC \/ Quit \/ Tab \/ Esc \/ Enter \/ Move \/ Reload \/ AskPreset \/ AskEntry
             \/ save_preset \/ apply_preset \/ StopInjections
    BY <1>1, <2>1 DEF CtrlC, Quit, Tab, Esc, Enter, Move, Reload, AskPreset, AskEntry, save_preset,
                      apply_preset, StopInjections
  <2>2. CASE start_recording
    BY <1>1, <2>2 DEF start_recording
  <2>3. CASE \/ CloseOverlay \/ BuildChain \/ ConfirmLeaveEditor \/ ConfirmQuit
    BY <1>1, <2>3 DEF CloseOverlay, BuildChain, ConfirmLeaveEditor, ConfirmQuit
  <2>4. CASE UNCHANGED recorders /\ Change
    BY <1>1, <2>4 DEF Change
  <2>5. CASE CreatePreset \/ ConfirmDeletePreset
    BY <2>4, <2>5 DEF CreatePreset, ConfirmDeletePreset
  <2>6. CASE Recorded \/ RenameMapping \/ ConfirmDeleteMapping
    BY <2>4, <2>6 DEF Recorded, RenameMapping, ConfirmDeleteMapping, Edit
  <2>7. CASE SaveChain
    <3>1. recorders' = recorders /\ (Change \/ changes' = changes)
      BY <2>7 DEF SaveChain, Edit
    <3> QED  BY <1>1, <2>4, <3>1
  <2> QED  BY <2>1, <2>2, <2>3, <2>5, <2>6, <2>7 DEF Key
<1>5. /\ overlay'.kind \in {"none", "record", "symbols", "input", "confirm"}
      /\ overlay'.kind = "symbols" => overlay'.slots \in Symbols \cup {None}
  <2>1. CASE UNCHANGED overlay
    BY <2>1 DEF TypeOK, ScreenType
  <2>2. CASE overlay' = NoOverlay
    BY <2>2 DEF NoOverlay
  <2>3. CASE \/ CtrlC \/ Tab \/ Enter \/ Move \/ Reload \/ save_preset \/ apply_preset
             \/ StopInjections
    BY <2>1, <2>3 DEF CtrlC, Tab, Enter, Move, Reload, save_preset, apply_preset, StopInjections
  <2>4. CASE \/ CloseOverlay \/ SaveChain \/ CreatePreset \/ RenameMapping \/ ConfirmDeletePreset
             \/ ConfirmDeleteMapping \/ ConfirmLeaveEditor \/ ConfirmQuit
    BY <2>2, <2>4 DEF CloseOverlay, SaveChain, CreatePreset, RenameMapping, ConfirmDeletePreset,
                      ConfirmDeleteMapping, ConfirmLeaveEditor, ConfirmQuit, Confirmed
  <2>5. CASE Quit
    BY <2>1, <2>5 DEF Quit, Confirm
  <2>6. CASE Esc
    BY <2>1, <2>6 DEF Esc, Confirm
  <2>7. CASE AskPreset
    BY <2>7 DEF AskPreset, Confirm
  <2>8. CASE AskEntry
    <3>1. selected_entry \in DOMAIN entries
      BY <2>8 DEF AskEntry, SelectionValid, InRange
    <3>2. entries[selected_entry].output \in Symbols \cup {None}
      <4>1. entries[selected_entry] \in Mappings
        BY <1>1, <3>1
      <4> QED  BY <4>1 DEF Mappings
    <3>3. overlay' \in {SymbolSearch(entries[selected_entry].output, entries[selected_entry].input),
                        Confirm("DeleteMapping", entries[selected_entry].input),
                        [kind |-> "input", action |-> "RenameMapping",
                         index |-> selected_entry, named |-> entries[selected_entry].input]}
      BY <2>8 DEF AskEntry
    <3>4. CASE overlay' = SymbolSearch(entries[selected_entry].output, entries[selected_entry].input)
      BY <3>2, <3>4 DEF SymbolSearch
    <3>5. CASE overlay' = Confirm("DeleteMapping", entries[selected_entry].input)
      BY <3>5 DEF Confirm
    <3>6. CASE overlay' = [kind |-> "input", action |-> "RenameMapping",
                           index |-> selected_entry, named |-> entries[selected_entry].input]
      BY <3>6
    <3> QED  BY <3>3, <3>4, <3>5, <3>6
  <2>9. CASE start_recording
    BY <2>9 DEF start_recording
  <2>10. CASE Recorded
    BY <2>10 DEF Recorded, SymbolSearch
  <2>11. CASE BuildChain
    BY <2>11 DEF BuildChain, SymbolSearch
  <2> QED  BY <2>3, <2>4, <2>5, <2>6, <2>7, <2>8, <2>9, <2>10, <2>11 DEF Key
<1> QED  BY <1>1, <1>2, <1>3, <1>4, <1>5 DEF ScreenType

-----------------------------------------------------------------------------
(* What becomes of the requests.                                           *)

Good(rs) == rs \in Seq(Requests) /\ \A i \in DOMAIN rs : Addressed(rs[i])
AtMostOne(S) == \A i, j \in S : i = j

LEMMA NetNext ==
    ASSUME Good(requests'), store' \in Stores, loading' \in BOOLEAN, UNCHANGED setting
    PROVE  NetType'
<1>1. Requests' = Requests
  <2>1. DeviceLists' = DeviceLists
    BY DEF DeviceLists
  <2>2. Answers' = Answers
    BY <2>1 DEF Answers
  <2> QED  BY <2>2 DEF Requests
<1>2. requests' \in Seq(Requests) /\ \A i \in DOMAIN requests' : Addressed(requests'[i])
  BY DEF Good
<1> QED  BY <1>1, <1>2 DEF NetType

LEMMA NetNow ==
    ASSUME TypeOK
    PROVE  Good(requests) /\ store \in Stores /\ loading \in BOOLEAN
BY DEF TypeOK, NetType, Good

LEMMA NewGood ==
    ASSUME NEW rs, Good(rs), NEW r, New(r)
    PROVE  /\ Good(Append(rs, r)) /\ Len(rs) + 1 \in Awaited(Append(rs, r))
           /\ Awaited(rs) = {} => AtMostOne(Awaited(Append(rs, r)))
           /\ Append(rs, r) # rs
<1>1. r \in Requests /\ Addressed(r) /\ r.answer.kind = "Waiting" /\ rs \in Seq(Requests)
  BY DEF New, Waiting, Answer, Good
<1>2. /\ Append(rs, r) \in Seq(Requests) /\ Len(Append(rs, r)) = Len(rs) + 1
      /\ DOMAIN Append(rs, r) = 1..(Len(rs) + 1) /\ DOMAIN rs = 1..Len(rs) /\ Len(rs) \in Nat
      /\ Append(rs, r)[Len(rs) + 1] = r /\ \A i \in 1..Len(rs) : Append(rs, r)[i] = rs[i]
  BY <1>1
<1>3. \A i \in 1..(Len(rs) + 1) : i = Len(rs) + 1 \/ i \in 1..Len(rs)
  BY <1>2
<1>4. Good(Append(rs, r))
  BY <1>1, <1>2, <1>3 DEF Good
<1>5. Len(rs) + 1 \in Awaited(Append(rs, r))
  BY <1>1, <1>2 DEF Awaited
<1>6. ASSUME Awaited(rs) = {}, NEW i \in Awaited(Append(rs, r))
      PROVE  i = Len(rs) + 1
  <2>1. i \in 1..(Len(rs) + 1) /\ Append(rs, r)[i].answer.kind # "Delivered"
    BY <1>2 DEF Awaited
  <2>2. i \notin 1..Len(rs)
    BY <1>2, <1>6, <2>1 DEF Awaited
  <2> QED  BY <1>3, <2>1, <2>2
<1>7. Append(rs, r) # rs
  <2>1. \A n \in Nat : n + 1 # n
    OBVIOUS
  <2> QED  BY <1>2, <2>1
<1> QED  BY <1>4, <1>5, <1>6, <1>7 DEF AtMostOne

LEMMA RemovedGood ==
    ASSUME NEW rs, Good(rs), NEW i \in DOMAIN rs
    PROVE  /\ Good(RemoveAt(rs, i))
           /\ i \notin Awaited(rs) /\ Awaited(rs) # {} => Awaited(RemoveAt(rs, i)) # {}
           /\ AtMostOne(Awaited(rs)) => AtMostOne(Awaited(RemoveAt(rs, i)))
           /\ Awaited(rs) = {} => Awaited(RemoveAt(rs, i)) = {}
           /\ AtMostOne(Awaited(rs)) /\ i \in Awaited(rs) => Awaited(RemoveAt(rs, i)) = {}
<1> DEFINE left == RemoveAt(rs, i)
           was(j) == IF j < i THEN j ELSE j + 1
<1>1. /\ rs \in Seq(Requests) /\ Len(rs) \in Nat /\ DOMAIN rs = 1..Len(rs)
      /\ i \in 1..Len(rs)
  BY DEF Good
<1>2. /\ left \in Seq(Requests) /\ Len(left) = Len(rs) - 1 /\ DOMAIN left = 1..(Len(rs) - 1)
      /\ \A j \in 1..(Len(rs) - 1) : left[j] = IF j < i THEN rs[j] ELSE rs[j + 1]
  <2>1. /\ left \in Seq(Requests) /\ Len(left) = Len(rs) - 1
        /\ \A j \in 1..(Len(rs) - 1) : left[j] = IF j < i THEN rs[j] ELSE rs[j + 1]
    BY <1>1, Removed
  <2> HIDE DEF left
  <2> QED  BY <2>1
<1> HIDE DEF left
<1>3. \A j \in DOMAIN left : was(j) \in DOMAIN rs /\ was(j) # i /\ left[j] = rs[was(j)]
  BY <1>1, <1>2
<1>4. \A j, k \in DOMAIN left : was(j) = was(k) => j = k
  BY <1>1, <1>2
<1>5. \A k \in DOMAIN rs : k # i => \E j \in DOMAIN left : was(j) = k
  <2>1. SUFFICES ASSUME NEW k \in DOMAIN rs, k # i
                 PROVE  \E j \in DOMAIN left : was(j) = k
    OBVIOUS
  <2>2. CASE k < i
    <3>1. k \in DOMAIN left /\ was(k) = k
      BY <1>1, <1>2, <2>1, <2>2
    <3> QED  BY <3>1
  <2>3. CASE k > i
    <3>1. k - 1 \in DOMAIN left /\ was(k - 1) = k
      BY <1>1, <1>2, <2>1, <2>3
    <3> QED  BY <3>1
  <2> QED  BY <1>1, <2>1, <2>2, <2>3
<1> HIDE DEF was
<1>6. Good(left)
  BY <1>2, <1>3 DEF Good
<1>7. \A j \in Awaited(left) : was(j) \in Awaited(rs) /\ was(j) # i
  BY <1>3 DEF Awaited
<1>8. \A k \in Awaited(rs) : k # i => \E j \in Awaited(left) : was(j) = k
  BY <1>3, <1>5 DEF Awaited
<1>9. \A j, k \in Awaited(left) : was(j) = was(k) => j = k
  BY <1>4 DEF Awaited
<1> QED  BY <1>6, <1>7, <1>8, <1>9 DEF AtMostOne, left

LEMMA ReplacedGood ==
    ASSUME NEW rs, Good(rs), NEW i \in DOMAIN rs, NEW r \in Requests, Addressed(r)
    PROVE  /\ Good([rs EXCEPT ![i] = r])
           /\ r.answer.kind = "Delivered" => Awaited([rs EXCEPT ![i] = r]) = Awaited(rs) \ {i}
           /\ r.answer.kind # "Delivered" => Awaited([rs EXCEPT ![i] = r]) = Awaited(rs) \cup {i}
<1> DEFINE after == [rs EXCEPT ![i] = r]
<1>1. rs \in Seq(Requests)
  BY DEF Good
<1>2. /\ after \in Seq(Requests) /\ DOMAIN after = DOMAIN rs /\ after[i] = r
      /\ \A j \in DOMAIN rs \ {i} : after[j] = rs[j]
  BY <1>1
<1> HIDE DEF after
<1>3. Good(after)
  BY <1>2 DEF Good
<1>4. r.answer.kind = "Delivered" => Awaited(after) = Awaited(rs) \ {i}
  BY <1>2 DEF Awaited
<1>5. r.answer.kind # "Delivered" => Awaited(after) = Awaited(rs) \cup {i}
  BY <1>2 DEF Awaited
<1> QED  BY <1>3, <1>4, <1>5 DEF after

LEMMA FinishedGood ==
    ASSUME TypeOK, NEW i \in DOMAIN requests
    PROVE  /\ Good(Finished(i))
           /\ AtMostOne(Awaited(requests)) /\ i \in Awaited(requests) => Awaited(Finished(i)) = {}
<1>1. Good(requests) /\ requests[i] \in Requests /\ Addressed(requests[i])
  BY DEF TypeOK, NetType, Good
<1>2. CASE requests[i].served
  BY <1>1, <1>2, RemovedGood DEF Finished
<1>3. CASE ~requests[i].served
  <2>1. Delivered \in Answers /\ Delivered.kind = "Delivered"
    BY DEF Delivered, Answer, Answers
  <2> DEFINE r == With(requests[i], FALSE, Delivered)
  <2>2. Finished(i) = [requests EXCEPT ![i] = r]
    BY <1>3 DEF Finished
  <2>3. r \in Requests /\ Addressed(r) /\ r.answer = Delivered
    BY <1>1, <2>1 DEF With, Requests, Addressed
  <2> HIDE DEF r
  <2>4. Good(Finished(i)) /\ Awaited(Finished(i)) = Awaited(requests) \ {i}
    <3>1. r.answer.kind = "Delivered"
      BY <2>1, <2>3
    <3>2. /\ Good([requests EXCEPT ![i] = r])
          /\ Awaited([requests EXCEPT ![i] = r]) = Awaited(requests) \ {i}
      BY <1>1, <2>3, <3>1, ReplacedGood
    <3> QED  BY <2>2, <3>2
  <2> QED  BY <2>4 DEF AtMostOne
<1> QED  BY <1>2, <1>3

LEMMA ServeEffect ==
    ASSUME TypeOK, NEW i \in DOMAIN requests, Serve(i)
    PROVE  /\ Good(requests') /\ store' \in Stores
           /\ Awaited(requests) # {} => Awaited(requests') # {}
           /\ Awaited(requests) = {} => Awaited(requests') = {}
           /\ AtMostOne(Awaited(requests)) => AtMostOne(Awaited(requests'))
<1>1. /\ Good(requests) /\ requests[i] \in Requests /\ Addressed(requests[i])
      /\ requests[i].answer \in Answers
  <2>1. Good(requests) /\ requests[i] \in Requests /\ Addressed(requests[i])
    BY DEF TypeOK, NetType, Good
  <2> QED  BY <2>1 DEF Requests
<1>2. PICK outcome \in Outcomes(requests[i]) :
        /\ store' = outcome.store
        /\ requests' = IF requests[i].answer = Delivered THEN RemoveAt(requests, i)
                       ELSE [requests EXCEPT ![i] =
                                With(@, TRUE, IF @.answer = Waiting THEN outcome.answer
                                              ELSE @.answer)]
  BY DEF Serve
<1>3. /\ outcome.store \in Stores /\ outcome.answer \in Answers
      /\ outcome.answer.kind \notin {"Waiting", "Delivered"}
  BY <1>1, OutcomeType
<1>4. CASE requests[i].answer = Delivered
  <2>1. i \notin Awaited(requests)
    BY <1>4 DEF Awaited, Delivered, Answer
  <2> QED  BY <1>1, <1>2, <1>3, <1>4, <2>1, RemovedGood
<1>5. CASE requests[i].answer # Delivered
  <2> DEFINE answer == IF requests[i].answer = Waiting THEN outcome.answer ELSE requests[i].answer
  <2>1. requests[i].answer.kind # "Delivered"
    BY <1>1, <1>5 DEF Answers, Delivered, Answer
  <2>2. answer \in Answers /\ answer.kind # "Delivered"
    BY <1>1, <1>3, <2>1
  <2> DEFINE r == With(requests[i], TRUE, answer)
  <2>3. requests' = [requests EXCEPT ![i] = r]
    BY <1>2, <1>5
  <2> HIDE DEF answer
  <2>6. r \in Requests /\ Addressed(r) /\ r.answer = answer
    BY <1>1, <2>2 DEF With, Requests, Addressed
  <2> HIDE DEF r
  <2>4. Good(requests') /\ Awaited(requests') = Awaited(requests) \cup {i}
    BY <1>1, <2>2, <2>3, <2>6, ReplacedGood
  <2>5. i \in Awaited(requests)
    BY <2>1 DEF Awaited
  <2>7. Awaited(requests') = Awaited(requests)
    BY <2>4, <2>5
  <2> QED  BY <1>2, <1>3, <2>4, <2>5, <2>7
<1> QED  BY <1>4, <1>5

LEMMA GiveUpEffect ==
    ASSUME TypeOK, NEW i \in DOMAIN requests, GiveUp(i)
    PROVE  Good(requests') /\ Awaited(requests') = Awaited(requests)
<1>1. Good(requests) /\ requests[i] \in Requests /\ Addressed(requests[i])
  BY DEF TypeOK, NetType, Good
<1>2. PICK reached \in BOOLEAN : requests' = [requests EXCEPT ![i] = With(@, ~reached, Error)]
  BY DEF GiveUp
<1>3. Error \in Answers /\ Error.kind # "Delivered"
  BY DEF Error, Answer, Answers
<1>4. Good(requests') /\ Awaited(requests') = Awaited(requests) \cup {i}
  <2> DEFINE r == With(requests[i], ~reached, Error)
  <2>1. requests' = [requests EXCEPT ![i] = r]
    BY <1>2
  <2>2. r \in Requests /\ Addressed(r) /\ r.answer = Error
    BY <1>1, <1>3 DEF With, Requests, Addressed
  <2> HIDE DEF r
  <2> QED  BY <1>1, <1>3, <2>1, <2>2, ReplacedGood
<1>5. i \in Awaited(requests)
  BY DEF GiveUp, Awaited, Waiting, Answer
<1> QED  BY <1>4, <1>5

(* An answer is received once; what follows is at most one request.        *)
Follows(r, i) ==
    /\ New(r) /\ requests' = Append(Finished(i), r) /\ loading' = TRUE
    /\ \/ r.op = "RefreshPresets" /\ r.device = device_name /\ ChangeAnswered(i)
       \/ r.op = "RefreshStatus" /\ ChangeAnswered(i)

LEMMA ResultNet ==
    ASSUME TypeOK, NEW i \in DOMAIN requests, IpcResult(i)
    PROVE  /\ i \in Awaited(requests)
           /\ \/ requests' = Finished(i) /\ loading' = FALSE
              \/ \E r : Follows(r, i)
           /\ UNCHANGED <<store, overlay, screen, should_quit, recorders, changes>>
<1> DEFINE Net == \/ requests' = Finished(i) /\ loading' = FALSE
                  \/ \E r : Follows(r, i)
<1>1. ASSUME NEW ops, NEW kind \in {"Ok", "Error", "Status", "Devices", "Presets", "PresetData"},
             Answered(i, ops, kind)
      PROVE  i \in Awaited(requests)
  BY <1>1 DEF Answered, Awaited
<1>2. ASSUME Finish(i, Finished(i))
      PROVE  Net
  BY <1>2 DEF Finish
<1>3. ASSUME NEW s \in {"Presets", "Status"}, ChangeAnswered(i),
             Finish(i, Refreshing(Finished(i), s))
      PROVE  Net
  <2>1. CASE Refreshing(Finished(i), s) = Finished(i)
    BY <1>2, <1>3, <2>1
  <2>2. ASSUME NEW r, New(r), Loads(r, s), Refreshing(Finished(i), s) = Append(Finished(i), r)
        PROVE  Net
    <3>1. Append(Finished(i), r) # Finished(i)
      BY <2>2, FinishedGood, NewGood
    <3>2. /\ requests' = Append(Finished(i), r)
          /\ loading' = (Append(Finished(i), r) # Finished(i))
      BY <1>3, <2>2 DEF Finish
    <3>3. loading' = TRUE
      BY <3>1, <3>2
    <3> QED  BY <1>3, <2>2, <3>2, <3>3 DEF Follows, Loads
  <2> HIDE DEF Net
  <2> QED  BY <2>1, <2>2, RefreshingEffect
<1> HIDE DEF Net
<1>4. CASE DevicesAnswered(i) \/ PresetsAnswered(i)
  BY <1>1, <1>2, <1>4 DEF DevicesAnswered, PresetsAnswered, Net
<1>5. CASE EntriesAnswered(i) \/ SaveAnswered(i)
  BY <1>1, <1>2, <1>5 DEF EntriesAnswered, SaveAnswered, Net
<1>6. CASE ChangeAnswered(i)
  <2>1. i \in Awaited(requests)
    BY <1>1, <1>6 DEF ChangeAnswered
  <2>2. \E s \in {"Presets", "Status"} : Finish(i, Refreshing(Finished(i), s))
    BY <1>6 DEF ChangeAnswered
  <2>3. Net
    BY <1>3, <1>6, <2>2
  <2> QED  BY <1>6, <2>1, <2>3 DEF ChangeAnswered, Net
<1>7. CASE OtherAnswered(i)
  <2>1. i \in Awaited(requests)
    BY <1>1, <1>7 DEF OtherAnswered
  <2> QED  BY <1>2, <1>7, <2>1 DEF OtherAnswered, Net
<1> QED  BY <1>4, <1>5, <1>6, <1>7 DEF IpcResult

LEMMA ResultGood ==
    ASSUME TypeOK, NEW i \in DOMAIN requests, IpcResult(i), UNCHANGED setting
    PROVE  NetType' /\ (loading' => Awaited(requests') # {})
           /\ (AtMostOne(Awaited(requests)) =>
                    AtMostOne(Awaited(requests')) /\ (~loading' => Awaited(requests') = {}))
<1>1. /\ Good(Finished(i)) /\ store' = store /\ store \in Stores
      /\ AtMostOne(Awaited(requests)) => Awaited(Finished(i)) = {}
  BY FinishedGood, ResultNet, NetNow
<1>2. CASE requests' = Finished(i) /\ loading' = FALSE
  <2>1. loading' \in BOOLEAN /\ ~loading'
    BY <1>2
  <2>2. Good(requests') /\ store' \in Stores
    BY <1>1, <1>2
  <2>3. NetType'
    BY <2>1, <2>2, NetNext
  <2>4. AtMostOne(Awaited(requests)) => Awaited(requests') = {}
    BY <1>1, <1>2
  <2>5. AtMostOne({})
    BY DEF AtMostOne
  <2> QED  BY <2>1, <2>3, <2>4, <2>5
<1>3. ASSUME NEW r, New(r), requests' = Append(Finished(i), r), loading' = TRUE
      PROVE  /\ NetType' /\ Awaited(requests') # {}
             /\ AtMostOne(Awaited(requests)) => AtMostOne(Awaited(requests'))
  <2>1. /\ Good(requests') /\ Awaited(requests') # {}
        /\ Awaited(Finished(i)) = {} => AtMostOne(Awaited(requests'))
    BY <1>1, <1>3, NewGood
  <2>2. loading' \in BOOLEAN
    BY <1>3
  <2>3. NetType'
    BY <1>1, <2>1, <2>2, NetNext
  <2> QED  BY <1>1, <2>1, <2>3
<1> QED  BY <1>2, <1>3, ResultNet DEF Follows

LEMMA KeyStore ==
    ASSUME Key
    PROVE  store' = store
<1>1. CASE \/ CtrlC \/ Quit \/ Tab \/ Esc \/ Enter \/ Move \/ Reload \/ AskPreset \/ AskEntry
           \/ save_preset \/ apply_preset \/ StopInjections \/ start_recording
  BY <1>1 DEF CtrlC, Quit, Tab, Esc, Enter, Move, Reload, AskPreset, AskEntry, save_preset,
              apply_preset, StopInjections, start_recording
<1>2. CASE \/ CloseOverlay \/ Recorded \/ BuildChain \/ SaveChain \/ CreatePreset
           \/ RenameMapping \/ ConfirmDeletePreset \/ ConfirmDeleteMapping
           \/ ConfirmLeaveEditor \/ ConfirmQuit
  BY <1>2 DEF CloseOverlay, Recorded, BuildChain, SaveChain, CreatePreset, RenameMapping,
              ConfirmDeletePreset, ConfirmDeleteMapping, ConfirmLeaveEditor, ConfirmQuit
<1> QED  BY <1>1, <1>2 DEF Key

LEMMA KeyGood ==
    ASSUME TypeOK, Key, UNCHANGED setting
    PROVE  NetType'
<1>1. store' = store
  BY KeyStore
<1>2. Good(requests) /\ store \in Stores /\ loading \in BOOLEAN
  BY NetNow
<1>3. CASE UNCHANGED net
  BY <1>1, <1>2, <1>3, NetNext DEF net
<1>4. ASSUME NEW r, Sends(r)
      PROVE  NetType'
  <2>1. Good(requests') /\ loading' = TRUE
    BY <1>2, <1>4, NewGood DEF Sends
  <2>2. loading' \in BOOLEAN
    BY <2>1
  <2> QED  BY <1>1, <1>2, <2>1, <2>2, NetNext
<1> QED  BY <1>3, <1>4, KeyNet

LEMMA ResultLists ==
    ASSUME TypeOK, SelectionValid, NEW i \in DOMAIN requests, IpcResult(i), UNCHANGED setting
    PROVE  /\ ListsType' /\ EntriesType' /\ SelectionValid'
<1>1. /\ ListsType /\ EntriesType
      /\ InRange(devices, selected_device) /\ InRange(presets, selected_preset)
      /\ InRange(entries, selected_entry)
      /\ devices \in Seq(Devices) /\ DeviceLists \subseteq Seq(Devices) /\ DeviceLists' = DeviceLists
  BY Chosen DEF TypeOK, SelectionValid, DeviceLists
<1>2. requests[i].answer \in Answers /\ requests[i] \in Requests /\ Addressed(requests[i])
  <2>1. requests[i] \in Requests /\ Addressed(requests[i])
    BY DEF TypeOK, NetType
  <2> QED  BY <2>1 DEF Requests
<1>3. CASE UNCHANGED <<lists, mappings>>
  BY <1>1, <1>3 DEF lists, mappings, ListsType, EntriesType, SelectionValid, InRange
<1>4. CASE DevicesAnswered(i)
  <2>1. devices' \in DeviceLists /\ selected_device' = 1
    BY <1>2, <1>4 DEF DevicesAnswered, Answered, Answers
  <2>2. UNCHANGED <<presets, selected_preset, entries, selected_entry, unsaved_changes, origin>>
    BY <1>4 DEF DevicesAnswered, mappings
  <2>3. InRange(devices', 1)
    BY <1>1, <2>1 DEF InRange
  <2> QED  BY <1>1, <2>1, <2>2, <2>3 DEF ListsType, EntriesType, SelectionValid, InRange
<1>5. CASE PresetsAnswered(i)
  <2>1. presets' \in Seq(Names) /\ selected_preset' = 1
    BY <1>2, <1>5 DEF PresetsAnswered, Answered, Answers
  <2>2. UNCHANGED <<devices, selected_device, entries, selected_entry, unsaved_changes, origin>>
    BY <1>5 DEF PresetsAnswered, mappings
  <2>3. InRange(presets', 1)
    BY <2>1 DEF InRange
  <2> QED  BY <1>1, <2>1, <2>2, <2>3 DEF ListsType, EntriesType, SelectionValid, InRange
<1>6. CASE EntriesAnswered(i)
  <2>1. entries' \in Seq(Mappings) /\ selected_entry' = 1 /\ unsaved_changes' = FALSE
    BY <1>2, <1>6 DEF EntriesAnswered, Answered, Answers
  <2>2. origin' \in Slots
    BY <1>2, <1>6 DEF EntriesAnswered, Answered, Addressed, OnPreset
  <2>3. UNCHANGED <<devices, selected_device, presets, selected_preset>>
    BY <1>6 DEF EntriesAnswered, lists
  <2>4. InRange(entries', 1)
    BY <2>1 DEF InRange
  <2>5. EntriesType'
    <3>1. unsaved_changes' \in BOOLEAN
      BY <2>1
    <3> QED  BY <2>1, <2>2, <3>1 DEF EntriesType
  <2>6. ListsType'
    BY <1>1, <2>3 DEF ListsType
  <2> QED  BY <1>1, <2>1, <2>3, <2>4, <2>5, <2>6 DEF SelectionValid, InRange
<1>7. CASE SaveAnswered(i)
  BY <1>1, <1>7 DEF SaveAnswered, lists, ListsType, EntriesType, SelectionValid, InRange
<1>8. CASE ChangeAnswered(i) \/ OtherAnswered(i)
  BY <1>3, <1>8 DEF ChangeAnswered, OtherAnswered
<1> QED  BY <1>4, <1>5, <1>6, <1>7, <1>8 DEF IpcResult

LEMMA ScreenKept ==
    ASSUME TypeOK, UNCHANGED <<overlay, screen, should_quit, recorders, changes, setting>>
    PROVE  ScreenType'
  BY DEF TypeOK, ScreenType

LEMMA ListsKept ==
    ASSUME TypeOK, SelectionValid, UNCHANGED <<lists, mappings, setting>>
    PROVE  ListsType' /\ EntriesType' /\ SelectionValid'
<1>1. /\ ListsType /\ EntriesType
      /\ InRange(devices, selected_device) /\ InRange(presets, selected_preset)
      /\ InRange(entries, selected_entry) /\ DeviceLists' = DeviceLists
  BY DEF TypeOK, SelectionValid, DeviceLists
<1> QED  BY <1>1 DEF lists, mappings, ListsType, EntriesType, SelectionValid, InRange

LEMMA TypeStep ==
    ASSUME TypeOK, SelectionValid, [Next]_vars
    PROVE  TypeOK' /\ SelectionValid'
<1>1. CASE UNCHANGED vars
  <2>1. NetType'
    BY <1>1, NetNow, NetNext DEF vars, net
  <2> QED  BY <1>1, <2>1, ScreenKept, ListsKept DEF vars, TypeOK
<1>2. CASE Key /\ UNCHANGED setting
  BY <1>2, KeyScreen, KeyLists, KeyEntries, KeyGood DEF TypeOK, SelectionValid
<1>3. CASE (handle_record_error \/ handle_record_stopped) /\ UNCHANGED setting
  <2>1. /\ UNCHANGED <<lists, mappings, net, store, screen, should_quit, changes>>
        /\ recorders' = recorders - 1 /\ recorders > 0
        /\ overlay' = overlay \/ overlay' = NoOverlay
    BY <1>3 DEF handle_record_error, handle_record_stopped
  <2>2. NetType'
    BY <1>3, <2>1, NetNow, NetNext DEF net
  <2>3. ScreenType'
    BY <1>3, <2>1 DEF TypeOK, ScreenType, NoOverlay
  <2> QED  BY <1>3, <2>1, <2>2, <2>3, ListsKept DEF TypeOK
<1>4. ASSUME NEW i \in DOMAIN requests, Serve(i) \/ GiveUp(i), UNCHANGED setting
      PROVE  TypeOK' /\ SelectionValid'
  <2>1. UNCHANGED <<lists, mappings, loading, overlay, screen, should_quit, recorders, changes>>
    BY <1>4 DEF Serve, GiveUp
  <2>2. Good(requests') /\ store' \in Stores
    BY <1>4, ServeEffect, GiveUpEffect, NetNow DEF GiveUp
  <2>3. NetType'
    BY <1>4, <2>1, <2>2, NetNow, NetNext
  <2> QED  BY <1>4, <2>1, <2>3, ScreenKept, ListsKept DEF TypeOK
<1>5. ASSUME NEW i \in DOMAIN requests, IpcResult(i), UNCHANGED setting
      PROVE  TypeOK' /\ SelectionValid'
  BY <1>5, ResultNet, ResultGood, ResultLists, ScreenKept DEF TypeOK
<1> QED  BY <1>1, <1>2, <1>3, <1>4, <1>5 DEF Next

LEMMA InitGood ==
    ASSUME Init
    PROVE  Good(requests) /\ Awaited(requests) = {1} /\ AtMostOne({1})
<1> DEFINE r == Request("RefreshDevices", None, None, <<>>)
<1>1. New(r)
  <2>1. "RefreshDevices" \in Ops /\ <<>> \in Seq(Mappings)
    BY DEF Ops
  <2>2. Addressed(r)
    BY DEF Addressed, Request, OnPreset
  <2>3. None \in Devices \cup {None} /\ None \in Names \cup {None}
    OBVIOUS
  <2> QED  BY <2>1, <2>2, <2>3, RequestNew
<1>2. r \in Requests /\ Addressed(r) /\ r.answer.kind = "Waiting"
  BY <1>1 DEF New, Waiting, Answer
<1>3. requests = <<r>>
  BY DEF Init
<1> HIDE DEF r
<1>4. requests \in Seq(Requests) /\ DOMAIN requests = {1} /\ requests[1] = r
  BY <1>2, <1>3
<1> QED  BY <1>2, <1>4 DEF Good, Awaited, AtMostOne

LEMMA InitType ==
    ASSUME Init
    PROVE  TypeOK /\ SelectionValid
<1>1. setting \in Settings /\ store \in Stores
  BY EditorAssumption DEF Init
<1>2. ScreenType
  BY <1>1 DEF Init, ScreenType, NoOverlay
<1>3. ListsType /\ EntriesType /\ SelectionValid
  <2>1. ListsType /\ SelectionValid
    BY DEF Init, ListsType, SelectionValid, InRange
  <2>2. unsaved_changes \in BOOLEAN
    BY DEF Init
  <2>3. EntriesType
    BY <2>2 DEF Init, EntriesType
  <2> QED  BY <2>1, <2>3
<1>4. NetType
  <2>1. loading \in BOOLEAN
    BY DEF Init
  <2> QED  BY <1>1, <2>1, InitGood DEF NetType, Good
<1> QED  BY <1>2, <1>3, <1>4 DEF TypeOK

LEMMA TypeAlways == Spec => [](TypeOK /\ SelectionValid)
<1>1. Init => TypeOK /\ SelectionValid
  BY InitType
<1>2. (TypeOK /\ SelectionValid) /\ [Next]_vars => (TypeOK /\ SelectionValid)'
  BY TypeStep
<1> QED  BY <1>1, <1>2, PTL DEF Spec

(* Every field of the App and every answer has its type, whatever answers  *)
(* come late, twice or never (the fields of App in app.rs).                *)
THEOREM TypeCorrect == Spec => []TypeOK
<1>1. TypeOK /\ SelectionValid => TypeOK
  OBVIOUS
<1> QED  BY <1>1, TypeAlways, PTL

(* What is selected is in its list, whatever answers replace the list      *)
(* while something is selected (presets[selected_preset] in app.rs).       *)
THEOREM SelectionsStayValid == Spec => []SelectionValid
<1>1. TypeOK /\ SelectionValid => SelectionValid
  OBVIOUS
<1> QED  BY <1>1, TypeAlways, PTL

-----------------------------------------------------------------------------
(* Loading, and the user who waits for it.                                 *)

LEMMA LoadingNow == LoadingJustified <=> (loading => Awaited(requests) # {})
BY DEF LoadingJustified, Awaited

LEMMA LoadingNext == LoadingJustified' <=> (loading' => Awaited(requests') # {})
BY DEF LoadingJustified, Awaited

LEMMA LoadingStep ==
    ASSUME TypeOK, SelectionValid, LoadingJustified, [Next]_vars
    PROVE  LoadingJustified'
<1>1. Good(requests) /\ (loading => Awaited(requests) # {})
  BY NetNow, LoadingNow
<1>2. CASE UNCHANGED net
  BY <1>1, <1>2, LoadingNext DEF net
<1>3. CASE Key
  <2>1. ASSUME NEW r, Sends(r)
        PROVE  LoadingJustified'
    BY <1>1, <2>1, NewGood, LoadingNext DEF Sends
  <2> QED  BY <1>2, <1>3, <2>1, KeyNet
<1>4. CASE handle_record_error \/ handle_record_stopped \/ UNCHANGED vars
  BY <1>2, <1>4 DEF handle_record_error, handle_record_stopped, vars
<1>5. ASSUME NEW i \in DOMAIN requests, Serve(i) \/ GiveUp(i)
      PROVE  LoadingJustified'
  <2>1. loading' = loading
    BY <1>5 DEF Serve, GiveUp
  <2>2. Awaited(requests) # {} => Awaited(requests') # {}
    BY <1>5, ServeEffect, GiveUpEffect
  <2> QED  BY <1>1, <2>1, <2>2, LoadingNext
<1>6. ASSUME NEW i \in DOMAIN requests, IpcResult(i), UNCHANGED setting
      PROVE  LoadingJustified'
  BY <1>6, ResultGood, LoadingNext
<1> QED  BY <1>3, <1>4, <1>5, <1>6 DEF Next

(* "Loading..." is only shown while an answer that clears it is still to   *)
(* come (loading in app.rs).                                               *)
THEOREM LoadingIsJustified == Spec => []LoadingJustified
<1>1. Init => LoadingJustified
  <2>1. ASSUME Init
        PROVE  LoadingJustified
    BY <2>1, InitGood, LoadingNow
  <2> QED  BY <2>1
<1>2. (TypeOK /\ SelectionValid) /\ LoadingJustified /\ [Next]_vars => LoadingJustified'
  BY LoadingStep
<1> QED  BY <1>1, <1>2, TypeAlways, PTL DEF Spec

LEMMA KeyListens ==
    ASSUME Key, Patient, loading \in BOOLEAN
    PROVE  loading = FALSE
<1>1. SUFFICES Listens
  BY <1>1 DEF Listens
<1>2. CASE \/ CtrlC \/ Quit \/ Tab \/ Esc \/ Enter \/ Move \/ Reload \/ AskPreset \/ AskEntry
           \/ save_preset \/ apply_preset \/ StopInjections \/ start_recording
  BY <1>2 DEF CtrlC, Quit, Tab, Esc, Enter, Move, Reload, AskPreset, AskEntry, save_preset,
              apply_preset, StopInjections, start_recording, Normal
<1>3. CASE \/ CloseOverlay \/ Recorded \/ BuildChain \/ SaveChain \/ CreatePreset
           \/ RenameMapping \/ ConfirmDeletePreset \/ ConfirmDeleteMapping
           \/ ConfirmLeaveEditor \/ ConfirmQuit
  BY <1>3 DEF CloseOverlay, Recorded, BuildChain, SaveChain, CreatePreset, RenameMapping,
              ConfirmDeletePreset, ConfirmDeleteMapping, ConfirmLeaveEditor, ConfirmQuit, Confirmed
<1> QED  BY <1>2, <1>3 DEF Key

Waits ==
    /\ AtMostOne(Awaited(requests))
    /\ loading = FALSE => Awaited(requests) = {}
    /\ overlay.kind # "none" => loading = FALSE

LEMMA WaitNow ==
    ASSUME loading \in BOOLEAN
    PROVE  WaitShape <=> (Patient => Waits)
BY DEF WaitShape, Waits, AtMostOne

LEMMA WaitStep ==
    ASSUME TypeOK, SelectionValid, Patient, Waits, [Next]_vars
    PROVE  Waits'
<1>1. Good(requests) /\ loading \in BOOLEAN
  BY NetNow
<1>2. CASE UNCHANGED net /\ (overlay' = overlay \/ overlay' = NoOverlay)
  BY <1>2 DEF Waits, net, NoOverlay
<1>3. CASE Key
  <2>1. loading = FALSE /\ Awaited(requests) = {}
    BY <1>1, <1>3, KeyListens DEF Waits
  <2>2. ASSUME NEW r, Sends(r)
        PROVE  Waits'
    <3>1. AtMostOne(Awaited(requests'))
      BY <1>1, <2>1, <2>2, NewGood DEF Sends
    <3>2. loading' = TRUE /\ overlay'.kind = "none"
      BY <2>2 DEF Sends, NoOverlay
    <3> QED  BY <3>1, <3>2 DEF Waits
  <2>3. CASE UNCHANGED net
    BY <2>1, <2>3 DEF Waits, net
  <2> QED  BY <1>3, <2>2, <2>3, KeyNet
<1>4. CASE handle_record_error \/ handle_record_stopped \/ UNCHANGED vars
  BY <1>2, <1>4 DEF handle_record_error, handle_record_stopped, vars
<1>5. ASSUME NEW i \in DOMAIN requests, Serve(i) \/ GiveUp(i)
      PROVE  Waits'
  <2>1. loading' = loading /\ overlay' = overlay
    BY <1>5 DEF Serve, GiveUp
  <2>2. /\ Awaited(requests) = {} => Awaited(requests') = {}
        /\ AtMostOne(Awaited(requests)) => AtMostOne(Awaited(requests'))
    BY <1>5, ServeEffect, GiveUpEffect
  <2> QED  BY <2>1, <2>2 DEF Waits
<1>6. ASSUME NEW i \in DOMAIN requests, IpcResult(i), UNCHANGED setting
      PROVE  Waits'
  <2>1. /\ NetType' /\ AtMostOne(Awaited(requests'))
        /\ ~loading' => Awaited(requests') = {}
    BY <1>6, ResultGood DEF Waits
  <2>2. i \in Awaited(requests) /\ overlay' = overlay
    BY <1>6, ResultNet
  <2>3. overlay.kind = "none"
    BY <2>2 DEF Waits
  <2>4. loading' \in BOOLEAN
    BY <2>1 DEF NetType
  <2> QED  BY <2>1, <2>2, <2>3, <2>4 DEF Waits
<1> QED  BY <1>3, <1>4, <1>5, <1>6 DEF Next

(* Dialogs that name nothing.                                              *)
LEMMA DialogNext ==
    ASSUME \/ overlay' = NoOverlay \/ overlay' = [kind |-> "record"]
           \/ overlay' = Confirm("Quit", None) \/ overlay' = Confirm("LeaveEditor", None)
           \/ overlay' = [kind |-> "input", action |-> "NewPreset"]
    PROVE  DialogShape'
<1>1. CASE overlay' = NoOverlay
  BY <1>1 DEF DialogShape, NoOverlay
<1>2. CASE overlay' = [kind |-> "record"]
  BY <1>2 DEF DialogShape
<1>3. CASE overlay' = Confirm("Quit", None) \/ overlay' = Confirm("LeaveEditor", None)
  BY <1>3 DEF DialogShape, Confirm
<1>4. CASE overlay' = [kind |-> "input", action |-> "NewPreset"]
  BY <1>4 DEF DialogShape
<1> QED  BY <1>1, <1>2, <1>3, <1>4

LEMMA DialogKept ==
    ASSUME DialogShape, UNCHANGED <<overlay, lists, entries, selected_entry, setting>>
    PROVE  DialogShape'
BY DEF DialogShape, lists, preset_name, Selected, Patient

LEMMA DialogKey ==
    ASSUME TypeOK, SelectionValid, DialogShape, Patient, Key, UNCHANGED setting
    PROVE  DialogShape'
<1>1. CASE overlay' = NoOverlay
  BY <1>1, DialogNext
<1>2. CASE \/ CtrlC \/ Tab \/ Move \/ Enter \/ Reload \/ save_preset \/ apply_preset
           \/ StopInjections
  BY <1>1, <1>2 DEF CtrlC, Tab, Move, Enter, Reload, save_preset, apply_preset,
                    StopInjections, Normal
<1>3. CASE \/ CloseOverlay \/ SaveChain \/ CreatePreset \/ RenameMapping
           \/ ConfirmDeletePreset \/ ConfirmDeleteMapping \/ ConfirmLeaveEditor \/ ConfirmQuit
  BY <1>1, <1>3 DEF CloseOverlay, SaveChain, CreatePreset, RenameMapping, ConfirmDeletePreset,
                    ConfirmDeleteMapping, ConfirmLeaveEditor, ConfirmQuit, Confirmed
<1>4. CASE Quit
  <2>1. overlay' = NoOverlay \/ overlay' = Confirm("Quit", None)
    BY <1>4 DEF Quit, Normal
  <2> QED  BY <2>1, DialogNext
<1>5. CASE Esc
  <2>1. overlay' = NoOverlay \/ overlay' = Confirm("LeaveEditor", None)
    BY <1>5 DEF Esc, Normal
  <2> QED  BY <2>1, DialogNext
<1>6. CASE start_recording
  BY <1>6, DialogNext DEF start_recording
<1>7. CASE AskPreset
  <2>1. CASE overlay' = [kind |-> "input", action |-> "NewPreset"]
    BY <2>1, DialogNext
  <2>2. CASE overlay' = Confirm("DeletePreset", preset_name)
    <3>1. preset_name' = preset_name
      BY <1>7 DEF AskPreset, lists, preset_name, Selected
    <3> QED  BY <2>2, <3>1 DEF DialogShape, Confirm
  <2> QED  BY <1>7, <2>1, <2>2 DEF AskPreset
<1>8. CASE AskEntry
  <2> DEFINE input == entries[selected_entry].input
  <2>1. selected_entry \in DOMAIN entries /\ UNCHANGED <<entries, selected_entry>>
    BY <1>8 DEF AskEntry, SelectionValid, InRange, mappings
  <2>2. CASE overlay' = Confirm("DeleteMapping", input)
    BY <2>1, <2>2 DEF DialogShape, Confirm
  <2>3. CASE overlay' = [kind |-> "input", action |-> "RenameMapping",
                         index |-> selected_entry, named |-> input]
    BY <2>1, <2>3 DEF DialogShape
  <2>4. CASE overlay' = SymbolSearch(entries[selected_entry].output, input)
    BY <2>1, <2>4 DEF DialogShape, SymbolSearch
  <2> QED  BY <1>8, <2>2, <2>3, <2>4 DEF AskEntry
<1>9. CASE Recorded
  <2>1. PICK code \in Codes : /\ entries' = Append(entries, Mapping(code, None, code))
                              /\ overlay' = SymbolSearch(None, code)
                              /\ selected_entry' = Len(entries) + 1
    BY <1>9 DEF Recorded, Edit
  <2>2. Mapping(code, None, code) \in Mappings /\ Mapping(code, None, code).input = code
    BY EditorAssumption DEF Mapping, Mappings
  <2> HIDE DEF Mapping
  <2>3. /\ selected_entry' \in DOMAIN entries'
        /\ entries'[selected_entry'] = Mapping(code, None, code)
    BY <2>1, <2>2 DEF TypeOK, EntriesType
  <2> QED  BY <2>1, <2>2, <2>3 DEF DialogShape, SymbolSearch
<1>10. CASE BuildChain
  <2>1. PICK symbol \in Symbols \cup {None} : overlay' = SymbolSearch(symbol, overlay.named)
    BY <1>10 DEF BuildChain
  <2>2. overlay.kind = "symbols" /\ UNCHANGED <<entries, selected_entry>>
    BY <1>10 DEF BuildChain, mappings
  <2>3. selected_entry \in DOMAIN entries /\ overlay.named = entries[selected_entry].input
    BY <2>2 DEF DialogShape
  <2> QED  BY <2>1, <2>2, <2>3 DEF DialogShape, SymbolSearch
<1> QED  BY <1>2, <1>3, <1>4, <1>5, <1>6, <1>7, <1>8, <1>9, <1>10 DEF Key

LEMMA DialogStep ==
    ASSUME TypeOK, SelectionValid, Patient, Waits, DialogShape, [Next]_vars
    PROVE  DialogShape'
<1>1. CASE Key /\ UNCHANGED setting
  BY <1>1, DialogKey
<1>2. CASE UNCHANGED <<overlay, lists, mappings, setting>>
  BY <1>2, DialogKept DEF mappings
<1>3. CASE (handle_record_error \/ handle_record_stopped) /\ UNCHANGED setting
  BY <1>2, <1>3, DialogNext DEF handle_record_error, handle_record_stopped
<1>4. ASSUME NEW i \in DOMAIN requests, Serve(i) \/ GiveUp(i), UNCHANGED setting
      PROVE  DialogShape'
  BY <1>2, <1>4 DEF Serve, GiveUp
<1>5. ASSUME NEW i \in DOMAIN requests, IpcResult(i)
      PROVE  DialogShape'
  <2>1. i \in Awaited(requests) /\ overlay' = overlay
    BY <1>5, ResultNet
  <2>2. overlay'.kind = "none"
    BY <2>1 DEF Waits
  <2> QED  BY <2>2 DEF DialogShape
<1> QED  BY <1>1, <1>2, <1>3, <1>4, <1>5 DEF Next, vars

DialogInv == WaitShape /\ DialogShape

LEMMA DialogInvStep ==
    ASSUME TypeOK, SelectionValid, DialogInv, [Next]_vars
    PROVE  DialogInv'
<1>1. Patient' = Patient
  BY DEF Next, vars, Patient
<1>2. CASE ~Patient
  BY <1>1, <1>2 DEF DialogInv, WaitShape, DialogShape
<1>3. CASE Patient
  <2>1. Waits /\ DialogShape
    BY <1>3, NetNow, WaitNow DEF DialogInv
  <2>2. Waits' /\ DialogShape'
    BY <1>3, <2>1, WaitStep, DialogStep
  <2>3. WaitShape'
    <3>1. loading' \in BOOLEAN
      BY TypeStep DEF TypeOK, NetType
    <3> QED  BY <2>2, <3>1 DEF WaitShape, Waits, AtMostOne
  <2> QED  BY <2>2, <2>3 DEF DialogInv
<1> QED  BY <1>2, <1>3

(* A user who waits never has two requests to wait for, and the dialog     *)
(* that is open is about what is selected (overlay, loading in app.rs).    *)
LEMMA DialogInvariant == Spec => []DialogInv
<1>1. Init => DialogInv
  <2>1. ASSUME Init
        PROVE  DialogInv
    <3>1. overlay.kind = "none" /\ loading = TRUE
      BY <2>1 DEF Init, NoOverlay
    <3>2. \A i, j \in Awaited(requests) : i = j
      BY <2>1, InitGood
    <3>3. WaitShape
      BY <3>1, <3>2 DEF WaitShape
    <3>4. DialogShape
      BY <3>1 DEF DialogShape
    <3> QED  BY <3>3, <3>4 DEF DialogInv
  <2> QED  BY <2>1
<1>2. (TypeOK /\ SelectionValid) /\ DialogInv /\ [Next]_vars => DialogInv'
  BY DialogInvStep
<1> QED  BY <1>1, <1>2, TypeAlways, PTL DEF Spec

-----------------------------------------------------------------------------
(* What dialogs act on.                                                    *)

LEMMA Sent ==
    ASSUME TypeOK, [Next]_vars, NewRequest
    PROVE  \/ Key /\ Sends(Last(requests'))
           \/ \E i \in DOMAIN requests : Follows(Last(requests'), i)
<1>1. /\ requests \in Seq(Requests) /\ Len(requests) \in Nat
      /\ Len(requests') > Len(requests)
  BY NetNow DEF Good, NewRequest
<1>2. ASSUME UNCHANGED requests
      PROVE  FALSE
  BY <1>1, <1>2
<1>3. CASE Key
  <2>1. ASSUME NEW r, Sends(r)
        PROVE  Last(requests') = r
    BY <1>1, <2>1 DEF Sends, New, Last
  <2> QED  BY <1>2, <1>3, <2>1, KeyNet DEF net
<1>4. CASE handle_record_error \/ handle_record_stopped \/ UNCHANGED vars
  BY <1>2, <1>4 DEF handle_record_error, handle_record_stopped, vars, net
<1>5. ASSUME NEW i \in DOMAIN requests, Serve(i)
      PROVE  FALSE
  <2>1. CASE requests' = RemoveAt(requests, i)
    <3>1. Len(RemoveAt(requests, i)) = Len(requests) - 1
      BY <1>1, Removed
    <3> QED  BY <1>1, <2>1, <3>1
  <2>2. ASSUME NEW r, requests' = [requests EXCEPT ![i] = r]
        PROVE  FALSE
    <3>1. Len([requests EXCEPT ![i] = r]) = Len(requests)
      BY <1>1
    <3> QED  BY <1>1, <2>2, <3>1
  <2> QED  BY <1>5, <2>1, <2>2 DEF Serve
<1>6. ASSUME NEW i \in DOMAIN requests, GiveUp(i)
      PROVE  FALSE
  <2>1. PICK r : requests' = [requests EXCEPT ![i] = r]
    BY <1>6 DEF GiveUp
  <2>2. Len([requests EXCEPT ![i] = r]) = Len(requests)
    BY <1>1
  <2> QED  BY <1>1, <2>1, <2>2
<1>7. ASSUME NEW i \in DOMAIN requests, IpcResult(i)
      PROVE  Follows(Last(requests'), i)
  <2>1. Finished(i) \in Seq(Requests) /\ Len(Finished(i)) <= Len(requests)
    <3>1. CASE requests[i].served
      <4>1. Len(RemoveAt(requests, i)) = Len(requests) - 1
        BY <1>1, Removed
      <4>2. Finished(i) = RemoveAt(requests, i)
        BY <3>1 DEF Finished
      <4> QED  BY <1>1, <4>1, <4>2, FinishedGood DEF Good
    <3>2. CASE ~requests[i].served
      <4>1. \A r : Len([requests EXCEPT ![i] = r]) = Len(requests)
        BY <1>1
      <4>2. \E r : Finished(i) = [requests EXCEPT ![i] = r]
        BY <3>2 DEF Finished
      <4> QED  BY <1>1, <4>1, <4>2, FinishedGood DEF Good
    <3> QED  BY <3>1, <3>2
  <2>2. requests' # Finished(i)
    BY <1>1, <2>1
  <2>3. PICK r : Follows(r, i)
    BY <1>7, <2>2, ResultNet
  <2>4. Last(requests') = r
    BY <2>1, <2>3 DEF Follows, New, Last
  <2> QED  BY <2>3, <2>4
<1> QED  BY <1>3, <1>4, <1>5, <1>6, <1>7 DEF Next

(* The preset that a user who waits deletes is the one the dialog names:   *)
(* handle_confirm reads the selection again (app.rs).                      *)
THEOREM DeletesWhatItNames == Spec => PatientDeletesTheNamed
<1>1. TypeOK /\ DialogInv /\ [Next]_vars => (Patient => DeletesItsName)
  <2>1. ASSUME TypeOK, DialogInv, [Next]_vars, Patient, NewRequest,
               Last(requests').op = "DeletePreset"
        PROVE  Last(requests').preset = overlay.named
    <3>1. \A i : ~Follows(Last(requests'), i)
      BY <2>1 DEF Follows
    <3>2. Purpose(Last(requests'))
      BY <2>1, <3>1, Sent DEF Sends
    <3>3. ConfirmDeletePreset /\ Last(requests').preset = preset_name
      BY <2>1, <3>2 DEF Purpose
    <3>4. overlay.kind = "confirm" /\ overlay.action = "DeletePreset"
      BY <3>3 DEF ConfirmDeletePreset, Confirmed
    <3>5. overlay.named = preset_name
      BY <2>1, <3>4 DEF DialogInv, DialogShape
    <3> QED  BY <3>3, <3>5
  <2> QED  BY <2>1 DEF DeletesItsName
<1>2. TypeOK /\ SelectionValid => TypeOK
  OBVIOUS
<1> QED  BY <1>1, <1>2, TypeAlways, DialogInvariant, PTL DEF Spec, PatientDeletesTheNamed

LEMMA Least ==
    ASSUME NEW S \in SUBSET Nat, S # {}
    PROVE  \E m \in S : \A n \in S : m <= n
<1>1. IsWellFoundedOn({p \in Nat \X Nat : p[1] < p[2]}, Nat)
  <2>1. IsWellFoundedOn(OpToRel(<, Nat), Nat)
    BY NatLessThanWellFounded
  <2> QED  BY <2>1 DEF OpToRel
<1>2. PICK m \in S : \A n \in S : ~(<<n, m>> \in {p \in Nat \X Nat : p[1] < p[2]})
  BY <1>1, WFMin
<1>3. \A n \in S : ~(n < m)
  BY <1>2
<1> QED  BY <1>3

(* Where a list first differs after an element was taken out, it has an    *)
(* element equal to the one that was taken.                                *)
LEMMA FirstDifference ==
    ASSUME NEW S, NEW s \in Seq(S), NEW k \in DOMAIN s, NEW i \in DOMAIN s,
           i \notin DOMAIN RemoveAt(s, k) \/ RemoveAt(s, k)[i] # s[i],
           \A j \in 1..(i - 1) : RemoveAt(s, k)[j] = s[j]
    PROVE  s[i] = s[k]
<1> DEFINE left == RemoveAt(s, k)
<1>1. /\ Len(s) \in Nat /\ DOMAIN s = 1..Len(s) /\ k \in 1..Len(s) /\ i \in 1..Len(s)
      /\ left \in Seq(S) /\ Len(left) = Len(s) - 1
      /\ \A j \in 1..(Len(s) - 1) : left[j] = IF j < k THEN s[j] ELSE s[j + 1]
  <2>1. /\ left \in Seq(S) /\ Len(left) = Len(s) - 1
        /\ \A j \in 1..(Len(s) - 1) : left[j] = IF j < k THEN s[j] ELSE s[j + 1]
    BY Removed
  <2> HIDE DEF left
  <2> QED  BY <2>1
<1>2. DOMAIN left = 1..(Len(s) - 1)
  BY <1>1
<1> HIDE DEF left
<1>3. i >= k
  <2>1. SUFFICES ASSUME i < k
                 PROVE  FALSE
    BY <1>1
  <2>2. i \in DOMAIN left /\ left[i] = s[i]
    BY <1>1, <1>2, <2>1
  <2> QED  BY <2>2 DEF left
<1>4. \A j \in k..(i - 1) : s[j + 1] = s[j]
  <2>1. SUFFICES ASSUME NEW j \in k..(i - 1)
                 PROVE  s[j + 1] = s[j]
    OBVIOUS
  <2>2. left[j] = s[j]
    BY <1>1 DEF left
  <2>3. j \in 1..(Len(s) - 1) /\ ~(j < k)
    BY <1>1
  <2> QED  BY <1>1, <2>2, <2>3
<1> DEFINE others == {j \in k..i : s[j] # s[k]}
<1>5. SUFFICES ASSUME others # {}
               PROVE  FALSE
  BY <1>1, <1>3
<1>6. others \in SUBSET Nat
  BY <1>1
<1> HIDE DEF others
<1>7. PICK m \in others : \A n \in others : m <= n
  BY <1>5, <1>6, Least
<1>8. m \in k..i /\ s[m] # s[k]
  BY <1>7 DEF others
<1>9. m - 1 \in k..(i - 1)
  <2>1. m # k
    BY <1>8
  <2> QED  BY <1>1, <1>8, <2>1
<1>10. s[m] = s[m - 1]
  <2>1. m = (m - 1) + 1
    BY <1>1, <1>8
  <2> QED  BY <1>4, <1>9, <2>1
<1>11. m - 1 \notin others
  BY <1>1, <1>7, <1>8
<1>12. s[m - 1] = s[k]
  BY <1>1, <1>8, <1>9, <1>11 DEF others
<1> QED  BY <1>8, <1>10, <1>12

(* A dialog about a mapping changes the mapping it was opened for, however *)
(* long it was open (symbol search, rename and delete in app.rs).          *)
THEOREM EditsWhatItNames == Spec => EditsTheNamed
<1> DEFINE Named(i) ==
        (i \notin DOMAIN entries' \/ entries'[i] # entries[i]) /\
        (\A j \in 1..(i - 1) : entries'[j] = entries[j]) => entries[i].input = overlay.named
<1>1. ASSUME TypeOK, SelectionValid, DialogInv, Patient, [Next]_vars, entries' # entries,
             overlay # NoOverlay, overlay' = NoOverlay
      PROVE  \A i \in DOMAIN entries : Named(i)
  <2>1. entries \in Seq(Mappings) /\ DialogShape
    BY <1>1 DEF TypeOK, EntriesType, DialogInv
  <2>2. CASE SaveChain
    <3>1. /\ selected_entry \in DOMAIN entries /\ overlay.slots \in Symbols \cup {None}
          /\ overlay.kind = "symbols"
          /\ entries' = [entries EXCEPT ![selected_entry].output = overlay.slots]
      BY <1>1, <2>2, SaveChainEffect
    <3>2. /\ DOMAIN entries' = DOMAIN entries
          /\ \A i \in DOMAIN entries \ {selected_entry} : entries'[i] = entries[i]
      BY <2>1, <3>1, Amended
    <3>3. entries[selected_entry].input = overlay.named
      BY <1>1, <2>1, <3>1 DEF DialogShape
    <3> QED  BY <3>2, <3>3
  <2>3. CASE RenameMapping
    <3>1. PICK name \in Renamings : entries' = [entries EXCEPT ![overlay.index].name = name]
      BY <2>3 DEF RenameMapping, Edit
    <3>2. /\ overlay.index \in DOMAIN entries
          /\ overlay.kind = "input" /\ overlay.action = "RenameMapping"
      BY <2>3 DEF RenameMapping
    <3>3. /\ DOMAIN entries' = DOMAIN entries
          /\ \A i \in DOMAIN entries \ {overlay.index} : entries'[i] = entries[i]
      BY <2>1, <3>1, <3>2, Amended
    <3>4. entries[overlay.index].input = overlay.named
      BY <1>1, <2>1, <3>2 DEF DialogShape
    <3> QED  BY <3>3, <3>4
  <2>4. CASE ConfirmDeleteMapping
    <3>1. /\ selected_entry \in DOMAIN entries /\ entries' = RemoveAt(entries, selected_entry)
          /\ overlay.kind = "confirm" /\ overlay.action = "DeleteMapping"
      BY <2>4 DEF ConfirmDeleteMapping, Confirmed, Edit
    <3>2. entries[selected_entry].input = overlay.named
      BY <1>1, <2>1, <3>1 DEF DialogShape
    <3>3. ASSUME NEW i \in DOMAIN entries,
                 i \notin DOMAIN entries' \/ entries'[i] # entries[i],
                 \A j \in 1..(i - 1) : entries'[j] = entries[j]
          PROVE  entries[i] = entries[selected_entry]
      BY <2>1, <3>1, <3>3, FirstDifference
    <3> QED  BY <3>2, <3>3
  <2>5. ~Move /\ ~Recorded
    BY <1>1 DEF Move, Normal, Recorded, SymbolSearch, NoOverlay
  <2>6. CASE Key
    BY <1>1, <2>2, <2>3, <2>4, <2>5, <2>6, KeyMappings
  <2>7. ~\E i \in DOMAIN requests : IpcResult(i)
    <3>1. ASSUME NEW i \in DOMAIN requests, IpcResult(i)
          PROVE  FALSE
      <4>1. overlay' = overlay
        BY <1>1, <3>1, ResultNet
      <4> QED  BY <1>1, <4>1
    <3> QED  BY <3>1
  <2>8. ~(handle_record_error \/ handle_record_stopped \/ UNCHANGED vars)
    BY <1>1 DEF handle_record_error, handle_record_stopped, vars, mappings
  <2>9. ~\E i \in DOMAIN requests : Serve(i) \/ GiveUp(i)
    BY <1>1 DEF Serve, GiveUp, mappings
  <2> QED  BY <1>1, <2>6, <2>7, <2>8, <2>9 DEF Next
<1>2. (TypeOK /\ SelectionValid) /\ DialogInv /\ [Next]_vars =>
        (Patient /\ entries' # entries /\ overlay # NoOverlay /\ overlay' = NoOverlay =>
            \A i \in DOMAIN entries : Named(i))
  BY <1>1
<1> HIDE DEF Named
<1>3. (Patient /\ entries' # entries /\ overlay # NoOverlay /\ overlay' = NoOverlay =>
            \A i \in DOMAIN entries : Named(i))
      <=> (Patient /\ entries' # entries /\ overlay # NoOverlay /\ overlay' = NoOverlay =>
        \A i \in DOMAIN entries :
            (i \notin DOMAIN entries' \/ entries'[i] # entries[i]) /\
            (\A j \in 1..(i - 1) : entries'[j] = entries[j]) =>
                entries[i].input = overlay.named)
  BY DEF Named
<1> QED  BY <1>2, <1>3, TypeAlways, DialogInvariant, PTL DEF Spec, EditsTheNamed
=============================================================================

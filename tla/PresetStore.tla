----------------------------- MODULE PresetStore -----------------------------
(***************************************************************************)
(* The preset files and what the daemon answers about them                 *)
(* (src/daemon/manager.rs).  A request is handled under the manager's      *)
(* mutex, so each operator below is one step: it gives the possible        *)
(* outcomes, the store after the request and the answer to it.             *)
(***************************************************************************)
EXTENDS Naturals, Sequences, SequencesExt

CONSTANTS
    Devices,      \* device names
    PresetNames,  \* preset names in the order of presets.sort()
    ValidNames,   \* names that validate_name accepts
    Absent,       \* no such file
    Broken        \* a file that is not a preset: cut short, or not JSON

Slots == Devices \X ToSet(PresetNames)

Answer(kind, data) == [kind |-> kind, data |-> data]
Ok == Answer("Ok", <<>>)
Error == Answer("Error", <<>>)  \* also no answer at all: the client treats it alike

Outcome(store, answer) == [store |-> store, answer |-> answer]

(* presets.sort().                                                         *)
Sorted(list) ==
    \A i, j \in DOMAIN list : i < j =>
        \E m, n \in DOMAIN PresetNames :
            m < n /\ PresetNames[m] = list[i] /\ PresetNames[n] = list[j]

ListPresets(store, device) ==
    LET existing == {preset \in ToSet(PresetNames) : store[<<device, preset>>] # Absent}
    IN  IF device \in ValidNames
        THEN {Outcome(store, Answer("Presets", list)) :
                list \in {names \in SetToSeqs(existing) : Sorted(names)}}
        ELSE {Outcome(store, Error)}

GetPreset(store, device, preset) ==
    LET content == store[<<device, preset>>]
    IN  {Outcome(store, IF {device, preset} \subseteq ValidNames
                           /\ content \notin {Absent, Broken}
                        THEN Answer("PresetData", content)
                        ELSE Error)}

(* fs::write truncates the file first.  If the disk is full the daemon     *)
(* says so, if it dies nobody does.                                        *)
SavePreset(store, device, preset, entries, faults) ==
    IF {device, preset} \subseteq ValidNames
    THEN LET with(content) == [store EXCEPT ![<<device, preset>>] = content]
         IN  {Outcome(with(entries), Ok)}
             \cup (IF faults
                   THEN {Outcome(s, Error) : s \in {store, with(Broken)}}
                   ELSE {})
    ELSE {Outcome(store, Error)}

DeletePreset(store, device, preset, faults) ==
    IF {device, preset} \subseteq ValidNames /\ store[<<device, preset>>] # Absent
    THEN {Outcome([store EXCEPT ![<<device, preset>>] = Absent], Ok)}
         \cup (IF faults THEN {Outcome(store, Error)} ELSE {})
    ELSE {Outcome(store, Error)}
=============================================================================

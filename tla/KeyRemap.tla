------------------------------ MODULE KeyRemap ------------------------------
(***************************************************************************)
(* What one injection does to keys: the physical keyboards, the buffers of *)
(* the readers, the batch of remapped events and the virtual device it is  *)
(* written to (src/daemon/service.rs, src/mapping/handler.rs,              *)
(* src/device/reader.rs, src/device/writer.rs).  Here the nodes of the     *)
(* device are always there and can be grabbed; who owns them, hotplug and  *)
(* the stop signal itself are InjectionDaemon's.                           *)
(***************************************************************************)
EXTENDS MappingHandler

CONSTANTS
    Readers,    \* the sub-devices of the injected device
    KeysOf,     \* the keys of each of them
    Supported,  \* the codes of new_keyboard_mouse: 0 to 767
    Presets,    \* presets a client may start, as sequences of entries
    MaxBuffer   \* bound: key events in the readers' buffers together

ASSUME RemapAssumption ==
    /\ MaxBuffer \in Nat
    /\ NoCode \notin Supported \cup UNION {KeysOf[r] : r \in Readers}
    /\ \A symbol \in Known : Resolve(symbol) # NoCode
    /\ \A entries \in Presets : entries \in Seq(ToSet(entries)) /\
        \A entry \in ToSet(entries) :
            Usable(entry) => entry.input[1].code # NoCode /\ entry.output \in Seq(Known)

VARIABLES
    down,      \* down[r]: keys held on sub-device r
    caught,    \* caught[r]: those of them whose press went to the reader
    opened,    \* sub-devices open, so events reach their buffers
    buffer,    \* buffer[r]: key events the kernel keeps for the reader
    phase,     \* where run stands
    preset,    \* the entries the handler was built from
    mappings,  \* MappingHandler::mappings
    ready,     \* the readers left of those poll found readable
    remapped,  \* the batch, and while it is emitted what is left of it
    vdown,     \* keys down on the virtual device
    shown      \* the same at its last SYN_REPORT: what the desktop acts on

keyVars == <<down, caught, buffer>>
handlerVars == <<preset, mappings>>
outVars == <<vdown, shown>>
vars == <<keyVars, opened, phase, handlerVars, ready, remapped, outVars>>

Keys == UNION {KeysOf[r] : r \in Readers}
Event(codes) == [code : codes, value : {Press, Release, Repeat}]

(* The types of the state: events that are read belong to open readers,    *)
(* and the virtual device has no key down that it was not created with.    *)
KeyType ==
    /\ {down, caught} \subseteq [Readers -> SUBSET Keys]
    /\ buffer \in [Readers -> Seq(Event(Keys))]
    /\ \A r \in Readers :
        /\ caught[r] \subseteq down[r] /\ down[r] \subseteq KeysOf[r]
        /\ buffer[r] \in Seq(Event(KeysOf[r]))
Handlers == {<<entries, FromPreset(entries)>> : entries \in Presets \cup {<<>>}}
RunType ==
    /\ opened \subseteq Readers /\ ready \subseteq opened
    /\ phase \in {"off", "opening", "poll", "fetch", "emit", "closing"}
    /\ <<preset, mappings>> \in Handlers
    /\ remapped \in Seq(Event(Keys \cup {Resolve(symbol) : symbol \in Known} \cup {NoCode}))
    /\ vdown \subseteq Supported /\ shown \subseteq Supported
TypeOK == KeyType /\ RunType

Init ==
    /\ down = [r \in Readers |-> {}]
    /\ caught = down
    /\ opened = {}
    /\ buffer = [r \in Readers |-> <<>>]
    /\ phase = "off"
    /\ preset = <<>>
    /\ mappings = FromPreset(preset)
    /\ ready = {}
    /\ remapped = <<>>
    /\ vdown = {}
    /\ shown = {}

-----------------------------------------------------------------------------
(* The user.  A key event goes to the reader's buffer if the sub-device is *)
(* open; the SYN_REPORT that ends its frame is not stored but added by     *)
(* Fetch.  fetch_events empties the buffer in one read, so what arrives    *)
(* meanwhile may as well arrive before or after.                           *)

Buffered(r, k, value) ==
    buffer' = IF r \in opened
              THEN [buffer EXCEPT ![r] = Append(@, KeyEvent(k, value))]
              ELSE buffer
Room(r) == r \notin ready /\ FoldFunction(LAMBDA e, n : Len(e) + n, 0, buffer) < MaxBuffer

PressKey(r, k) ==
    /\ k \notin down[r] /\ Room(r)
    /\ down' = [down EXCEPT ![r] = @ \cup {k}]
    /\ caught' = IF r \in opened THEN [caught EXCEPT ![r] = @ \cup {k}] ELSE caught
    /\ Buffered(r, k, Press)
    /\ UNCHANGED <<opened, phase, handlerVars, ready, remapped, outVars>>

ReleaseKey(r, k) ==
    /\ k \in down[r] /\ Room(r)
    /\ down' = [down EXCEPT ![r] = @ \ {k}]
    /\ caught' = [caught EXCEPT ![r] = @ \ {k}]
    /\ Buffered(r, k, Release)
    /\ UNCHANGED <<opened, phase, handlerVars, ready, remapped, outVars>>

(* The kernel's autorepeat.                                                *)
RepeatKey(r, k) ==
    /\ k \in down[r] /\ Room(r) /\ r \in opened
    /\ Buffered(r, k, Repeat)
    /\ UNCHANGED <<down, caught, opened, phase, handlerVars, ready, remapped, outVars>>

-----------------------------------------------------------------------------
(* The injection.                                                          *)

(* InjectionService::from_entries, before the thread starts.               *)
Start(entries) ==
    /\ phase = "off"
    /\ phase' = "opening"
    /\ preset' = entries
    /\ mappings' = FromPreset(entries)
    /\ UNCHANGED <<keyVars, opened, ready, remapped, outVars>>

(* run opens the sub-devices one after the other.                          *)
Open(r) ==
    /\ phase = "opening" /\ r \notin opened
    /\ opened' = opened \cup {r}
    /\ UNCHANGED <<keyVars, phase, handlerVars, ready, remapped, outVars>>

CreateWriter ==
    /\ phase = "opening" /\ opened = Readers
    /\ phase' = "poll"
    /\ UNCHANGED <<keyVars, opened, handlerVars, ready, remapped, outVars>>

(* poll: some of the readers are readable; the batch is cleared.           *)
Poll ==
    /\ phase = "poll"
    /\ ready' \in {found \in SUBSET opened :
                    found # {} /\ \A r \in found : buffer[r] # <<>>}
    /\ phase' = "fetch"
    /\ remapped' = <<>>
    /\ UNCHANGED <<keyVars, opened, handlerVars, outVars>>

(* One event of reader r's fetch_events goes through remap_into, then the  *)
(* SYN_REPORT of its frame, until the buffer is empty.                     *)
Fetch(r) ==
    /\ phase = "fetch" /\ r \in ready
    /\ remapped' = remapped \o RemapInto(mappings, Head(buffer[r]))
                           \o RemapInto(mappings, SynReport)
    /\ buffer' = [buffer EXCEPT ![r] = Tail(@)]
    /\ ready' = IF Len(buffer[r]) = 1 THEN ready \ {r} ELSE ready
    /\ UNCHANGED <<down, caught, opened, phase, handlerVars, outVars>>

FetchedAll ==
    /\ phase = "fetch" /\ ready = {}
    /\ phase' = IF remapped # <<>> THEN "emit" ELSE "poll"
    /\ UNCHANGED <<keyVars, opened, handlerVars, ready, remapped, outVars>>

(* Variant of Applied: the device is created with every code there is.     *)
AppliedAny(keys, e) ==
    IF e.code = NoCode \/ e.value = Repeat THEN keys
    ELSE IF e.value = Press THEN keys \cup {e.code} ELSE keys \ {e.code}

(* What the virtual device makes of an event: codes it does not have are   *)
(* dropped, a repeat changes nothing.                                      *)
Applied(keys, e) ==
    IF e.code \notin Supported \/ e.value = Repeat THEN keys
    ELSE IF e.value = Press THEN keys \cup {e.code} ELSE keys \ {e.code}

(* VirtualDevice::emit, event by event.  A SYN_REPORT shows the desktop    *)
(* the frame; emit adds one at the end.                                    *)
Emit ==
    /\ phase = "emit" /\ remapped # <<>>
    /\ vdown' = Applied(vdown, Head(remapped))
    /\ shown' = IF Head(remapped) = SynReport THEN vdown ELSE shown
    /\ remapped' = Tail(remapped)
    /\ UNCHANGED <<keyVars, opened, phase, handlerVars, ready>>

EmitEnds ==
    /\ phase = "emit" /\ remapped = <<>>
    /\ shown' = vdown
    /\ phase' = "poll"
    /\ UNCHANGED <<keyVars, opened, handlerVars, ready, remapped, vdown>>

(* The stop socket: run returns and drops its writer.  The kernel releases *)
(* the keys of a virtual device that goes away.                            *)
Stop ==
    /\ phase = "poll"
    /\ phase' = "closing"
    /\ remapped' = <<>>
    /\ vdown' = {} /\ shown' = {}
    /\ UNCHANGED <<keyVars, opened, handlerVars, ready>>

(* Dropping a reader ungrabs and closes it, with what it has not read.     *)
CloseReader(r) ==
    /\ phase = "closing" /\ r \in opened
    /\ opened' = opened \ {r}
    /\ buffer' = [buffer EXCEPT ![r] = <<>>]
    /\ caught' = [caught EXCEPT ![r] = {}]
    /\ UNCHANGED <<down, phase, handlerVars, ready, remapped, outVars>>

Closed ==
    /\ phase = "closing" /\ opened = {}
    /\ phase' = "off"
    /\ UNCHANGED <<keyVars, opened, handlerVars, ready, remapped, outVars>>

-----------------------------------------------------------------------------
User == \E r \in Readers : \E k \in KeysOf[r] :
            PressKey(r, k) \/ ReleaseKey(r, k) \/ RepeatKey(r, k)

Run ==
    \/ \E r \in Readers : Open(r) \/ Fetch(r) \/ CloseReader(r)
    \/ CreateWriter
    \/ Poll
    \/ FetchedAll
    \/ Emit
    \/ EmitEnds
    \/ Closed

Next == User \/ Run \/ Stop \/ \E entries \in Presets : Start(entries)

Spec == Init /\ [][Next]_vars

(* The kernel schedules the thread; users and clients owe nothing.         *)
FairSpec == Spec /\ WF_vars(Run)

-----------------------------------------------------------------------------
(* Properties.                                                             *)

(* The codes of k on the virtual device: mapped, or its own.               *)
Outputs(k) == (IF k \in DOMAIN mappings THEN {mappings[k][i] : i \in DOMAIN mappings[k]}
                                        ELSE {k}) \cap Supported
Producers(code) == {p \in Readers \X Keys : p[2] \in KeysOf[p[1]] /\ code \in Outputs(p[2])}
Pending(events, e) == \E i \in DOMAIN events : events[i] = e

(* No ghost keys: a key that is down on the virtual device is one of a key *)
(* that is held, or its release is on the way, also when mappings share    *)
(* output codes, repeats come in between or the preset changes.            *)
Justified ==
    \A code \in vdown : \E p \in Producers(code) :
        \/ p[2] \in caught[p[1]]
        \/ Pending(buffer[p[1]], KeyEvent(p[2], Release))
        \/ Pending(remapped, KeyEvent(code, Release))

(* The codes of k that no other key produces.                              *)
Own(r, k) == {code \in Outputs(k) : Producers(code) = {<<r, k>>}}

(* No lost keys: once everything read is written, a held key keeps down    *)
(* each code that no other key produces; autorepeat does not release it.   *)
NoLoss ==
    phase = "poll" =>
        \A r \in Readers : \A k \in caught[r] :
            Pending(buffer[r], KeyEvent(k, Press)) \/ Own(r, k) \subseteq vdown

(* A combination is pressed and released in one frame: the desktop never   *)
(* acts on a part of it (of its codes no other key produces).              *)
ComboAtomic ==
    \A r \in Readers : \A k \in KeysOf[r] :
        Own(r, k) \subseteq shown \/ Own(r, k) \cap shown = {}

(* from_preset: an input code is mapped to what the last usable entry for  *)
(* it says; an entry that cannot be used takes nothing away.               *)
LastEntryWins ==
    \A k \in Keys :
        LET usable == {i \in DOMAIN preset : Usable(preset[i]) /\ preset[i].input[1].code = k}
        IN  IF usable = {} THEN k \notin DOMAIN mappings
            ELSE mappings[k] = Codes(preset[CHOOSE i \in usable : \A j \in usable : j <= i].output)

(* When all keys are let go for good, the virtual device has none down for *)
(* good.                                                                   *)
NothingStuck ==
    <>[](\A r \in Readers : down[r] = {}) => <>[](vdown = {})

-----------------------------------------------------------------------------
(* Inductive strengthenings.                                               *)

(* What is there in which phase.                                           *)
PhaseShape ==
    /\ phase # "fetch" => ready = {}
    /\ \A r \in ready : buffer[r] # <<>>
    /\ phase \notin {"fetch", "emit"} => remapped = <<>>
    /\ phase \in {"off", "opening", "closing"} => vdown = {} /\ shown = {}
    /\ phase = "off" => opened = {}
    /\ \A r \in Readers \ opened : caught[r] = {} /\ buffer[r] = <<>>

(* The buffer ends with what is held.                                      *)
Later(r, i, e) == \E j \in DOMAIN buffer[r] : j > i /\ buffer[r][j] = e
BufferShape ==
    \A r \in Readers : \A i \in DOMAIN buffer[r] : \A k \in KeysOf[r] :
        /\ buffer[r][i] = KeyEvent(k, Press) =>
                k \in caught[r] \/ Later(r, i, KeyEvent(k, Release))
        /\ buffer[r][i] = KeyEvent(k, Release) =>
                k \notin caught[r] \/ Later(r, i, KeyEvent(k, Press))

(* Whether code is down when the first n events of the batch are written.  *)
After(n, code) ==
    \/ \E i \in 1..n :
        /\ remapped[i] = KeyEvent(code, Press)
        /\ \A j \in (i + 1)..n : remapped[j] # KeyEvent(code, Release)
    \/ code \in vdown /\ \A j \in 1..n : remapped[j] # KeyEvent(code, Release)
Finally(code) == After(Len(remapped), code)

(* Justified and NoLoss as they are when the batch is written, and         *)
(* ComboAtomic at each of the frames in it.                                *)
JustShape ==
    \A code \in Supported :
        /\ code \in vdown \/ Pending(remapped, KeyEvent(code, Press)) => Producers(code) # {}
        /\ Finally(code) =>
            \E p \in Producers(code) :
                p[2] \in caught[p[1]] \/ Pending(buffer[p[1]], KeyEvent(p[2], Release))
HeldShape ==
    phase # "closing" =>
        \A r \in Readers : \A k \in caught[r] :
            Pending(buffer[r], KeyEvent(k, Press)) \/ \A code \in Own(r, k) : Finally(code)
FrameShape ==
    \A r \in Readers : \A k \in KeysOf[r] : \A c, d \in Own(r, k) :
        /\ c \in shown => d \in shown
        /\ \A n \in DOMAIN remapped :
            remapped[n] = SynReport /\ After(n, c) => After(n, d)
        /\ Finally(c) => Finally(d)

RemapInv ==
    TypeOK /\ PhaseShape /\ BufferShape /\ JustShape /\ HeldShape /\ FrameShape
=============================================================================

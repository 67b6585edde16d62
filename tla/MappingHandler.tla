--------------------------- MODULE MappingHandler ---------------------------
(***************************************************************************)
(* From a preset's entries to the events an injection emits                *)
(* (src/mapping/config.rs, src/mapping/handler.rs).  Nothing here has any  *)
(* state: from_preset builds a map once, remap_into reads it.              *)
(***************************************************************************)
EXTENDS Naturals, Sequences, SequencesExt

CONSTANTS
    Xmodmap,   \* xmodmap.json: a function from symbols to key codes
    Builtin,   \* builtin_symbols: the KEY_* names known without it
    EvKey,     \* the event type EV_KEY
    NoSymbol,  \* an entry without output_symbol
    NoCode     \* the code of SYN_REPORT, standing for every event but EV_KEY

Press == 1
Release == 0
Repeat == 2

KeyEvent(code, value) == [code |-> code, value |-> value]
SynReport == KeyEvent(NoCode, 0)

-----------------------------------------------------------------------------
(* resolve_symbol: xmodmap.json goes before the built-in names.            *)
Known == DOMAIN Xmodmap \cup DOMAIN Builtin
Resolve(symbol) == IF symbol \in DOMAIN Xmodmap THEN Xmodmap[symbol] ELSE Builtin[symbol]

(* parse_output_symbol: "Control_L + c" is given as its parts.  One part   *)
(* that is not known spoils the whole symbol.                              *)
Resolvable(symbol) == \A i \in DOMAIN symbol : symbol[i] \in Known
Codes(symbol) == [i \in DOMAIN symbol |-> Resolve(symbol[i])]

(* The entries from_preset maps: a key_macro with one EV_KEY input and an  *)
(* output that resolves.                                                   *)
Usable(entry) ==
    /\ entry.mapping_type = "key_macro"
    /\ Len(entry.input) = 1
    /\ entry.input[1].type = EvKey
    /\ entry.output # NoSymbol
    /\ Resolvable(entry.output)

(* Variant of Usable: all inputs of a combination count as the first one.  *)
UsableFirstInput(entry) ==
    /\ entry.mapping_type = "key_macro"
    /\ entry.input[1].type = EvKey
    /\ entry.output # NoSymbol
    /\ Resolvable(entry.output)

(* Variant of Insert: the first entry of a code wins.                      *)
InsertFirst(mappings, entry) ==
    LET code == entry.input[1].code
    IN  IF Usable(entry) /\ code \notin DOMAIN mappings
        THEN [c \in DOMAIN mappings \cup {code} |->
                IF c = code THEN Codes(entry.output) ELSE mappings[c]]
        ELSE mappings

(* mappings.insert for a usable entry; other entries change nothing.       *)
Insert(mappings, entry) ==
    IF Usable(entry)
    THEN LET code == entry.input[1].code
         IN  [c \in DOMAIN mappings \cup {code} |->
                IF c = code THEN Codes(entry.output) ELSE mappings[c]]
    ELSE mappings

(* from_preset: the map from an input code to its output codes.            *)
FromPreset(entries) == FoldLeft(Insert, <<>>, entries)

-----------------------------------------------------------------------------
Presses(codes) == [i \in DOMAIN codes |-> KeyEvent(codes[i], Press)]
Releases(codes) == [i \in DOMAIN codes |-> KeyEvent(codes[i], Release)]

(* Variants of RemapInto: a combination's release gives back its first key *)
(* only; its repeat is treated as a release; its keys come one per frame.  *)
RemapReleaseFirst(mappings, e) ==
    IF e.code \notin DOMAIN mappings THEN <<e>>
    ELSE IF e.value = Press THEN Presses(mappings[e.code]) \o <<SynReport>>
    ELSE IF e.value = Release
    THEN <<KeyEvent(mappings[e.code][1], Release), SynReport>>
    ELSE <<>>
RemapRepeatReleases(mappings, e) ==
    IF e.code \notin DOMAIN mappings THEN <<e>>
    ELSE IF e.value = Press THEN Presses(mappings[e.code]) \o <<SynReport>>
    ELSE Releases(Reverse(mappings[e.code])) \o <<SynReport>>
RemapFramePerKey(mappings, e) ==
    IF e.code \notin DOMAIN mappings THEN <<e>>
    ELSE LET codes == mappings[e.code]
         IN  [i \in 1..2 * Len(codes) |->
                IF i % 2 = 0 THEN SynReport ELSE KeyEvent(codes[(i + 1) \div 2], e.value)]

(* remap_into: the events that come out for one event that went in.        *)
RemapInto(mappings, e) ==
    IF e.code \notin DOMAIN mappings THEN <<e>>
    ELSE LET codes == mappings[e.code]
         IN  CASE Len(codes) = 1      -> <<KeyEvent(codes[1], e.value), SynReport>>
               [] Len(codes) # 1 /\ e.value = Press ->
                                         Presses(codes) \o <<SynReport>>
               [] Len(codes) # 1 /\ e.value = Release ->
                                         Releases(Reverse(codes)) \o <<SynReport>>
               [] Len(codes) # 1 /\ e.value = Repeat -> <<>>
=============================================================================

----------------------------- MODULE MCKeyRemap -----------------------------
(* Small keyboards and presets for TLC to check KeyRemap on.               *)
EXTENDS KeyRemap, TLC

(* Key codes are named after their keys; "big" is one above 767.           *)
MCXmodmap == "x" :> "x" @@ "y" :> "y" @@ "big" :> "big" @@ "MUTE" :> "z"
MCBuiltin == "MUTE" :> "y" @@ "z" :> "z"
MCSupported == {"a", "b", "x", "y", "z"}

MCEntry(code, symbol) == [mapping_type |-> "key_macro",
                          input |-> <<[type |-> "key", code |-> code]>>, output |-> symbol]

(* A sub-device with a key that has a combination, one with that key once  *)
(* more and another.                                                       *)
MCReaders == {"r1", "r2"}
MCKeysShared == "r1" :> {"a"} @@ "r2" :> {"a", "b"}

(* The shared key not mapped and the other a combination, among the kinds  *)
(* of entries from_preset skips; the shared key mapped to a code that the  *)
(* other's combination has too, next to one the virtual device does not    *)
(* have, in a second entry for it.                                         *)
MCPresets == {
    <<MCEntry("b", <<"x">>), MCEntry("b", <<"x", "y">>), MCEntry("b", <<"x", "unknown">>),
      MCEntry("b", NoSymbol),
      [MCEntry("b", <<"x">>) EXCEPT !.mapping_type = "analog"],
      [MCEntry("b", <<"x">>) EXCEPT !.input = @ \o <<[type |-> "key", code |-> "a"]>>],
      [MCEntry("a", <<"x">>) EXCEPT !.input = <<[type |-> "rel", code |-> "a"]>>]>>,
    <<MCEntry("b", <<"MUTE">>), MCEntry("a", <<"x">>), MCEntry("b", <<"big", "x">>)>>}
=============================================================================

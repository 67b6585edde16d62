------------------------------ MODULE MCEditor ------------------------------
(* A small configuration for TLC to check Editor on.                       *)
EXTENDS Editor

CONSTANTS d1, d2, p1, p2, p3, a, b, x

(* p3 is a name that the daemon refuses.                                   *)
MCPresetNames == <<p1, p2, p3>>

Entry(code) == Mapping(code, None, code)

(* Each preset tells itself from the others by its entries.                *)
MCStore == [slot \in Slots |->
              CASE slot = <<d1, p1>> -> <<Entry(a), Entry(b)>>
                [] slot = <<d1, p2>> -> <<Entry(b)>>
                [] slot = <<d2, p1>> -> <<>>
                [] OTHER -> Absent]
MCOddStore == [MCStore EXCEPT ![<<d1, p2>>] = Absent, ![<<d1, p3>>] = <<Entry(b)>>]

(* A user who waits, with two devices of which one is unplugged at times.  *)
MCCareful == [patient |-> TRUE, faults |-> FALSE, lists |-> {<<d1, d2>>, <<d2>>},
              store |-> MCStore, names |-> {p1, p2},
              requests |-> 1, changes |-> 2, recorders |-> 1]
(* One who works longer on one device.                                     *)
MCSteady == [MCCareful EXCEPT !.lists = {<<d1>>}, !.changes = 3]
(* One who does not wait, with one device that comes and goes, and faults. *)
MCTroubled == [patient |-> FALSE, faults |-> TRUE, lists |-> {<<d1>>, <<>>},
               store |-> MCOddStore, names |-> {p1, p3},
               requests |-> 2, changes |-> 1, recorders |-> 0]
MCSettings == {MCCareful, MCSteady, MCTroubled}
MCQuick == {MCCareful, [MCTroubled EXCEPT !.requests = 1]}
MCHasty == {[MCCareful EXCEPT !.patient = FALSE, !.lists = {<<d1, d2>>},
                              !.requests = 2, !.changes = 1]}
=============================================================================

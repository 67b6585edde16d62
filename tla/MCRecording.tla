---------------------------- MODULE MCRecording -----------------------------
(* Small settings for TLC to check Recording on.                           *)
EXTENDS Recording, TLC

CONSTANTS d1, d2, p1, a, r1, r2

MCTable == d1 :> p1 @@ d2 :> None
MCSetting(patient, shared, faults, bound) ==
    [patient |-> patient, shared |-> shared, faults |-> faults, events |-> bound, table |-> MCTable]

(* A user who waits: undisturbed; and with hotplug, other clients, faults.  *)
MCCalm == MCSetting(TRUE, {}, FALSE, 2)
MCTroubled == MCSetting(TRUE, {d1}, TRUE, 2)
(* One who does not: undisturbed, with faults, with hotplug and clients.    *)
MCHasty == {MCSetting(FALSE, {}, FALSE, 2)}
MCSettings == {MCCalm, MCTroubled, MCSetting(FALSE, {}, TRUE, 1), MCSetting(FALSE, {d1}, FALSE, 1)}
                  \cup MCHasty
=============================================================================

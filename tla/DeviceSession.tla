---------------------------- MODULE DeviceSession ----------------------------
(***************************************************************************)
(* What the daemon promises about one device name, with the table, the     *)
(* threads, the grabs and the stop signals left out: there is one session  *)
(* at a time.  A session starts only when the one before it has given the  *)
(* device back, and one that is ending does not come back.                 *)
(***************************************************************************)
CONSTANT Devices

VARIABLE session

Init == session = [d \in Devices |-> "off"]

Move(d, from, to) ==
    /\ session[d] \in from
    /\ session' = [session EXCEPT ![d] = to]

Begin(d)   == Move(d, {"off"}, "starting")
Ready(d)   == Move(d, {"starting"}, "on")
End(d)     == Move(d, {"starting", "on"}, "ending")
Release(d) == Move(d, {"ending"}, "off")

Next == \E d \in Devices : Begin(d) \/ Ready(d) \/ End(d) \/ Release(d)

Spec == Init /\ [][Next]_session
=============================================================================

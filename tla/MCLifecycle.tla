---------------------------- MODULE MCLifecycle -----------------------------
(* Small settings for TLC to check Lifecycle on.                           *)
EXTENDS Lifecycle

CONSTANTS d1, d2

MCDevices == {d1, d2}

(* Devices that appear after the daemon, crashes, waits that are too short *)
(* for all of the attempts, signals.                                       *)
MCBoot == [plugged |-> {}, arriving |-> MCDevices, leaving |-> {}, foreground |-> {},
           crashes |-> 2, slow |-> 6, signals |-> 3]
(* Devices that come and go, and injections in the foreground.             *)
MCDesk == [plugged |-> MCDevices, arriving |-> MCDevices, leaving |-> MCDevices, foreground |-> MCDevices,
           crashes |-> 2, slow |-> 2, signals |-> 2]
MCSettings == {MCBoot, MCDesk}

(* One of the devices in config.json is not there, and nothing else ever   *)
(* goes wrong.                                                             *)
MCAbsent == {[plugged |-> {d1}, arriving |-> {}, leaving |-> {}, foreground |-> {},
              crashes |-> 0, slow |-> 0, signals |-> 0]}
=============================================================================

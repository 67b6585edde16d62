----------------------------- MODULE Lifecycle ------------------------------
(***************************************************************************)
(* The processes around the injections: systemd starts the daemon and the  *)
(* autoload command, which retries until the daemon listens and whose exit *)
(* status decides about the daemon; the daemon binds its socket, ends on   *)
(* SIGINT, dies of other signals, and leaves its socket file behind;       *)
(* run-foreground competes for a device (src/main.rs, src/ipc/server.rs,   *)
(* src/ipc/client.rs, src/systemd/input-remapper-rs.service).  A device is *)
(* one node, and an injection only its thread: InjectionDaemon has more.   *)
(***************************************************************************)
EXTENDS Naturals, FiniteSets

CONSTANTS
    Devices,
    Configured,  \* the devices in the autoload section of config.json
    Attempts,    \* how often the autoload command tries
    Settings     \* the circumstances to check: a set of records, see setting

ASSUME LifecycleAssumption ==
    /\ Configured \subseteq Devices /\ Attempts \in Nat \ {0}
    /\ \A s \in Settings :
        /\ {s.plugged, s.arriving, s.leaving, s.foreground} \subseteq SUBSET Devices
        /\ {s.crashes, s.slow, s.signals} \subseteq Nat

VARIABLES
    unit,        \* systemd's unit: "off", "starting", "active", "waiting" to be restarted
    daemon,      \* the daemon: "down", "binding", "up", and on SIGINT "stopping", "stopped"
    socket,      \* the socket file: "none", "live", or "stale"
    autoload,    \* the autoload command: "none", "trying", "sleeping", "ok", "failed"
    tries,       \* its attempts
    late,        \* whether the daemon will serve a request that was given up
    thread,      \* the daemon's injection of each device: "none", "opening", "on"
    foreground,  \* a run-foreground of each device: "none", "opening", "on"
    plugged,
    setting,     \* the circumstances, which never change: the devices that are plugged at
                 \* first, may arrive, may leave, may be given to run-foreground; bounds
    crashes, slow, signals  \* how much of each has happened, for the bounds

process == <<unit, daemon, socket, autoload, tries, late>>
bounds == <<crashes, slow, signals>>
vars == <<process, thread, foreground, plugged, setting, bounds>>

NoInjections == [d \in Devices |-> "none"]

Init ==
    /\ unit = "off" /\ daemon = "down" /\ socket = "none"
    /\ autoload = "none" /\ tries = 0 /\ late = FALSE
    /\ thread = NoInjections /\ foreground = NoInjections
    /\ setting \in Settings
    /\ plugged = setting.plugged
    /\ crashes = 0 /\ slow = 0 /\ signals = 0

-----------------------------------------------------------------------------
(* systemd.  ExecStartPost runs as soon as the daemon's process exists.    *)
Exec ==
    /\ unit' = "starting" /\ daemon' = "binding"
    /\ autoload' = "trying" /\ tries' = 0
    /\ UNCHANGED <<socket, late, thread, foreground, plugged, setting, bounds>>

StartUnit == unit = "off" /\ Exec

Restart == unit = "waiting" /\ Exec

(* A process that is gone has its injections ended by the kernel; nobody   *)
(* removes its socket file, for exit skips the destructor that would.      *)
Gone(next) ==
    /\ daemon' = "down" /\ unit' = next
    /\ socket' = IF socket = "live" THEN "stale" ELSE socket
    /\ thread' = NoInjections
    /\ autoload' = "none" /\ tries' = 0 /\ late' = FALSE
    /\ UNCHANGED <<foreground, plugged, setting>>

(* ExecStartPost decides: if it fails the daemon gets SIGTERM, for which   *)
(* it has no handler, and the unit has failed.                             *)
StartPostEnds ==
    /\ unit = "starting"
    /\ \/ /\ autoload = "ok"
          /\ unit' = "active" /\ autoload' = "none" /\ tries' = 0
          /\ UNCHANGED <<daemon, socket, late, thread, foreground, plugged, setting, bounds>>
       \/ autoload = "failed" /\ Gone("waiting") /\ UNCHANGED bounds

(* systemctl stop: SIGTERM.                                                *)
StopUnit ==
    /\ unit = "active" /\ daemon # "down" /\ signals < setting.signals
    /\ signals' = signals + 1
    /\ Gone("off") /\ UNCHANGED <<crashes, slow>>

Crash ==
    /\ daemon # "down" /\ crashes < setting.crashes
    /\ crashes' = crashes + 1
    /\ Gone("waiting") /\ UNCHANGED <<slow, signals>>

-----------------------------------------------------------------------------
(* The daemon.                                                             *)
(* Variant of Bind: a file that is there is left there.                    *)
BindUnlessStale ==
    /\ daemon = "binding"
    /\ IF socket = "none"
       THEN /\ daemon' = "up" /\ socket' = "live"
            /\ UNCHANGED <<unit, autoload, tries, late, thread, foreground, plugged, setting, bounds>>
       ELSE Gone("waiting") /\ UNCHANGED bounds

(* IpcServer::new: the old file is removed first.                          *)
Bind ==
    /\ daemon = "binding"
    /\ daemon' = "up" /\ socket' = "live"
    /\ UNCHANGED <<unit, autoload, tries, late, thread, foreground, plugged, setting, bounds>>

(* Variant of Serves: the handler lets go of the mutex before it exits.    *)
ServesUntilDown == daemon \in {"up", "stopping", "stopped"}

(* Requests are served until the handler of SIGINT has the mutex, which it *)
(* keeps until the process ends.                                           *)
Serves == daemon \in {"up", "stopping"}

(* The autoload request: every entry is stopped and started again.         *)
LoadAll ==
    thread' = [d \in Devices |->
        IF d \notin Configured THEN thread[d]
        ELSE IF d \in plugged THEN "opening" ELSE "none"]

ServeLate ==
    /\ late /\ Serves
    /\ LoadAll /\ late' = FALSE
    /\ UNCHANGED <<unit, daemon, socket, autoload, tries, foreground, plugged, setting, bounds>>

(* An injection thread grabs its device, or ends because it cannot.        *)
RunThread(d) ==
    /\ thread[d] = "opening"
    /\ thread' = [thread EXCEPT ![d] =
        IF d \in plugged /\ foreground[d] # "on" THEN "on" ELSE "none"]
    /\ UNCHANGED <<process, foreground, plugged, setting, bounds>>

(* SIGINT, and its handler: StopAll, then exit(0), which systemd takes for *)
(* the wanted end.                                                         *)
Interrupt ==
    /\ daemon = "up" /\ unit = "active" /\ signals < setting.signals
    /\ daemon' = "stopping" /\ signals' = signals + 1
    /\ UNCHANGED <<unit, socket, autoload, tries, late, thread, foreground, plugged, setting,
                   crashes, slow>>

HandlerStopsAll ==
    /\ daemon = "stopping"
    /\ daemon' = "stopped" /\ thread' = NoInjections
    /\ UNCHANGED <<unit, socket, autoload, tries, late, foreground, plugged, setting, bounds>>

HandlerExits ==
    /\ daemon = "stopped"
    /\ Gone("off") /\ UNCHANGED bounds

-----------------------------------------------------------------------------
(* The autoload command.                                                   *)
(* Variant of Answered: an answer that reports errors is printed like      *)
(* others.                                                                 *)
AnsweredAnyhow ==
    /\ autoload = "trying" /\ Serves
    /\ LoadAll
    /\ autoload' = "ok"
    /\ UNCHANGED <<unit, daemon, socket, tries, late, foreground, plugged, setting, bounds>>

(* print_response exits with 1 for an error, also for that of one entry.   *)
Answered ==
    /\ autoload = "trying" /\ Serves
    /\ LoadAll
    /\ autoload' = IF Configured \subseteq plugged THEN "ok" ELSE "failed"
    /\ UNCHANGED <<unit, daemon, socket, tries, late, foreground, plugged, setting, bounds>>

(* Nobody listens, or the answer takes longer than the client's timeout.   *)
(* Both happen a bounded number of times: the daemon is not slow for ever. *)
NoAnswer ==
    /\ autoload = "trying" /\ slow < setting.slow
    /\ late' \in IF Serves THEN {late, TRUE} ELSE {late}
    /\ autoload' = "sleeping" /\ tries' = tries + 1
    /\ slow' = slow + 1
    /\ UNCHANGED <<unit, daemon, socket, thread, foreground, plugged, setting, crashes, signals>>

(* Variant of WakeUp: it tries until it is answered.                       *)
WakeUpForEver ==
    /\ autoload = "sleeping"
    /\ autoload' = "trying"
    /\ UNCHANGED <<unit, daemon, socket, tries, late, thread, foreground, plugged, setting, bounds>>

WakeUp ==
    /\ autoload = "sleeping"
    /\ autoload' = IF tries < Attempts THEN "trying" ELSE "failed"
    /\ UNCHANGED <<unit, daemon, socket, tries, late, thread, foreground, plugged, setting, bounds>>

-----------------------------------------------------------------------------
(* run-foreground, which needs no daemon.                                  *)
Foreground(d) ==
    /\ d \in setting.foreground /\ foreground[d] = "none" /\ d \in plugged
    /\ foreground' = [foreground EXCEPT ![d] = "opening"]
    /\ UNCHANGED <<process, thread, plugged, setting, bounds>>

(* Variant of ForegroundGrabs: a device that is grabbed is read all the    *)
(* same.                                                                   *)
ForegroundOpens(d) ==
    /\ foreground[d] = "opening"
    /\ foreground' = [foreground EXCEPT ![d] = IF d \in plugged THEN "on" ELSE "none"]
    /\ UNCHANGED <<process, thread, plugged, setting, bounds>>

ForegroundGrabs(d) ==
    /\ foreground[d] = "opening"
    /\ foreground' = [foreground EXCEPT ![d] =
        IF d \in plugged /\ thread[d] # "on" THEN "on" ELSE "none"]
    /\ UNCHANGED <<process, thread, plugged, setting, bounds>>

(* Ctrl+C closes the stop socket, which ends the injection.                *)
ForegroundInterrupted(d) ==
    /\ foreground[d] = "on"
    /\ foreground' = [foreground EXCEPT ![d] = "none"]
    /\ UNCHANGED <<process, thread, plugged, setting, bounds>>

Plug(d) ==
    /\ d \in setting.arriving \ plugged
    /\ plugged' = plugged \cup {d}
    /\ UNCHANGED <<process, thread, foreground, setting, bounds>>

(* Its injections end.                                                     *)
Unplug(d) ==
    /\ d \in setting.leaving \cap plugged
    /\ plugged' = plugged \ {d}
    /\ thread' = [thread EXCEPT ![d] = IF @ = "on" THEN "none" ELSE @]
    /\ foreground' = [foreground EXCEPT ![d] = IF @ = "opening" THEN @ ELSE "none"]
    /\ UNCHANGED <<process, setting, bounds>>

-----------------------------------------------------------------------------
Systemd == Restart \/ StartPostEnds
Daemon == Bind \/ ServeLate \/ HandlerStopsAll \/ HandlerExits \/ \E d \in Devices : RunThread(d)
Autoload == Answered \/ NoAnswer \/ WakeUp

Next ==
    \/ StartUnit \/ StopUnit \/ Interrupt \/ Crash
    \/ Systemd \/ Daemon \/ Autoload
    \/ \E d \in Devices :
        Foreground(d) \/ ForegroundGrabs(d) \/ ForegroundInterrupted(d) \/ Plug(d) \/ Unplug(d)

Spec == Init /\ [][Next]_vars

(* Processes that can run do; users, signals, crashes and hotplug owe      *)
(* nothing.                                                                *)
FairSpec ==
    /\ Spec
    /\ WF_vars(Systemd) /\ WF_vars(Daemon) /\ WF_vars(Autoload)
    /\ \A d \in Devices : WF_vars(ForegroundGrabs(d))

-----------------------------------------------------------------------------
(* Properties.                                                             *)

Undisturbed == setting.leaving = {} /\ setting.foreground = {}
Applied == \A d \in Configured : thread[d] = "on"

TypeOK ==
    /\ unit \in {"off", "starting", "active", "waiting"}
    /\ daemon \in {"down", "binding", "up", "stopping", "stopped"}
    /\ socket \in {"none", "live", "stale"}
    /\ autoload \in {"none", "trying", "sleeping", "ok", "failed"} /\ tries \in 0..Attempts
    /\ late \in BOOLEAN
    /\ thread \in [Devices -> {"none", "opening", "on"}]
    /\ foreground \in [Devices -> {"none", "opening", "on"}]

(* A device is remapped once: an injection in the foreground and one of    *)
(* the daemon never both read it, whoever comes first and whatever becomes *)
(* of the other.                                                           *)
RemappedOnce ==
    \A d \in Devices : ~(thread[d] = "on" /\ foreground[d] = "on")

(* Between StopAll and exit no injection is started, not even by a request *)
(* that waits for the mutex or that its client has given up.               *)
StoppedIsSilent == daemon = "stopped" => thread = NoInjections

(* The unit is only active when every preset of the autoload section was   *)
(* started, also if the first requests were lost or came late.             *)
ActiveMeansApplied ==
    Undisturbed /\ unit = "active" /\ daemon = "up" =>
        \A d \in Configured : thread[d] # "none"

(* README.md:79 "Presets configured with autoload in `config.json` are     *)
(* automatically applied when the daemon starts", for a machine that has   *)
(* all the devices in the end: however late they appear, after crashes     *)
(* that leave a socket file and starts that are too slow for the retries,  *)
(* they are remapped for good.                                             *)
AppliedInTheEnd ==
    Undisturbed /\ <>[](Configured \subseteq plugged /\ unit # "off") => <>[]Applied

(* The same for each device by itself, whatever is missing.                *)
PluggedIsApplied ==
    \A d \in Configured : <>[](d \in plugged /\ unit # "off") => <>[](thread[d] = "on")
=============================================================================

-------------------------- MODULE LifecycleProofs ---------------------------
(***************************************************************************)
(* The safety of Lifecycle for any devices, any autoload section, any      *)
(* number of attempts, crashes and signals.  An inductive invariant says   *)
(* what systemd's unit, the daemon and the autoload command know of each   *)
(* other; each action is shown to preserve it in a lemma of its own when   *)
(* it changes the injections.                                              *)
(***************************************************************************)
EXTENDS Lifecycle, TLAPS

(* The autoload command has an attempt left while it tries.                *)
Attempting == autoload = "trying" => tries < Attempts

(* The unit knows whether there is a daemon; a daemon that was sent SIGINT *)
(* belongs to an active unit, and a command that succeeded to one that     *)
(* starts and whose daemon serves.                                         *)
UnitKnows ==
    /\ unit \in {"off", "waiting"} => daemon = "down" /\ autoload = "none"
    /\ unit = "active" => daemon \in {"up", "stopping", "stopped"} /\ autoload = "none"
    /\ unit = "starting" => daemon \in {"binding", "up"}
    /\ autoload = "ok" => daemon = "up"

(* From the answer without errors on, every entry has its injection, until *)
(* StopAll.                                                                *)
AllStarted ==
    Undisturbed /\ (unit = "active" \/ autoload = "ok") /\ daemon # "stopped" =>
        Configured \subseteq plugged /\ \A d \in Configured : thread[d] # "none"

(* Without users of run-foreground there is none.                          *)
NoForeground == setting.foreground = {} => \A d \in Devices : foreground[d] = "none"

LifecycleInv ==
    /\ TypeOK /\ Attempting /\ UnitKnows /\ AllStarted /\ NoForeground
    /\ RemappedOnce /\ StoppedIsSilent

-----------------------------------------------------------------------------
(* The daemon's and systemd's actions that neither start nor end an        *)
(* injection, and the autoload command's.                                  *)
LEMMA WaitingPreserves ==
    ASSUME LifecycleInv,
           StartUnit \/ Restart \/ Bind \/ Interrupt \/ NoAnswer \/ WakeUp
    PROVE  LifecycleInv'
<1> USE LifecycleAssumption DEF LifecycleInv, process, bounds
<1>1. CASE StartUnit \/ Restart
  BY <1>1 DEF StartUnit, Restart, Exec, TypeOK, Attempting, UnitKnows, AllStarted,
              Undisturbed, NoForeground, RemappedOnce, StoppedIsSilent
<1>2. CASE Bind
  BY <1>2 DEF Bind, TypeOK, Attempting, UnitKnows, AllStarted,
              Undisturbed, NoForeground, RemappedOnce, StoppedIsSilent
<1>3. CASE Interrupt
  BY <1>3 DEF Interrupt, TypeOK, Attempting, UnitKnows, AllStarted,
              Undisturbed, NoForeground, RemappedOnce, StoppedIsSilent
<1>4. CASE NoAnswer
  <2>1. TypeOK'
    <3>1. tries' \in 0..Attempts
      BY <1>4 DEF NoAnswer, Attempting, TypeOK
    <3>2. late' \in BOOLEAN
      BY <1>4 DEF NoAnswer, TypeOK
    <3> QED  BY <1>4, <3>1, <3>2 DEF NoAnswer, TypeOK
  <2>2. Attempting' /\ UnitKnows'
    BY <1>4 DEF NoAnswer, Attempting, UnitKnows
  <2>3. AllStarted' /\ NoForeground' /\ RemappedOnce' /\ StoppedIsSilent'
    BY <1>4 DEF NoAnswer, UnitKnows, AllStarted, Undisturbed, NoForeground,
                RemappedOnce, StoppedIsSilent
  <2> QED  BY <2>1, <2>2, <2>3
<1>5. CASE WakeUp
  BY <1>5 DEF WakeUp, TypeOK, Attempting, UnitKnows, AllStarted,
              Undisturbed, NoForeground, RemappedOnce, StoppedIsSilent
<1> QED  BY <1>1, <1>2, <1>3, <1>4, <1>5

(* The end of the daemon, however it comes.                                *)
LEMMA EndPreserves ==
    ASSUME LifecycleInv,
           StartPostEnds \/ StopUnit \/ Crash \/ HandlerStopsAll \/ HandlerExits
    PROVE  LifecycleInv'
<1> USE LifecycleAssumption DEF LifecycleInv, process, bounds
<1>1. ASSUME NEW next \in {"off", "waiting"}, Gone(next)  PROVE LifecycleInv'
  <2>1. TypeOK'
    <3>1. unit' \in {"off", "waiting"} /\ daemon' = "down" /\ autoload' = "none"
      BY <1>1 DEF Gone
    <3>2. socket' \in {"none", "live", "stale"}
      BY <1>1 DEF Gone, TypeOK
    <3>3. tries' = 0 /\ late' = FALSE /\ 0 \in 0..Attempts
      BY <1>1 DEF Gone
    <3>4. thread' \in [Devices -> {"none", "opening", "on"}] /\ foreground' = foreground
      BY <1>1 DEF Gone, NoInjections
    <3> QED  BY <3>1, <3>2, <3>3, <3>4 DEF TypeOK
  <2>2. Attempting' /\ UnitKnows' /\ AllStarted' /\ StoppedIsSilent'
    BY <1>1 DEF Gone, Attempting, UnitKnows, AllStarted, StoppedIsSilent
  <2>3. NoForeground' /\ RemappedOnce'
    BY <1>1 DEF Gone, NoInjections, NoForeground, RemappedOnce
  <2> QED  BY <2>1, <2>2, <2>3
<1>2. CASE StartPostEnds
  <2>1. CASE autoload = "ok"
    BY <1>2, <2>1 DEF StartPostEnds, TypeOK, Attempting, UnitKnows, AllStarted,
              Undisturbed, NoForeground, RemappedOnce, StoppedIsSilent
  <2>2. CASE autoload = "failed"
    BY <1>1, <1>2, <2>2 DEF StartPostEnds
  <2> QED  BY <1>2, <2>1, <2>2 DEF StartPostEnds
<1>3. CASE StopUnit
  BY <1>1, <1>3 DEF StopUnit
<1>4. CASE Crash
  BY <1>1, <1>4 DEF Crash
<1>5. CASE HandlerStopsAll
  BY <1>5 DEF HandlerStopsAll, NoInjections, TypeOK, Attempting, UnitKnows, AllStarted,
              Undisturbed, NoForeground, RemappedOnce, StoppedIsSilent
<1>6. CASE HandlerExits
  BY <1>1, <1>6 DEF HandlerExits
<1> QED  BY <1>2, <1>3, <1>4, <1>5, <1>6

(* The autoload request starts every entry whose device is there.          *)
LEMMA LoadPreserves ==
    ASSUME LifecycleInv, Answered \/ ServeLate
    PROVE  LifecycleInv'
<1> USE LifecycleAssumption DEF LifecycleInv, process, bounds
<1>1. /\ thread' \in [Devices -> {"none", "opening", "on"}]
      /\ \A d \in Devices : thread'[d] = "on" => thread[d] = "on"
      /\ \A d \in Configured \cap plugged : thread'[d] = "opening"
  BY DEF Answered, ServeLate, LoadAll, TypeOK
<1>2. daemon \in {"up", "stopping"} /\ daemon' = daemon /\ unit' = unit
      /\ foreground' = foreground /\ plugged' = plugged /\ setting' = setting
      /\ tries' = tries /\ socket' = socket /\ late' \in BOOLEAN
  BY DEF Answered, ServeLate, Serves, TypeOK
<1>3. TypeOK'
  BY <1>1, <1>2 DEF TypeOK, Answered, ServeLate
<1>4. Attempting'
  BY <1>2 DEF Attempting, Answered, ServeLate
<1>5. UnitKnows'
  BY <1>2 DEF UnitKnows, Answered, ServeLate, TypeOK
<1>6. AllStarted'
  <2>1. Configured \subseteq Devices
    OBVIOUS
  <2>2. CASE Answered
    BY <1>1, <1>2, <2>1, <2>2 DEF AllStarted, Undisturbed, Answered, UnitKnows
  <2>3. CASE ServeLate
    BY <1>1, <1>2, <2>1, <2>3 DEF AllStarted, Undisturbed, ServeLate
  <2> QED  BY <2>2, <2>3
<1>7. NoForeground' /\ RemappedOnce' /\ StoppedIsSilent'
  BY <1>1, <1>2 DEF NoForeground, RemappedOnce, StoppedIsSilent
<1> QED  BY <1>3, <1>4, <1>5, <1>6, <1>7

(* The devices, and the injections that grab and release them.             *)
LEMMA DevicePreserves ==
    ASSUME LifecycleInv, NEW d \in Devices,
           \/ RunThread(d) \/ Foreground(d) \/ ForegroundGrabs(d) \/ ForegroundInterrupted(d)
           \/ Plug(d) \/ Unplug(d)
    PROVE  LifecycleInv'
<1> USE LifecycleAssumption DEF LifecycleInv, process, bounds
<1>1. CASE RunThread(d)
  BY <1>1 DEF RunThread, TypeOK, Attempting, UnitKnows, AllStarted,
              Undisturbed, NoForeground, RemappedOnce, StoppedIsSilent, NoInjections
<1>2. CASE Foreground(d)
  BY <1>2 DEF Foreground, TypeOK, Attempting, UnitKnows, AllStarted,
              Undisturbed, NoForeground, RemappedOnce, StoppedIsSilent
<1>3. CASE ForegroundGrabs(d)
  BY <1>3 DEF ForegroundGrabs, TypeOK, Attempting, UnitKnows, AllStarted,
              Undisturbed, NoForeground, RemappedOnce, StoppedIsSilent
<1>4. CASE ForegroundInterrupted(d)
  BY <1>4 DEF ForegroundInterrupted, TypeOK, Attempting, UnitKnows, AllStarted,
              Undisturbed, NoForeground, RemappedOnce, StoppedIsSilent
<1>5. CASE Plug(d)
  BY <1>5 DEF Plug, TypeOK, Attempting, UnitKnows, AllStarted,
              Undisturbed, NoForeground, RemappedOnce, StoppedIsSilent
<1>6. CASE Unplug(d)
  BY <1>6 DEF Unplug, TypeOK, Attempting, UnitKnows, AllStarted,
              Undisturbed, NoForeground, RemappedOnce, StoppedIsSilent, NoInjections
<1> QED  BY <1>1, <1>2, <1>3, <1>4, <1>5, <1>6

-----------------------------------------------------------------------------
(* The invariant holds at first, and every step preserves it.              *)
THEOREM Invariant == Spec => []LifecycleInv
<1>1. Init => LifecycleInv
  <2> SUFFICES ASSUME Init PROVE LifecycleInv
    OBVIOUS
  <2>1. TypeOK
    <3>1. tries \in 0..Attempts
      BY LifecycleAssumption DEF Init
    <3>2. thread \in [Devices -> {"none", "opening", "on"}]
          /\ foreground \in [Devices -> {"none", "opening", "on"}]
      BY DEF Init, NoInjections
    <3> QED  BY <3>1, <3>2 DEF Init, TypeOK
  <2>2. Attempting /\ UnitKnows /\ AllStarted /\ StoppedIsSilent
    BY DEF Init, Attempting, UnitKnows, AllStarted, StoppedIsSilent
  <2>3. NoForeground /\ RemappedOnce
    BY DEF Init, NoInjections, NoForeground, RemappedOnce
  <2> QED  BY <2>1, <2>2, <2>3 DEF LifecycleInv
<1>2. LifecycleInv /\ [Next]_vars => LifecycleInv'
  <2> SUFFICES ASSUME LifecycleInv, [Next]_vars PROVE LifecycleInv'
    OBVIOUS
  <2>1. CASE UNCHANGED vars
    BY <2>1 DEF vars, process, bounds, LifecycleInv, TypeOK, Attempting, UnitKnows,
       AllStarted, Undisturbed, NoForeground, RemappedOnce, StoppedIsSilent
  <2>2. CASE StartUnit \/ StopUnit \/ Interrupt \/ Crash \/ Systemd
    BY <2>2, WaitingPreserves, EndPreserves DEF Systemd
  <2>3. CASE Daemon
    BY <2>3, WaitingPreserves, EndPreserves, LoadPreserves, DevicePreserves DEF Daemon
  <2>4. CASE Autoload
    BY <2>4, WaitingPreserves, LoadPreserves DEF Autoload
  <2>5. ASSUME NEW d \in Devices,
               \/ Foreground(d) \/ ForegroundGrabs(d) \/ ForegroundInterrupted(d)
               \/ Plug(d) \/ Unplug(d)
        PROVE  LifecycleInv'
    BY <2>5, DevicePreserves
  <2> QED  BY <2>1, <2>2, <2>3, <2>4, <2>5 DEF Next
<1> QED  BY <1>1, <1>2, PTL DEF Spec

(* Every variable keeps its type; the attempts never exceed their number.  *)
THEOREM TypeCorrect == Spec => []TypeOK
BY Invariant, PTL DEF LifecycleInv

(* A device is never remapped twice: whichever of the daemon and           *)
(* run-foreground grabs it first, the other one ends.                      *)
THEOREM RemappedAtMostOnce == Spec => []RemappedOnce
BY Invariant, PTL DEF LifecycleInv

(* The handler of SIGINT holds the mutex until the daemon's end, so that   *)
(* nothing is started after its StopAll.                                   *)
THEOREM SilentBeforeExit == Spec => []StoppedIsSilent
BY Invariant, PTL DEF LifecycleInv

(* An active unit has started every entry of the autoload section, however *)
(* many attempts were lost or served late.                                 *)
THEOREM ActiveUnitApplied == Spec => []ActiveMeansApplied
<1>1. LifecycleInv => ActiveMeansApplied
  BY DEF LifecycleInv, AllStarted, ActiveMeansApplied
<1> QED  BY <1>1, Invariant, PTL
=============================================================================

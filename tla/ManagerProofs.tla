--------------------------- MODULE ManagerProofs ----------------------------
(***************************************************************************)
(* What the answers to stop_all and autoload promise, and what an          *)
(* injection holds while it reads, for any set of nodes, names, threads    *)
(* and requests.                                                           *)
(***************************************************************************)
EXTENDS InjectionDaemonProofs

(* Grabs of injections that read.                                          *)
LEMMA GrabbedInit == Init => GrabbedShape
  BY DEF Init, GrabbedShape

(* What a thread that leaves run forgets is its own.                       *)
LEMMA ClosePreservesGrabbed ==
    ASSUME TypeOK, GrabbedShape, NEW u \in Threads, NEW result, Close(u, result),
           UNCHANGED grab
    PROVE  GrabbedShape'
<1>1. /\ pc'[u] = "closing"
      /\ \A t \in Threads \ {u} : /\ pc'[t] = pc[t] /\ paths'[t] = paths[t]
                                 /\ todo'[t] = todo[t] /\ lost'[t] = lost[t]
  BY DEF Close, TypeOK
<1> QED  BY <1>1 DEF GrabbedShape, Held

LEMMA GrabbedStep == TypeOK /\ GrabShape /\ GrabbedShape /\ [Next]_vars => GrabbedShape'
<1> SUFFICES ASSUME TypeOK, GrabShape, GrabbedShape, [Next]_vars
             PROVE  GrabbedShape'
  OBVIOUS
<1>1. ASSUME UNCHANGED <<grab, pc, paths, todo, lost>> PROVE GrabbedShape'
  BY <1>1 DEF GrabbedShape, Held
<1>2. CASE \/ Request \/ StopOld \/ Joined \/ StartFails \/ Insert \/ AllJoined
           \/ AutoloadNext \/ UNCHANGED vars
  BY <1>2, <1>1
     DEF Request, BeginStart, BeginStop, BeginStopAll, BeginAutoload, StopOld,
         Joined, StartFails, Insert, AllJoined, AutoloadNext, vars, deviceVars, threadVars
<1>3. ASSUME NEW u \in Threads, Spawn(u)
      PROVE  GrabbedShape'
  <2>1. PICK naming \in Namings(present) :
            \E g \in FindDevice(call.device, naming) :
                /\ pc' = [pc EXCEPT ![u] = "opening"]
                /\ paths' = [paths EXCEPT ![u] = SubDevices(g, present)]
                /\ todo' = [todo EXCEPT ![u] = SubDevices(g, present)]
    BY <1>3 DEF Spawn
  <2>2. PICK g \in FindDevice(call.device, naming) :
            /\ pc' = [pc EXCEPT ![u] = "opening"]
            /\ paths' = [paths EXCEPT ![u] = SubDevices(g, present)]
            /\ todo' = [todo EXCEPT ![u] = SubDevices(g, present)]
    BY <2>1
  <2>3. SubDevices(g, present) # {}
    BY <2>2 DEF FindDevice, Namings, Discovered
  <2>4. UNCHANGED <<grab, lost>>
    BY <1>3 DEF Spawn, deviceVars
  <2> QED  BY <2>2, <2>3, <2>4 DEF GrabbedShape, Held, TypeOK
<1>4. ASSUME NEW u \in Threads, NEW n \in Nodes, OpenAndGrab(u, n)
      PROVE  GrabbedShape'
  <2>1. ASSUME NEW result, Close(u, result), UNCHANGED grab
        PROVE  GrabbedShape'
    BY <2>1, ClosePreservesGrabbed
  <2>2. CASE /\ grab[n] = NoThread
             /\ grab' = [grab EXCEPT ![n] = u]
             /\ todo' = [todo EXCEPT ![u] = @ \ {n}]
             /\ UNCHANGED <<pc, paths, lost>>
    <3>1. n \in Held(u)' /\ \A t \in Threads : Held(t) \subseteq Held(t)'
      BY <2>2, DaemonAssumption DEF Held, TypeOK
    <3>2. /\ pc[u] = "opening" /\ todo'[u] = todo[u] \ {n}
          /\ \A t \in Threads \ {u} : todo'[t] = todo[t]
      BY <1>4, <2>2 DEF OpenAndGrab, TypeOK
    <3> QED  BY <2>2, <3>1, <3>2 DEF GrabbedShape
  <2> QED  BY <1>4, <2>1, <2>2 DEF OpenAndGrab
<1>5. ASSUME NEW u \in Threads, CreateWriter(u)
      PROVE  GrabbedShape'
  <2>1. CASE Close(u, "uinput")
    BY <1>5, <2>1, ClosePreservesGrabbed DEF CreateWriter
  <2>2. CASE pc' = [pc EXCEPT ![u] = "polling"] /\ UNCHANGED <<paths, todo, lost>>
    BY <1>5, <2>2 DEF CreateWriter, GrabbedShape, Held, TypeOK
  <2> QED  BY <1>5, <2>1, <2>2 DEF CreateWriter
<1>6. ASSUME NEW u \in Threads, PollStop(u) \/ PollDeviceError(u)
      PROVE  GrabbedShape'
  BY <1>6, ClosePreservesGrabbed DEF PollStop, PollDeviceError
<1>7. ASSUME NEW u \in Threads, Forward(u) \/ PollReadable(u)
      PROVE  GrabbedShape'
  <2>1. CASE Close(u, "emit") /\ UNCHANGED grab
    BY <2>1, ClosePreservesGrabbed
  <2>2. CASE /\ pc[u] \in {"polling", "forwarding"}
             /\ \E p \in {"polling", "forwarding"} : pc' = [pc EXCEPT ![u] = p]
             /\ UNCHANGED <<grab, paths, todo, lost>>
    BY <2>2 DEF GrabbedShape, Held, TypeOK
  <2> QED  BY <1>7, <2>1, <2>2 DEF Forward, PollReadable, deviceVars
<1>8. ASSUME NEW u \in Threads, DropReader(u)
      PROVE  GrabbedShape'
  BY <1>8 DEF DropReader, threadVars, GrabbedShape, Held, TypeOK
<1>9. ASSUME NEW u \in Threads, Exit(u)
      PROVE  GrabbedShape'
  BY <1>9 DEF Exit, deviceVars, GrabbedShape, Held, TypeOK
<1>10. ASSUME NEW n \in Nodes, Plug(n)
       PROVE  GrabbedShape'
  BY <1>10 DEF Plug, threadVars, GrabbedShape, Held
<1>11. ASSUME NEW n \in Nodes, Unplug(n)
       PROVE  GrabbedShape'
  <2>1. ASSUME NEW t \in Threads, pc[t] # "closing", NEW m \in Held(t) \cup lost[t]
        PROVE  m \in Held(t)' \cup lost'[t]
    <3>1. lost'[t] = IF grab[n] = t THEN lost[t] \cup {n} ELSE lost[t]
      BY <1>11, <2>1 DEF Unplug
    <3>2. ASSUME m # n, grab[m] = t
          PROVE  grab'[m] = t
      BY <1>11, <3>2 DEF Unplug, TypeOK
    <3> QED  BY <2>1, <3>1, <3>2 DEF Held, TypeOK
  <2>2. UNCHANGED <<pc, paths, todo>>
    BY <1>11 DEF Unplug
  <2> QED  BY <2>1, <2>2 DEF GrabbedShape
<1> QED
  BY <1>2, <1>3, <1>4, <1>5, <1>6, <1>7, <1>8, <1>9, <1>10, <1>11
     DEF Next, Handle, Run, Hotplug

(* An injection that reads holds every node it was started for, but for    *)
(* those unplugged meanwhile, whatever names requests use and whoever      *)
(* competes for them.                                                      *)
THEOREM GrabsAll == Spec => []GrabbedAll
<1>1. GrabbedShape => GrabbedAll
  BY DEF GrabbedShape, GrabbedAll, Held
<1> QED
  BY <1>1, TypeInit, TypeStep, ShapeInit, ShapeStep, GrabInit, GrabStep, GrabbedInit,
     GrabbedStep, PTL DEF Spec

-----------------------------------------------------------------------------
(* stop_all answers when nothing is left.                                  *)
LEMMA StopAllStep ==
    TypeOK /\ CallShape /\ ExactShape /\ [Next]_vars
    => \/ UNCHANGED vars
       \/ call.op = "stop_all" /\ reply'.result = "ok" =>
              \A t \in Threads : pc'[t] = "exited"
<1> SUFFICES ASSUME TypeOK, CallShape, ExactShape, Next,
                    call.op = "stop_all", reply'.result = "ok"
             PROVE  \A t \in Threads : pc'[t] = "exited"
  OBVIOUS
<1>1. call.phase = "join_all" /\ reply.result # "ok"
  BY DEF CallShape, NoReply
<1>2. AllJoined
  <2>1. ~Request
    <3>1. call # NoCall
      BY <1>1 DEF NoCall
    <3> QED BY <3>1 DEF Request, BeginStart, BeginStop, BeginStopAll, BeginAutoload
  <2>2. ~Hotplug /\ \A u \in Threads : ~Run(u) /\ ~PollReadable(u)
    BY <1>1 DEF Hotplug, Plug, Unplug, Run, OpenAndGrab, CreateWriter, PollStop,
                PollDeviceError, PollReadable, Forward, DropReader, Exit
  <2>3. Handle
    BY <2>1, <2>2 DEF Next
  <2> QED
    BY <1>1, <2>3 DEF Handle, StopOld, Joined, StartFails, Spawn, Insert, AutoloadNext
<1>3. \A t \in Threads : ~Live(t)
  BY <1>1, <1>2, DaemonAssumption DEF AllJoined, ExactShape, Listed, Live
<1> QED  BY <1>2, <1>3 DEF AllJoined, threadVars, Live

(* A stop_all answered with Ok leaves no thread behind.                    *)
THEOREM AllStopped ==
    ASSUME StableNames, ExactRequests
    PROVE  Spec => StopAllMeansStopped
  BY TypeInit, TypeStep, ShapeInit, ShapeStep, GrabInit, GrabStep, ExactInit,
     ExactStep, StopAllStep, PTL DEF Spec, StopAllMeansStopped

-----------------------------------------------------------------------------
(* autoload has started what it answers for.                               *)
LEMMA AutoloadInit == Init => AutoloadShape
  BY DEF Init, NoCall, AutoloadShape

(* The entry it starts is the only one with that device.                   *)
LEMMA OtherEntries ==
    ASSUME TypeOK, AutoloadShape, call.op = "autoload", call.phase # "next",
           NEW e \in AutoloadConfig, e # <<call.device, call.preset>>
    PROVE  e[1] # call.device /\ e[1] \in Names /\ call.device \in Names
<1>1. <<call.device, call.preset>> \in AutoloadConfig
  BY DEF AutoloadShape
<1>2. <<call.device, call.preset>>[1] = call.device /\ call.device \in Names
  BY <1>1, DaemonAssumption
<1>3. e[1] \in Names
  BY DaemonAssumption
<1> QED  BY <1>1, <1>2, <1>3, DaemonAssumption

(* A step of start_injection for one entry keeps what the others have.     *)
LEMMA EntryStep ==
    ASSUME TypeOK, AutoloadShape, call.op = "autoload", call.phase # "next",
           call'.op = "autoload", call'.phase \in {"join", "resolve", "insert"},
           UNCHANGED <<call.device, call.preset, call.rest, call.errors>>,
           \A n \in Names : n # call.device => injections'[n] = injections[n]
    PROVE  AutoloadShape'
<1>1. \A e \in AutoloadConfig :
          e # <<call.device, call.preset>> => injections'[e[1]] = injections[e[1]]
  BY OtherEntries
<1> QED  BY <1>1 DEF AutoloadShape

(* So does its end, with an error or with the entry in the table.          *)
LEMMA EntryEnd ==
    ASSUME TypeOK, AutoloadShape, call.op = "autoload", call.phase # "next",
           NEW result, FinishStart(result),
           \A n \in Names : n # call.device => injections'[n] = injections[n],
           result = "ok" =>
               /\ injections'[call.device].thread # NoThread
               /\ injections'[call.device].preset = call.preset
    PROVE  AutoloadShape'
<1>1. /\ call'.phase = "next" /\ call'.rest = call.rest
      /\ call'.errors = (call.errors \/ result # "ok")
  BY DEF FinishStart, NoCall
<1>2. \A e \in AutoloadConfig :
          e # <<call.device, call.preset>> => injections'[e[1]] = injections[e[1]]
  BY OtherEntries
<1>3. ASSUME ~call'.errors, NEW e \in AutoloadConfig \ call.rest
      PROVE  injections'[e[1]].thread # NoThread /\ injections'[e[1]].preset = e[2]
  <2>1. ~call.errors /\ result = "ok"
    BY <1>1, <1>3
  <2>2. CASE e = <<call.device, call.preset>>
    BY <2>1, <2>2
  <2>3. CASE e # <<call.device, call.preset>>
    BY <2>1, <2>3, <1>2 DEF AutoloadShape
  <2> QED  BY <2>2, <2>3
<1> QED  BY <1>1, <1>3 DEF AutoloadShape

LEMMA AutoloadStep ==
    TypeOK /\ CallShape /\ ExactShape /\ AutoloadShape /\ [Next]_vars => AutoloadShape'
<1> SUFFICES ASSUME TypeOK, CallShape, ExactShape, AutoloadShape, [Next]_vars
             PROVE  AutoloadShape'
  OBVIOUS
<1>1. ASSUME UNCHANGED <<injections, call>> PROVE AutoloadShape'
  BY <1>1 DEF AutoloadShape
<1>2. CASE Hotplug \/ (\E u \in Threads : Run(u) \/ PollReadable(u)) \/ UNCHANGED vars
  BY <1>2, <1>1
     DEF Hotplug, Plug, Unplug, Run, OpenAndGrab, CreateWriter, PollStop,
         PollDeviceError, PollReadable, Forward, DropReader, Exit, vars
<1>3. CASE call'.op # "autoload"
  BY <1>3 DEF AutoloadShape
<1>4. CASE Request
  <2>1. ASSUME NEW d \in Requestable, NEW p \in Presets, BeginStart(d, p)
        PROVE  AutoloadShape'
    BY <2>1, <1>3 DEF BeginStart, NoCall
  <2>2. ASSUME NEW d \in Requestable, BeginStop(d) PROVE AutoloadShape'
    BY <2>2, <1>1, <1>3 DEF BeginStop, NoCall
  <2>3. CASE BeginStopAll
    BY <2>3, <1>3 DEF BeginStopAll, NoCall
  <2>4. CASE BeginAutoload
    BY <2>4, <1>3 DEF BeginAutoload, NoCall, AutoloadShape
  <2> QED  BY <1>4, <2>1, <2>2, <2>3, <2>4 DEF Request
<1>5. ASSUME call.op # "autoload", Handle PROVE call'.op # "autoload"
  <2>1. ASSUME NEW result, Respond(result) PROVE call'.op # "autoload"
    BY <2>1 DEF Respond, NoCall
  <2>2. ASSUME NEW result, FinishStart(result) PROVE call'.op # "autoload"
    BY <1>5, <2>1, <2>2 DEF FinishStart
  <2>3. CASE StopOld
    BY <1>5, <2>2, <2>3 DEF StopOld, TypeOK, Calls
  <2>4. CASE Joined
    BY <1>5, <2>1, <2>4 DEF Joined, TypeOK, Calls
  <2>5. CASE StartFails \/ Insert
    BY <2>2, <2>5 DEF StartFails, Insert
  <2>6. CASE \E u \in Threads : Spawn(u)
    BY <1>5, <2>6 DEF Spawn, TypeOK, Calls
  <2>7. CASE AllJoined
    BY <2>1, <2>7 DEF AllJoined
  <2>8. CASE AutoloadNext
    BY <1>5, <2>1, <2>8 DEF AutoloadNext, TypeOK, Calls
  <2> QED  BY <1>5, <2>3, <2>4, <2>5, <2>6, <2>7, <2>8 DEF Handle
<1>6. ASSUME call.op = "autoload", StopOld PROVE AutoloadShape'
  <2>1. \A n \in Names : n # call.device => injections'[n] = injections[n]
    BY <1>6 DEF StopOld, RemoveAndSignal, TypeOK
  <2>2. CASE FinishStart("invalid")
    BY <1>6, <2>1, <2>2, EntryEnd DEF StopOld
  <2>3. CASE /\ call'.phase \in {"resolve", "join"}
             /\ UNCHANGED <<call.op, call.device, call.preset, call.rest, call.errors>>
    BY <1>6, <2>1, <2>3, EntryStep DEF StopOld
  <2> QED  BY <1>6, <2>2, <2>3 DEF StopOld, TypeOK, Calls
<1>7. ASSUME call.op = "autoload", Joined \/ \E u \in Threads : Spawn(u)
      PROVE  AutoloadShape'
  <2>1. /\ UNCHANGED injections
        /\ call.phase # "next" /\ call'.phase \in {"resolve", "insert"}
        /\ UNCHANGED <<call.op, call.device, call.preset, call.rest, call.errors>>
    BY <1>7 DEF Joined, Spawn, TypeOK, Calls
  <2> QED  BY <1>7, <2>1, EntryStep
<1>8. ASSUME call.op = "autoload", StartFails PROVE AutoloadShape'
  <2>1. PICK result \in {"not_found", "load_failed"} : FinishStart(result)
    BY <1>8 DEF StartFails
  <2> QED  BY <1>8, <2>1, EntryEnd DEF StartFails
<1>9. ASSUME call.op = "autoload", Insert PROVE AutoloadShape'
  <2>1. call.name = call.device /\ call.target \in Threads /\ call.device \in Names
    BY <1>9, DaemonAssumption DEF Insert, ExactShape, CallShape
  <2>2. injections' = [injections EXCEPT
            ![call.device] = [thread |-> call.target, preset |-> call.preset]]
    BY <1>9, <2>1 DEF Insert
  <2>3. /\ \A n \in Names : n # call.device => injections'[n] = injections[n]
        /\ injections'[call.device].thread # NoThread
        /\ injections'[call.device].preset = call.preset
    BY <2>1, <2>2, DaemonAssumption DEF TypeOK
  <2> QED  BY <1>9, <2>3, EntryEnd DEF Insert
<1>10. ASSUME call.op = "autoload", AutoloadNext PROVE AutoloadShape'
  <2>1. CASE Respond(IF call.errors THEN "some_failed" ELSE "ok")
    BY <2>1, <1>3 DEF Respond, NoCall
  <2>2. ASSUME NEW entry \in call.rest,
               call' = [call EXCEPT !.phase = "stop_old", !.device = entry[1],
                                    !.preset = entry[2], !.rest = @ \ {entry}]
        PROVE  AutoloadShape'
    <3>1. /\ call'.phase = "stop_old" /\ call'.rest = call.rest \ {entry}
          /\ call'.device = entry[1] /\ call'.preset = entry[2]
          /\ call'.errors = call.errors
      BY <2>2 DEF TypeOK, Calls
    <3>2. entry \in AutoloadConfig /\ entry = <<entry[1], entry[2]>>
      BY DaemonAssumption DEF CallShape
    <3>3. UNCHANGED injections /\ call.phase = "next"
      BY <1>10 DEF AutoloadNext
    <3> QED  BY <1>10, <3>1, <3>2, <3>3 DEF AutoloadShape
  <2> QED  BY <1>10, <2>1, <2>2 DEF AutoloadNext
<1>11. ASSUME call.op = "autoload", AllJoined PROVE AutoloadShape'
  BY <1>11, <1>3 DEF AllJoined, Respond, NoCall
<1> QED
  BY <1>2, <1>3, <1>4, <1>5, <1>6, <1>7, <1>8, <1>9, <1>10, <1>11 DEF Next, Handle

(* The answer "ok" comes when no entry is left and none has failed.        *)
LEMMA AutoloadAnswer ==
    TypeOK /\ CallShape /\ AutoloadShape /\ [Next]_vars
    => \/ UNCHANGED vars
       \/ call.op = "autoload" /\ reply'.result = "ok" =>
              \A e \in AutoloadConfig :
                  injections'[e[1]].thread # NoThread /\ injections'[e[1]].preset = e[2]
<1> SUFFICES ASSUME TypeOK, CallShape, AutoloadShape, Next,
                    call.op = "autoload", reply'.result = "ok"
             PROVE  \A e \in AutoloadConfig :
                        injections'[e[1]].thread # NoThread /\ injections'[e[1]].preset = e[2]
  OBVIOUS
<1>1. reply.result # "ok"
  BY DEF CallShape, NoReply
<1>2. call.phase # "join_all" /\ call # NoCall
  BY DEF AutoloadShape, NoCall
<1>3. AutoloadNext
  <2>1. ~Request
    BY <1>2 DEF Request, BeginStart, BeginStop, BeginStopAll, BeginAutoload
  <2>2. ~Hotplug /\ \A u \in Threads : ~Run(u) /\ ~PollReadable(u)
    BY <1>1 DEF Hotplug, Plug, Unplug, Run, OpenAndGrab, CreateWriter, PollStop,
                PollDeviceError, PollReadable, Forward, DropReader, Exit
  <2>3. Handle
    BY <2>1, <2>2 DEF Next
  <2> QED
    BY <1>1, <1>2, <2>3
       DEF Handle, StopOld, Joined, StartFails, Spawn, Insert, AllJoined, FinishStart
<1>4. call.phase = "next" /\ call.rest = {} /\ ~call.errors /\ UNCHANGED injections
  <2>1. call.errors \in BOOLEAN
    BY DEF TypeOK, Calls
  <2>2. call.rest = {} /\ Respond(IF call.errors THEN "some_failed" ELSE "ok")
    BY <1>1, <1>3 DEF AutoloadNext
  <2>3. (IF call.errors THEN "some_failed" ELSE "ok") = "ok"
    BY <2>2 DEF Respond
  <2>4. ~call.errors
    BY <2>1, <2>3
  <2> QED  BY <1>3, <2>2, <2>4 DEF AutoloadNext
<1> QED  BY <1>4 DEF AutoloadShape

(* An autoload answered with Ok has started every entry of config.json.    *)
THEOREM AutoloadAnswered ==
    ASSUME StableNames, ExactRequests
    PROVE  Spec => AutoloadOk
  BY TypeInit, TypeStep, ShapeInit, ShapeStep, GrabInit, GrabStep, ExactInit,
     ExactStep, AutoloadInit, AutoloadStep, AutoloadAnswer, PTL DEF Spec, AutoloadOk

(* Everything the daemon's arguments for exact names rest on.              *)
THEOREM DaemonInvHolds ==
    ASSUME StableNames, ExactRequests
    PROVE  Spec => []DaemonInv
  BY TypeInit, TypeStep, ShapeInit, ShapeStep, GrabInit, GrabStep, ExactInit, ExactStep,
     GrabbedInit, GrabbedStep, AutoloadInit, AutoloadStep, PTL DEF Spec, DaemonInv
=============================================================================

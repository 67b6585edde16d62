------------------------ MODULE InjectionDaemonProofs ------------------------
(***************************************************************************)
(* Theorems about InjectionDaemon for any set of nodes, names, threads and *)
(* requests, and their proofs.                                             *)
(***************************************************************************)
EXTENDS InjectionDaemon, TLAPS

(* Resolving a name against a naming of the devices found in `nodes` gives *)
(* only devices found there, whose names the kernel reports.               *)
LEMMA FoundIsNamed ==
    ASSUME NEW nodes \in SUBSET Nodes, NEW name \in Names,
           NEW naming \in Namings(nodes), NEW g \in FindDevice(name, naming)
    PROVE  /\ g \in Groups
           /\ naming[g] \in Names
           /\ naming[g] \in GroupNames(g, nodes)
  BY DEF FindDevice, Namings, Discovered

(* Taking part of the steps below apart: what a step that answers or that  *)
(* tells threads to stop does to the types.                                *)
LEMMA RespondType ==
    ASSUME call \in Calls, NEW result \in Results, Respond(result)
    PROVE  call' \in Calls /\ reply' \in Replies
  BY DaemonAssumption DEF Respond, Calls, Replies, NoCall, Operations, Phases

LEMMA FinishStartType ==
    ASSUME call \in Calls, reply \in Replies, NEW result \in Results,
           FinishStart(result)
    PROVE  call' \in Calls /\ reply' \in Replies
<1>1. CASE call.op = "autoload"
  <2> DEFINE failed == call.errors \/ result # "ok"
  <2>1. failed \in BOOLEAN
    OBVIOUS
  <2>2. /\ call' = [NoCall EXCEPT !.op = "autoload", !.phase = "next",
                                  !.rest = call.rest, !.errors = failed]
        /\ UNCHANGED reply
    BY <1>1 DEF FinishStart
  <2> HIDE DEF failed
  <2> QED BY <2>1, <2>2 DEF Calls, NoCall, Operations, Phases
<1>2. CASE call.op # "autoload"
  BY <1>2, RespondType DEF FinishStart
<1> QED BY <1>1, <1>2

LEMMA SignalType ==
    ASSUME stop \in [Threads -> {"none", "byte", "hangup"}],
           NEW S, NEW how \in {"byte", "hangup"}, Signal(S, how)
    PROVE  stop' \in [Threads -> {"none", "byte", "hangup"}]
  BY DEF Signal

LEMMA CloseType ==
    ASSUME TypeOK, NEW t \in Threads, NEW result \in Outcomes, Close(t, result)
    PROVE  /\ pc' \in [Threads -> ThreadStates]
           /\ outcome' \in [Threads -> Outcomes]
           /\ present' \subseteq Nodes
           /\ {paths', todo', lost'} \subseteq [Threads -> SUBSET Nodes]
           /\ \A u \in Threads : todo'[u] \subseteq todo[u]
  BY DEF Close, TypeOK, ThreadStates

-----------------------------------------------------------------------------
(* The type invariant is inductive.                                        *)
LEMMA TypeInit == Init => TypeOK
  BY DaemonAssumption DEF Init, TypeOK, NoCall, NoReply, NoInjection, Injection,
     Calls, Replies, Results, Operations, Phases, ThreadStates, Outcomes, Hardware

LEMMA TypeStep == TypeOK /\ CallShape /\ [Next]_vars => TypeOK'
<1> SUFFICES ASSUME TypeOK, CallShape, [Next]_vars
             PROVE  TypeOK'
  OBVIOUS
<1> USE DEF TypeOK
<1>1. ASSUME NEW d \in Requestable, NEW p \in Presets, BeginStart(d, p)
      PROVE  TypeOK'
  BY <1>1, DaemonAssumption
     DEF BeginStart, deviceVars, threadVars, NoCall, NoReply, Calls, Replies,
         Results, Operations, Phases
<1>2. CASE StopOld
  <2>1. call' \in Calls /\ reply' \in Replies
    <3>1. CASE {call.device, call.preset} \cap Invalid # {}
      BY <3>1, <1>2, FinishStartType DEF StopOld, Results
    <3>2. CASE {call.device, call.preset} \cap Invalid = {}
      <4>1. call.device \in Names
        BY <1>2, DaemonAssumption DEF StopOld, CallShape
      <4> QED BY <4>1, <3>2, <1>2 DEF StopOld, Calls, Phases, Injection
    <3> QED BY <3>1, <3>2
  <2>2. injections' \in [Names -> Injection]
    BY <1>2 DEF StopOld, RemoveAndSignal, NoInjection, Injection
  <2>3. stop' \in [Threads -> {"none", "byte", "hangup"}]
    BY <1>2, SignalType DEF StopOld, RemoveAndSignal
  <2> QED BY <2>1, <2>2, <2>3, <1>2 DEF StopOld, deviceVars
<1>3. ASSUME NEW d \in Requestable, BeginStop(d)
      PROVE  TypeOK'
  <2>1. call' \in Calls /\ reply' \in Replies
    <3>1. d \in Names
      BY DaemonAssumption
    <3>2. CASE Listed(d)
      <4>1. call' \in Calls
        <5>1. injections[d].thread \in Threads \cup {NoThread}
          BY <3>1 DEF Injection
        <5>2. call' = [NoCall EXCEPT !.op = "stop", !.phase = "join", !.device = d,
                                     !.target = injections[d].thread]
          BY <3>2, <1>3 DEF BeginStop
        <5> HIDE DEF TypeOK
        <5> QED BY <3>1, <5>1, <5>2 DEF NoCall, Calls, Operations, Phases
      <4> QED BY <4>1, <3>2, <1>3 DEF BeginStop, NoReply, Replies, Results, Operations
    <3>3. CASE ~Listed(d)
      <4>1. call' \in Calls
        BY <3>3, <1>3 DEF BeginStop
      <4> QED BY <4>1, <3>1, <3>3, <1>3 DEF BeginStop, Replies, Results, Operations
    <3> QED BY <3>2, <3>3
  <2>2. injections' \in [Names -> Injection]
    BY <1>3 DEF BeginStop, RemoveAndSignal, NoInjection, Injection
  <2>3. stop' \in [Threads -> {"none", "byte", "hangup"}]
    BY <1>3, SignalType DEF BeginStop, RemoveAndSignal
  <2> QED BY <2>1, <2>2, <2>3, <1>3 DEF BeginStop, deviceVars
<1>4. CASE Joined
  <2>1. call' \in Calls /\ reply' \in Replies
    <3>1. CASE call.op = "stop"
      BY <3>1, <1>4, RespondType DEF Joined, Results
    <3>2. CASE call.op # "stop"
      BY <3>2, <1>4 DEF Joined, Calls, Phases
    <3> QED BY <3>1, <3>2
  <2> QED BY <2>1, <1>4 DEF Joined, deviceVars, threadVars
<1>5. CASE StartFails
  <2>1. call' \in Calls /\ reply' \in Replies
    BY <1>5, FinishStartType DEF StartFails, Results
  <2> QED BY <2>1, <1>5 DEF StartFails, deviceVars, threadVars
<1>6. ASSUME NEW t \in Threads, Spawn(t)
      PROVE  TypeOK'
  <2>0. PICK naming \in Namings(present) :
            \E g \in FindDevice(call.device, naming) :
                /\ pc' = [pc EXCEPT ![t] = "opening"]
                /\ label' = [label EXCEPT ![t] = naming[g]]
                /\ todo' = [todo EXCEPT ![t] = SubDevices(g, present)]
                /\ call' = [call EXCEPT !.phase = "insert", !.target = t,
                                        !.name = naming[g]]
    BY <1>6 DEF Spawn
  <2>1. PICK g \in FindDevice(call.device, naming) :
            /\ pc' = [pc EXCEPT ![t] = "opening"]
            /\ label' = [label EXCEPT ![t] = naming[g]]
            /\ todo' = [todo EXCEPT ![t] = SubDevices(g, present)]
            /\ call' = [call EXCEPT !.phase = "insert", !.target = t,
                                    !.name = naming[g]]
    BY <2>0
  <2>2. naming[g] \in Names
    BY <2>1 DEF FindDevice, Namings, Discovered, GroupNames
  <2>3. SubDevices(g, present) \subseteq Nodes
    BY DEF SubDevices
  <2>4. call' \in Calls
    BY <2>1, <2>2 DEF Calls, Phases
  <2> QED BY <2>1, <2>2, <2>3, <2>4, <1>6 DEF Spawn, deviceVars, ThreadStates
<1>7. CASE Insert
  <2>1. call' \in Calls /\ reply' \in Replies
    BY <1>7, FinishStartType DEF Insert, Results
  <2>2. stop' \in [Threads -> {"none", "byte", "hangup"}]
    BY <1>7, SignalType DEF Insert
  <2>3. injections' \in [Names -> Injection]
    BY <1>7 DEF Insert, Injection, Calls
  <2> QED BY <2>1, <2>2, <2>3, <1>7 DEF Insert, deviceVars
<1>8. CASE BeginStopAll
  <2>1. stop' \in [Threads -> {"none", "byte", "hangup"}]
    BY <1>8, SignalType DEF BeginStopAll
  <2> QED
    BY <2>1, <1>8, DaemonAssumption
       DEF BeginStopAll, deviceVars, NoCall, NoReply, Calls, Replies, Results,
           Operations, Phases
<1>9. CASE AllJoined
  <2>1. call' \in Calls /\ reply' \in Replies
    BY <1>9, RespondType DEF AllJoined, Results
  <2> QED BY <2>1, <1>9 DEF AllJoined, deviceVars, threadVars, NoInjection, Injection
<1>10. CASE BeginAutoload
  <2>1. AutoloadConfig \subseteq Names \X Presets
    BY DaemonAssumption
  <2>2. call' \in Calls /\ reply' \in Replies
    <3>1. CASE UNCHANGED call
      BY <3>1, <1>10 DEF BeginAutoload, NoReply, Replies, Results, Operations
    <3>2. CASE call' = [NoCall EXCEPT !.op = "autoload", !.phase = "next",
                                      !.rest = AutoloadConfig]
      <4>1. call' \in Calls
        BY <2>1, <3>2 DEF NoCall, Calls, Operations, Phases
      <4>2. reply' \in Replies
        BY <1>10 DEF BeginAutoload, NoReply, Replies, Results, Operations
      <4> QED BY <4>1, <4>2
    <3> QED BY <3>1, <3>2, <1>10 DEF BeginAutoload
  <2> QED BY <2>2, <1>10 DEF BeginAutoload, deviceVars, threadVars
<1>11. CASE AutoloadNext
  <2>1. call' \in Calls /\ reply' \in Replies
    <3>1. CASE call.rest = {}
      BY <3>1, <1>11, RespondType DEF AutoloadNext, Results
    <3>2. CASE call.rest # {}
      <4>1. PICK entry \in call.rest :
                /\ call' = [call EXCEPT !.phase = "stop_old", !.device = entry[1],
                                        !.preset = entry[2], !.rest = @ \ {entry}]
                /\ UNCHANGED reply
        BY <3>2, <1>11 DEF AutoloadNext
      <4>2. entry[1] \in Names /\ entry[2] \in Presets
        BY DEF Calls
      <4> QED BY <4>1, <4>2 DEF Calls, Phases
    <3> QED BY <3>1, <3>2
  <2> QED BY <2>1, <1>11 DEF AutoloadNext, deviceVars, threadVars
<1>12. ASSUME NEW t \in Threads, Run(t) \/ PollReadable(t)
       PROVE  TypeOK'
  <2>1. ASSUME NEW n \in Nodes, OpenAndGrab(t, n)
        PROVE  TypeOK'
    BY <2>1, CloseType DEF OpenAndGrab, Outcomes
  <2>2. CASE CreateWriter(t)
    <3>1. VirtualNode[t] \in Nodes
      BY DaemonAssumption
    <3> QED BY <3>1, <2>2, CloseType DEF CreateWriter, Outcomes, ThreadStates
  <2>3. CASE PollStop(t)
    BY <2>3, CloseType DEF PollStop, Outcomes
  <2>4. CASE PollDeviceError(t)
    BY <2>4, CloseType DEF PollDeviceError, Outcomes
  <2>5. CASE Forward(t)
    BY <2>5, CloseType DEF Forward, Outcomes, ThreadStates
  <2>6. CASE DropReader(t)
    BY <2>6 DEF DropReader, threadVars
  <2>7. CASE Exit(t)
    BY <2>7 DEF Exit, deviceVars, ThreadStates, Outcomes
  <2>8. CASE PollReadable(t)
    BY <2>8 DEF PollReadable, deviceVars, ThreadStates
  <2> QED BY <1>12, <2>1, <2>2, <2>3, <2>4, <2>5, <2>6, <2>7, <2>8 DEF Run
<1>13. ASSUME NEW n \in Nodes, Plug(n) \/ Unplug(n)
       PROVE  TypeOK'
  BY <1>13 DEF Plug, Unplug, threadVars
<1>14. CASE UNCHANGED vars
  BY <1>14 DEF vars, deviceVars, threadVars
<1> QED
  BY <1>1, <1>2, <1>3, <1>4, <1>5, <1>6, <1>7, <1>8, <1>9, <1>10, <1>11, <1>12,
     <1>13, <1>14 DEF Next, Request, Handle, Hotplug

-----------------------------------------------------------------------------
(* What a request in progress knows.                                       *)
LEMMA ShapeInit == Init => CallShape
  BY DEF Init, CallShape, NoCall

LEMMA RespondShape ==
    ASSUME NEW result, Respond(result)
    PROVE  CallShape' /\ call'.phase = "idle" /\ call'.op = "none"
  BY DEF Respond, CallShape, NoCall

LEMMA FinishStartShape ==
    ASSUME CallShape, call \in Calls, NEW result, FinishStart(result)
    PROVE  /\ CallShape'
           /\ call'.phase \in {"idle", "next"}
           /\ call'.op \notin {"stop", "stop_all"}
<1>1. CASE call.op = "autoload"
  BY <1>1 DEF FinishStart, CallShape, NoCall
<1>2. CASE call.op # "autoload"
  BY <1>2, RespondShape DEF FinishStart
<1> QED BY <1>1, <1>2

LEMMA ShapeStep == TypeOK /\ CallShape /\ [Next]_vars => CallShape'
<1> SUFFICES ASSUME TypeOK, CallShape, [Next]_vars
             PROVE  CallShape'
  OBVIOUS
<1> USE DEF TypeOK
<1>1. ASSUME NEW d \in Requestable, NEW p \in Presets, BeginStart(d, p)
      PROVE  CallShape'
  BY <1>1 DEF BeginStart, NoCall, NoReply, CallShape
<1>2. CASE StopOld
  <2>1. CASE {call.device, call.preset} \cap Invalid # {}
    BY <2>1, <1>2, FinishStartShape DEF StopOld
  <2>2. CASE {call.device, call.preset} \cap Invalid = {} /\ ~Listed(call.device)
    BY <2>2, <1>2 DEF StopOld, CallShape, Calls
  <2>3. CASE {call.device, call.preset} \cap Invalid = {} /\ Listed(call.device)
    <3>1. call.device \in Names
      BY <1>2, DaemonAssumption DEF StopOld, CallShape
    <3>2. injections[call.device].thread \in Threads
      BY <3>1, <2>3 DEF Listed, Injection
    <3> QED BY <3>2, <2>3, <1>2 DEF StopOld, CallShape, Calls
  <2> QED BY <2>1, <2>2, <2>3
<1>3. ASSUME NEW d \in Requestable, BeginStop(d)
      PROVE  CallShape'
  <2>1. CASE Listed(d)
    <3>1. injections[d].thread \in Threads
      BY <2>1, DaemonAssumption DEF Listed, Injection
    <3> QED BY <3>1, <2>1, <1>3 DEF BeginStop, NoCall, NoReply, CallShape
  <2>2. CASE ~Listed(d)
    BY <2>2, <1>3 DEF BeginStop, NoCall, CallShape
  <2> QED BY <2>1, <2>2
<1>4. CASE Joined
  <2>1. CASE call.op = "stop"
    BY <2>1, <1>4, RespondShape DEF Joined
  <2>2. CASE call.op # "stop"
    BY <2>2, <1>4 DEF Joined, CallShape, Calls
  <2> QED BY <2>1, <2>2
<1>5. CASE StartFails
  BY <1>5, FinishStartShape DEF StartFails
<1>6. ASSUME NEW t \in Threads, Spawn(t)
      PROVE  CallShape'
  <2>1. PICK naming \in Namings(present) :
            \E g \in FindDevice(call.device, naming) :
                call' = [call EXCEPT !.phase = "insert", !.target = t,
                                     !.name = naming[g]]
    BY <1>6 DEF Spawn
  <2>2. PICK g \in FindDevice(call.device, naming) :
            call' = [call EXCEPT !.phase = "insert", !.target = t,
                                 !.name = naming[g]]
    BY <2>1
  <2>3. naming[g] \in Names
    BY <2>2 DEF FindDevice, Namings, Discovered, GroupNames
  <2> QED BY <2>2, <2>3, <1>6 DEF Spawn, CallShape, Calls
<1>7. CASE Insert
  BY <1>7, FinishStartShape DEF Insert
<1>8. CASE BeginStopAll
  BY <1>8 DEF BeginStopAll, NoCall, NoReply, CallShape
<1>9. CASE AllJoined
  BY <1>9, RespondShape DEF AllJoined
<1>10. CASE BeginAutoload
  <2>1. CASE UNCHANGED call
    BY <2>1, <1>10 DEF BeginAutoload, NoCall, CallShape
  <2>2. CASE ~UNCHANGED call
    <3>1. /\ call' = [NoCall EXCEPT !.op = "autoload", !.phase = "next",
                                    !.rest = AutoloadConfig]
          /\ reply' = NoReply
      BY <2>2, <1>10 DEF BeginAutoload
    <3> QED BY <3>1 DEF NoCall, NoReply, CallShape
  <2> QED BY <2>1, <2>2
<1>11. CASE AutoloadNext
  <2>1. CASE call.rest = {}
    BY <2>1, <1>11, RespondShape DEF AutoloadNext
  <2>2. CASE call.rest # {}
    <3>1. PICK entry \in call.rest :
              /\ call' = [call EXCEPT !.phase = "stop_old", !.device = entry[1],
                                      !.preset = entry[2], !.rest = @ \ {entry}]
              /\ UNCHANGED reply
      BY <2>2, <1>11 DEF AutoloadNext
    <3>2. entry[1] \in Requestable
      BY DaemonAssumption DEF CallShape
    <3> QED BY <3>1, <3>2, <1>11 DEF AutoloadNext, CallShape, Calls
  <2> QED BY <2>1, <2>2
<1>12. ASSUME NEW t \in Threads, Run(t) \/ PollReadable(t)
       PROVE  CallShape'
  BY <1>12
     DEF Run, OpenAndGrab, CreateWriter, PollStop, PollDeviceError, Forward,
         DropReader, Exit, PollReadable, CallShape
<1>13. ASSUME NEW n \in Nodes, Plug(n) \/ Unplug(n)
       PROVE  CallShape'
  BY <1>13 DEF Plug, Unplug, CallShape
<1>14. CASE UNCHANGED vars
  BY <1>14 DEF vars, CallShape
<1> QED
  BY <1>1, <1>2, <1>3, <1>4, <1>5, <1>6, <1>7, <1>8, <1>9, <1>10, <1>11, <1>12,
     <1>13, <1>14 DEF Next, Request, Handle, Hotplug

(* Every variable keeps its type, whatever the machine looks like.         *)
THEOREM TypeCorrect == Spec => []TypeOK
  BY TypeInit, TypeStep, ShapeInit, ShapeStep, PTL DEF Spec

-----------------------------------------------------------------------------
(* Stop signals and orphans.                                               *)
LEMMA SignalEffect ==
    ASSUME TypeOK, NEW S, NEW how \in {"byte", "hangup"}, Signal(S, how),
           NEW t \in Threads, stop'[t] = "none"
    PROVE  stop[t] = "none" /\ (t \notin S \/ ~Live(t))
  BY DEF Signal, TypeOK

LEMMA OrphanInit == Init => NoOrphan
  BY DEF Init, NoOrphan

LEMMA OrphanStep == TypeOK /\ CallShape /\ NoOrphan /\ [Next]_vars => NoOrphan'
<1> DEFINE Reading(t) == pc[t] \in {"opening", "polling", "forwarding"}
           Reached(t) == \/ \E n \in Names : injections[n].thread = t
                         \/ call.phase = "insert" /\ call.target = t
<1> SUFFICES ASSUME TypeOK, CallShape, NoOrphan, [Next]_vars,
                    NEW t \in Threads, Reading(t)', stop'[t] = "none"
             PROVE  Reached(t)'
  BY DEF NoOrphan
<1>0. ASSUME Reading(t), stop[t] = "none"
      PROVE  Reached(t)
  BY <1>0 DEF NoOrphan
<1>1. ASSUME NEW d \in Requestable, NEW p \in Presets, BeginStart(d, p)
      PROVE  Reached(t)'
  BY <1>0, <1>1 DEF BeginStart, threadVars, NoCall
<1>2. ASSUME NEW d \in Names, RemoveAndSignal(d), UNCHANGED pc, call.phase # "insert"
      PROVE  Reached(t)'
  <2>1. stop[t] = "none" /\ (t # injections[d].thread \/ ~Live(t))
    BY <1>2, SignalEffect DEF RemoveAndSignal
  <2>2. PICK n \in Names : injections[n].thread = t
    BY <1>0, <1>2, <2>1
  <2>3. n # d
    BY <1>2, <2>1, <2>2 DEF Live
  <2> QED BY <1>2, <2>2, <2>3 DEF RemoveAndSignal, TypeOK
<1>3. CASE StopOld
  <2>1. call.device \in Names
    BY <1>3, DaemonAssumption DEF StopOld, CallShape
  <2>2. CASE RemoveAndSignal(call.device)
    BY <2>1, <2>2, <1>2, <1>3 DEF StopOld
  <2>3. CASE UNCHANGED <<injections, stop>>
    BY <2>3, <1>0, <1>3 DEF StopOld
  <2> QED BY <2>2, <2>3, <1>3 DEF StopOld
<1>4. ASSUME NEW d \in Requestable, BeginStop(d)
      PROVE  Reached(t)'
  <2>1. d \in Names
    BY DaemonAssumption
  <2>2. CASE RemoveAndSignal(d)
    BY <2>1, <2>2, <1>2, <1>4 DEF BeginStop, NoCall
  <2>3. CASE UNCHANGED <<injections, stop, call>>
    BY <2>3, <1>0, <1>4 DEF BeginStop
  <2> QED BY <2>2, <2>3, <1>4 DEF BeginStop
<1>5. CASE Joined
  BY <1>0, <1>5 DEF Joined, threadVars
<1>6. CASE StartFails
  BY <1>0, <1>6 DEF StartFails, threadVars
<1>7. ASSUME NEW u \in Threads, Spawn(u)
      PROVE  Reached(t)'
  <2>1. CASE t = u
    BY <2>1, <1>7 DEF Spawn, TypeOK, Calls
  <2>2. CASE t # u
    <3>1. pc'[t] = pc[t]
      BY <2>2, <1>7 DEF Spawn, TypeOK
    <3> QED BY <3>1, <1>0, <1>7 DEF Spawn
  <2> QED BY <2>1, <2>2
<1>8. CASE Insert
  <2>1. call.name \in Names
    BY <1>8 DEF Insert, CallShape
  <2>2. stop[t] = "none" /\ Reading(t) /\ t # injections[call.name].thread
    BY <1>8, SignalEffect DEF Insert, Live
  <2>3. CASE call.target = t
    BY <2>1, <2>3, <1>8 DEF Insert, TypeOK
  <2>4. CASE call.target # t
    BY <2>1, <2>2, <2>4, <1>0, <1>8 DEF Insert, TypeOK
  <2> QED BY <2>3, <2>4
<1>9. CASE BeginStopAll
  <2>1. stop[t] = "none"
    BY <1>9, SignalEffect DEF BeginStopAll
  <2> QED BY <2>1, <1>0, <1>9 DEF BeginStopAll, NoCall
<1>10. CASE AllJoined
  <2>1. PICK n \in Names : injections[n].thread = t
    BY <1>0, <1>10 DEF AllJoined, threadVars
  <2> QED BY <2>1, <1>10, DaemonAssumption DEF AllJoined, Listed, threadVars
<1>11. CASE BeginAutoload
  BY <1>0, <1>11 DEF BeginAutoload, threadVars, NoCall
<1>12. CASE AutoloadNext
  BY <1>0, <1>12 DEF AutoloadNext, threadVars
<1>13. ASSUME NEW u \in Threads, Run(u) \/ PollReadable(u)
       PROVE  Reached(t)'
  <2>1. Reading(t) /\ stop[t] = "none"
    BY <1>13
       DEF Run, OpenAndGrab, CreateWriter, PollStop, PollDeviceError, Forward,
           DropReader, Exit, PollReadable, Close, threadVars, TypeOK
  <2> QED
    BY <2>1, <1>0, <1>13
       DEF Run, OpenAndGrab, CreateWriter, PollStop, PollDeviceError, Forward,
           DropReader, Exit, PollReadable
<1>14. ASSUME NEW n \in Nodes, Plug(n) \/ Unplug(n)
       PROVE  Reached(t)'
  BY <1>0, <1>14 DEF Plug, Unplug, threadVars
<1>15. CASE UNCHANGED vars
  BY <1>0, <1>15 DEF vars, threadVars
<1> QED
  BY <1>1, <1>3, <1>4, <1>5, <1>6, <1>7, <1>8, <1>9, <1>10, <1>11, <1>12, <1>13,
     <1>14, <1>15 DEF Next, Request, Handle, Hotplug

(* No running injection is ever out of the daemon's reach, whatever names  *)
(* clients use and however the devices are called.                         *)
THEOREM NeverOrphaned == Spec => []NoOrphan
  BY TypeInit, TypeStep, ShapeInit, ShapeStep, OrphanInit, OrphanStep, PTL DEF Spec

-----------------------------------------------------------------------------
(* Grabs.                                                                  *)
LEMMA GrabInit == Init => GrabShape /\ NoFeedback
  BY DaemonAssumption DEF Init, GrabShape, NoFeedback

LEMMA GrabStep ==
    TypeOK /\ GrabShape /\ NoFeedback /\ [Next]_vars => GrabShape' /\ NoFeedback'
<1> SUFFICES ASSUME TypeOK, GrabShape, NoFeedback, [Next]_vars
             PROVE  GrabShape' /\ NoFeedback'
  OBVIOUS
<1> USE DEF TypeOK
<1>1. ASSUME UNCHANGED <<grab, pc, todo>>
      PROVE  GrabShape' /\ NoFeedback'
  BY <1>1 DEF GrabShape, NoFeedback, Live
<1>2. ASSUME NEW t \in Threads, Spawn(t)
      PROVE  GrabShape' /\ NoFeedback'
  <2>1. PICK g : /\ pc' = [pc EXCEPT ![t] = "opening"]
                 /\ todo' = [todo EXCEPT ![t] = SubDevices(g, present)]
                 /\ UNCHANGED grab
    BY <1>2 DEF Spawn, deviceVars
  <2>2. \A n \in Nodes : grab[n] # t
    BY <1>2, DaemonAssumption DEF Spawn, Unused, GrabShape, Live
  <2>3. \A n \in SubDevices(g, present) : NodeName[n] \notin OwnNames
    BY DEF SubDevices
  <2> QED BY <2>1, <2>2, <2>3 DEF GrabShape, NoFeedback, Live
<1>3. ASSUME NEW t \in Threads, NEW n \in Nodes, OpenAndGrab(t, n)
      PROVE  GrabShape' /\ NoFeedback'
  <2>1. CASE grab' = [grab EXCEPT ![n] = t]
    BY <2>1, <1>3, DaemonAssumption DEF OpenAndGrab, Close, GrabShape, NoFeedback, Live
  <2>2. ASSUME NEW result, Close(t, result), UNCHANGED grab
        PROVE  GrabShape' /\ NoFeedback'
    <3>1. \A u \in Threads : todo'[u] \subseteq todo[u] /\ (Live(u) => Live(u)')
      BY <2>2 DEF Close, Live, TypeOK
    <3> QED  BY <2>2, <3>1, DaemonAssumption DEF GrabShape, NoFeedback, TypeOK
  <2> QED BY <2>1, <2>2, <1>3 DEF OpenAndGrab
<1>4. ASSUME NEW t \in Threads,
             \/ CreateWriter(t)
             \/ PollStop(t)
             \/ PollDeviceError(t)
             \/ Forward(t)
             \/ PollReadable(t)
      PROVE  GrabShape' /\ NoFeedback'
  <2>1. /\ UNCHANGED grab
        /\ \A u \in Threads : todo'[u] \subseteq todo[u] /\ (Live(u) => Live(u)')
    BY <1>4
       DEF CreateWriter, PollStop, PollDeviceError, Forward, PollReadable, Close,
           Live, deviceVars, threadVars, TypeOK
  <2> QED BY <2>1, DaemonAssumption DEF GrabShape, NoFeedback, TypeOK
<1>5. ASSUME NEW t \in Threads, DropReader(t)
      PROVE  GrabShape' /\ NoFeedback'
  BY <1>5 DEF DropReader, threadVars, GrabShape, NoFeedback, Live
<1>6. ASSUME NEW t \in Threads, Exit(t)
      PROVE  GrabShape' /\ NoFeedback'
  BY <1>6 DEF Exit, deviceVars, Held, GrabShape, NoFeedback, Live
<1>7. ASSUME NEW n \in Nodes, Plug(n) \/ Unplug(n)
      PROVE  GrabShape' /\ NoFeedback'
  BY <1>7 DEF Plug, Unplug, threadVars, GrabShape, NoFeedback, Live
<1>8. CASE \/ Request
           \/ StopOld
           \/ Joined
           \/ StartFails
           \/ Insert
           \/ AllJoined
           \/ AutoloadNext
           \/ UNCHANGED vars
  BY <1>8, <1>1
     DEF Request, BeginStart, BeginStop, BeginStopAll, BeginAutoload, StopOld,
         Joined, StartFails, Insert, AllJoined, AutoloadNext, vars, deviceVars,
         threadVars
<1> QED
  BY <1>2, <1>3, <1>4, <1>5, <1>6, <1>7, <1>8 DEF Next, Handle, Run, Hotplug

(* No injection ever reads the output of an injection.                     *)
THEOREM NeverFedBack == Spec => []NoFeedback
  BY TypeInit, TypeStep, ShapeInit, ShapeStep, GrabInit, GrabStep, PTL DEF Spec

-----------------------------------------------------------------------------
(* Exact requests for devices of stable names.                             *)

(* What such a request resolves to is named as it says, and so is every    *)
(* node of it.                                                             *)
LEMMA ExactFind ==
    ASSUME StableNames, ExactRequests, NEW nodes \in SUBSET Nodes,
           NEW d \in Requestable, NEW naming \in Namings(nodes),
           NEW g \in FindDevice(d, naming)
    PROVE  /\ naming[g] = d
           /\ \A n \in SubDevices(g, nodes) : NodeName[n] = d
<1>1. naming[g] \in GroupNames(g, nodes)
  BY FoundIsNamed, DaemonAssumption
<1>2. PICK m \in SubDevices(g, nodes) : NodeName[m] = naming[g]
  BY <1>1 DEF GroupNames
<1>3. naming[g] = d
  <2>1. naming[g] = d \/ <<naming[g], d>> \in Contains
    BY DEF FindDevice
  <2> QED BY <2>1, <1>2 DEF ExactRequests, SubDevices
<1>4. ASSUME NEW n \in SubDevices(g, nodes)
      PROVE  NodeName[n] = NodeName[m]
  BY <1>2, <1>4 DEF SubDevices, StableNames
<1> QED BY <1>2, <1>3, <1>4

(* Two running threads of one name are one thread.                         *)
LEMMA ExactUnique ==
    ASSUME TypeOK, CallShape, ExactShape, NEW t \in Threads, NEW u \in Threads,
           Live(t), Live(u), label[t] = label[u]
    PROVE  t = u
<1>1. CASE call.phase \notin {"join", "insert"}
  BY <1>1 DEF ExactShape
<1>2. CASE call.phase = "join"
  BY <1>2, DaemonAssumption DEF ExactShape, Listed
<1>3. CASE call.phase = "insert"
  BY <1>3, DaemonAssumption DEF ExactShape, Listed
<1> QED BY <1>1, <1>2, <1>3

LEMMA ExactInit == Init => ExactShape /\ NoBusyFailure
  BY DEF Init, ExactShape, NoBusyFailure, Live, NoCall

(* How ExactShape survives a step that leaves the threads alone: a thread  *)
(* that runs stays in the table or with the request.                       *)
LEMMA ExactKept ==
    ASSUME TypeOK, ExactShape, UNCHANGED <<pc, label, todo, grab>>,
           \A t \in Threads : Live(t) =>
               \/ label[t] \in Names /\ injections'[label[t]].thread = t
               \/ call'.phase = "join" /\ call'.target = t /\ call'.device = label[t],
           call'.phase \in {"join", "resolve"} => ~Listed(call.device)',
           call'.phase # "insert"
    PROVE  ExactShape'
  BY DEF ExactShape, Live, Held

(* The same for a step that leaves the table and the request alone.        *)
LEMMA ExactKeptRunning ==
    ASSUME ExactShape, UNCHANGED <<injections, call>>,
           \A t \in Threads : Live(t)' =>
               /\ Live(t)
               /\ label'[t] = label[t]
               /\ \A n \in todo'[t] \cup Held(t)' : NodeName[n] = label[t]
    PROVE  ExactShape'
<1>1. ASSUME NEW t \in Threads, Live(t)'
      PROVE  /\ \A n \in todo'[t] \cup Held(t)' : NodeName[n] = label'[t]
             /\ \/ label'[t] \in Names /\ injections'[label'[t]].thread = t
                \/ call'.phase = "join" /\ call'.target = t /\ call'.device = label'[t]
                \/ call'.phase = "insert" /\ call'.target = t /\ call'.name = label'[t]
  BY <1>1 DEF ExactShape
<1>2. call.phase \in {"join", "resolve", "insert"} => ~Listed(call.device)'
  BY DEF ExactShape, Listed
<1> QED BY <1>1, <1>2 DEF ExactShape

LEMMA ExactStep ==
    ASSUME StableNames, ExactRequests
    PROVE  /\ TypeOK /\ CallShape /\ GrabShape /\ ExactShape /\ NoBusyFailure
           /\ [Next]_vars
           => ExactShape' /\ NoBusyFailure'
<1> SUFFICES ASSUME TypeOK, CallShape, GrabShape, ExactShape, NoBusyFailure, [Next]_vars
             PROVE  ExactShape' /\ NoBusyFailure'
  OBVIOUS
<1>1. ASSUME NEW d \in Requestable, NEW p \in Presets, BeginStart(d, p)
      PROVE  ExactShape' /\ NoBusyFailure'
  BY <1>1, ExactKept DEF BeginStart, deviceVars, threadVars, NoCall, ExactShape, NoBusyFailure
<1>2. CASE StopOld
  <2>1. call.device \in Names /\ call.phase = "stop_old"
    BY <1>2, DaemonAssumption DEF StopOld, CallShape
  <2>2. UNCHANGED <<pc, label, todo, grab, outcome>>
    BY <1>2 DEF StopOld, deviceVars
  <2>3. CASE FinishStart("invalid") /\ UNCHANGED injections
    <3>1. call'.phase \in {"idle", "next"}
      BY <2>3, FinishStartShape DEF TypeOK
    <3> QED BY <2>1, <2>2, <2>3, <3>1, ExactKept DEF ExactShape, NoBusyFailure
  <2>4. CASE ~Listed(call.device) /\ UNCHANGED injections
                /\ call' = [call EXCEPT !.phase = "resolve"]
    <3>1. call'.phase = "resolve" /\ call'.device = call.device
      BY <2>4 DEF TypeOK, Calls
    <3> QED BY <2>1, <2>2, <2>4, <3>1, ExactKept DEF ExactShape, NoBusyFailure, Listed
  <2>5. CASE /\ Listed(call.device)
             /\ injections' = [injections EXCEPT ![call.device] = NoInjection]
             /\ call' = [call EXCEPT !.phase = "join",
                                     !.target = injections[call.device].thread]
    <3>1. /\ call'.phase = "join"
          /\ call'.device = call.device
          /\ call'.target = injections[call.device].thread
      BY <2>5 DEF TypeOK, Calls
    <3>2. ~Listed(call.device)'
      BY <2>1, <2>5, <3>1 DEF Listed, NoInjection, TypeOK
    <3>3. ASSUME NEW t \in Threads, Live(t)
          PROVE  \/ label[t] \in Names /\ injections'[label[t]].thread = t
                 \/ call'.phase = "join" /\ call'.target = t /\ call'.device = label[t]
      <4>1. label[t] \in Names /\ injections[label[t]].thread = t
        BY <2>1, <3>3 DEF ExactShape
      <4> QED BY <4>1, <3>1, <2>5 DEF TypeOK
    <3> QED BY <2>2, <3>1, <3>2, <3>3, ExactKept DEF NoBusyFailure
  <2> QED BY <2>3, <2>4, <2>5, <1>2 DEF StopOld, RemoveAndSignal
<1>3. ASSUME NEW d \in Requestable, BeginStop(d)
      PROVE  ExactShape' /\ NoBusyFailure'
  <2>1. d \in Names /\ call.phase = "idle"
    BY <1>3, DaemonAssumption DEF BeginStop, NoCall
  <2>2. UNCHANGED <<pc, label, todo, grab, outcome>>
    BY <1>3 DEF BeginStop, deviceVars
  <2>3. CASE UNCHANGED <<injections, call>>
    BY <2>1, <2>2, <2>3, ExactKept DEF ExactShape, NoBusyFailure
  <2>4. CASE /\ Listed(d)
             /\ injections' = [injections EXCEPT ![d] = NoInjection]
             /\ call' = [NoCall EXCEPT !.op = "stop", !.phase = "join", !.device = d,
                                       !.target = injections[d].thread]
    <3>1. /\ call'.phase = "join"
          /\ call'.device = d
          /\ call'.target = injections[d].thread
      BY <2>4 DEF NoCall
    <3>2. ~Listed(call.device)'
      BY <2>1, <2>4, <3>1 DEF Listed, NoInjection, TypeOK
    <3>3. ASSUME NEW t \in Threads, Live(t)
          PROVE  \/ label[t] \in Names /\ injections'[label[t]].thread = t
                 \/ call'.phase = "join" /\ call'.target = t /\ call'.device = label[t]
      <4>1. label[t] \in Names /\ injections[label[t]].thread = t
        BY <2>1, <3>3 DEF ExactShape
      <4> QED BY <4>1, <3>1, <2>4 DEF TypeOK
    <3> QED BY <2>2, <3>1, <3>2, <3>3, ExactKept DEF NoBusyFailure
  <2> QED BY <2>3, <2>4, <1>3 DEF BeginStop, RemoveAndSignal
<1>4. CASE Joined
  <2>1. UNCHANGED <<pc, label, todo, grab, outcome, injections>>
    BY <1>4 DEF Joined, deviceVars, threadVars
  <2>2. /\ call'.phase \in {"idle", "resolve"}
        /\ call'.phase = "resolve" => call'.device = call.device
    BY <1>4, RespondShape DEF Joined, TypeOK, Calls
  <2>3. ASSUME NEW t \in Threads, Live(t)
        PROVE  label[t] \in Names /\ injections[label[t]].thread = t
    BY <2>3, <1>4 DEF Joined, ExactShape, Live
  <2>4. ~Listed(call.device)
    BY <1>4 DEF Joined, ExactShape
  <2> QED BY <2>1, <2>2, <2>3, <2>4, ExactKept DEF NoBusyFailure, Listed
<1>5. CASE StartFails
  <2>1. call'.phase \in {"idle", "next"}
    BY <1>5, FinishStartShape DEF StartFails, TypeOK
  <2>2. UNCHANGED <<pc, label, todo, grab, outcome, injections>>
    BY <1>5 DEF StartFails, deviceVars, threadVars
  <2> QED BY <2>1, <2>2, <1>5, ExactKept DEF StartFails, ExactShape, NoBusyFailure
<1>6. ASSUME NEW u \in Threads, Spawn(u)
      PROVE  ExactShape' /\ NoBusyFailure'
  <2>1. PICK naming \in Namings(present) :
            \E g \in FindDevice(call.device, naming) :
                /\ pc' = [pc EXCEPT ![u] = "opening"]
                /\ label' = [label EXCEPT ![u] = naming[g]]
                /\ todo' = [todo EXCEPT ![u] = SubDevices(g, present)]
                /\ call' = [call EXCEPT !.phase = "insert", !.target = u,
                                        !.name = naming[g]]
    BY <1>6 DEF Spawn
  <2>2. PICK g \in FindDevice(call.device, naming) :
            /\ pc' = [pc EXCEPT ![u] = "opening"]
            /\ label' = [label EXCEPT ![u] = naming[g]]
            /\ todo' = [todo EXCEPT ![u] = SubDevices(g, present)]
            /\ call' = [call EXCEPT !.phase = "insert", !.target = u,
                                    !.name = naming[g]]
    BY <2>1
  <2>3. call.phase = "resolve" /\ call.device \in Requestable
    BY <1>6 DEF Spawn, CallShape
  <2>4. /\ naming[g] = call.device
        /\ \A n \in SubDevices(g, present) : NodeName[n] = call.device
    BY <2>3, ExactFind DEF TypeOK
  <2>5. /\ call'.phase = "insert"
        /\ call'.target = u
        /\ call'.name = call.device
        /\ call'.device = call.device
    BY <2>2, <2>4 DEF TypeOK, Calls
  <2>6. UNCHANGED <<grab, injections, outcome>>
    BY <1>6 DEF Spawn, deviceVars
  <2>7. Held(u) = {}
    BY <1>6, DaemonAssumption DEF Spawn, Unused, GrabShape, Live, Held
  <2>8. ASSUME NEW t \in Threads, Live(t)'
        PROVE  /\ \A n \in todo'[t] \cup Held(t)' : NodeName[n] = label'[t]
               /\ \/ label'[t] \in Names /\ injections'[label'[t]].thread = t
                  \/ call'.phase = "insert" /\ call'.target = t /\ call'.name = label'[t]
    <3>1. CASE t = u
      BY <3>1, <2>2, <2>4, <2>5, <2>6, <2>7 DEF TypeOK, Held
    <3>2. CASE t # u
      <4>1. /\ pc'[t] = pc[t]
            /\ label'[t] = label[t]
            /\ todo'[t] = todo[t]
            /\ Held(t)' = Held(t)
        BY <3>2, <2>2, <2>6 DEF TypeOK, Held
      <4> QED BY <4>1, <2>3, <2>6, <2>8 DEF ExactShape, Live
    <3> QED BY <3>1, <3>2
  <2>9. ~Listed(call.device)
    BY <2>3 DEF ExactShape
  <2> QED BY <2>5, <2>6, <2>8, <2>9 DEF ExactShape, NoBusyFailure, Listed
<1>7. CASE Insert
  <2>1. call'.phase \in {"idle", "next"}
    BY <1>7, FinishStartShape DEF Insert, TypeOK
  <2>2. UNCHANGED <<pc, label, todo, grab, outcome>>
    BY <1>7 DEF Insert, deviceVars
  <2>3. /\ call.phase = "insert" /\ call.name \in Names
        /\ call.name = call.device /\ ~Listed(call.name)
        /\ injections' = [injections EXCEPT
                ![call.name] = [thread |-> call.target, preset |-> call.preset]]
    BY <1>7 DEF Insert, CallShape, ExactShape
  <2>4. ASSUME NEW t \in Threads, Live(t)
        PROVE  label[t] \in Names /\ injections'[label[t]].thread = t
    <3>1. CASE call.target = t /\ call.name = label[t]
      BY <3>1, <2>3 DEF TypeOK
    <3>2. CASE label[t] \in Names /\ injections[label[t]].thread = t
      <4>1. label[t] # call.name
        BY <3>2, <2>3, DaemonAssumption DEF Listed
      <4> QED BY <4>1, <3>2, <2>3 DEF TypeOK
    <3> QED BY <3>1, <3>2, <2>3, <2>4 DEF ExactShape
  <2> QED BY <2>1, <2>2, <2>4, ExactKept DEF NoBusyFailure
<1>8. CASE BeginStopAll
  BY <1>8, ExactKept DEF BeginStopAll, deviceVars, NoCall, ExactShape, NoBusyFailure
<1>9. CASE AllJoined
  <2>1. call'.phase = "idle"
    BY <1>9, RespondShape DEF AllJoined
  <2>2. UNCHANGED <<pc, label, todo, grab, outcome>>
    BY <1>9 DEF AllJoined, deviceVars, threadVars
  <2>3. \A t \in Threads : ~Live(t)
    BY <1>9, DaemonAssumption DEF AllJoined, ExactShape, Listed, Live
  <2> QED BY <2>1, <2>2, <2>3, ExactKept DEF NoBusyFailure
<1>10. CASE BeginAutoload
  <2>1. UNCHANGED <<pc, label, todo, grab, outcome, injections>>
    BY <1>10 DEF BeginAutoload, deviceVars, threadVars
  <2>2. call.phase = "idle" /\ call'.phase \in {"idle", "next"}
    <3>1. call.phase = "idle"
      BY <1>10 DEF BeginAutoload, NoCall
    <3>2. CASE UNCHANGED call
      BY <3>1, <3>2
    <3>3. CASE call' = [NoCall EXCEPT !.op = "autoload", !.phase = "next",
                                      !.rest = AutoloadConfig]
      BY <3>1, <3>3 DEF NoCall
    <3> QED BY <3>2, <3>3, <3>1, <1>10 DEF BeginAutoload
  <2> QED BY <2>1, <2>2, ExactKept DEF ExactShape, NoBusyFailure
<1>11. CASE AutoloadNext
  <2>1. UNCHANGED <<pc, label, todo, grab, outcome, injections>>
    BY <1>11 DEF AutoloadNext, deviceVars, threadVars
  <2>2. call.phase = "next" /\ call'.phase \in {"idle", "stop_old"}
    BY <1>11, RespondShape DEF AutoloadNext, TypeOK, Calls
  <2> QED BY <2>1, <2>2, ExactKept DEF ExactShape, NoBusyFailure
<1>12. ASSUME NEW u \in Threads, NEW n \in Nodes, OpenAndGrab(u, n)
       PROVE  ExactShape' /\ NoBusyFailure'
  <2>1. Live(u) /\ label[u] = NodeName[n]
    BY <1>12 DEF OpenAndGrab, Live, ExactShape
  <2>2. grab[n] = NoThread \/ n \notin present
    <3> SUFFICES ASSUME grab[n] # NoThread
                 PROVE  FALSE
      BY <1>12 DEF OpenAndGrab
    <3>1. grab[n] \in Threads /\ Live(grab[n]) /\ n \notin todo[grab[n]]
      BY DEF GrabShape, TypeOK
    <3>2. label[grab[n]] = NodeName[n]
      BY <3>1 DEF ExactShape, Held
    <3>3. grab[n] = u
      BY <2>1, <3>1, <3>2, ExactUnique
    <3> QED BY <3>1, <3>3, <1>12 DEF OpenAndGrab
  <2>3. CASE Close(u, "nodev") /\ UNCHANGED grab
    <3>1. /\ UNCHANGED <<injections, call, label>>
          /\ \A t \in Threads : Live(t)' => Live(t)
          /\ \A t \in Threads : outcome'[t] = "busy" => outcome[t] = "busy"
          /\ \A t \in Threads : Held(t)' = Held(t) /\ todo'[t] \subseteq todo[t]
      BY <2>3, <1>12 DEF OpenAndGrab, Close, Live, Held, TypeOK
    <3>2. ExactShape'
      BY <3>1, <2>3, ExactKeptRunning DEF ExactShape
    <3> QED BY <3>1, <3>2 DEF NoBusyFailure
  <2>4. CASE /\ grab' = [grab EXCEPT ![n] = u]
             /\ todo' = [todo EXCEPT ![u] = @ \ {n}]
             /\ UNCHANGED <<pc, outcome>>
    <3>1. \A t \in Threads :
              todo'[t] \cup Held(t)' \subseteq todo[t] \cup Held(t) \cup (IF t = u THEN {n} ELSE {})
      BY <2>4 DEF Held, TypeOK
    <3>2. \A t \in Threads : Live(t) =>
              \A m \in todo'[t] \cup Held(t)' : NodeName[m] = label[t]
      BY <3>1, <2>1 DEF ExactShape
    <3>3. UNCHANGED <<injections, call, label>>
      BY <1>12 DEF OpenAndGrab
    <3>4. ExactShape'
      BY <3>2, <3>3, <2>4, ExactKeptRunning DEF Live
    <3> QED BY <3>4, <2>4 DEF NoBusyFailure
  <2> QED BY <2>2, <2>3, <2>4, <1>12 DEF OpenAndGrab
<1>13. ASSUME NEW u \in Threads,
              \/ CreateWriter(u)
              \/ PollStop(u)
              \/ PollDeviceError(u)
              \/ Forward(u)
              \/ PollReadable(u)
       PROVE  ExactShape' /\ NoBusyFailure'
  <2>1. /\ UNCHANGED <<grab, label, injections, call>>
        /\ \A t \in Threads : todo'[t] \subseteq todo[t] /\ (Live(t)' => Live(t))
        /\ \A t \in Threads : outcome'[t] = "busy" => outcome[t] = "busy"
    BY <1>13
       DEF CreateWriter, PollStop, PollDeviceError, Forward, PollReadable, Close,
           Live, deviceVars, threadVars, TypeOK
  <2>2. \A t \in Threads : Held(t)' = Held(t)
    BY <2>1 DEF Held
  <2>3. ExactShape'
    BY <2>1, <2>2, ExactKeptRunning DEF ExactShape
  <2> QED BY <2>1, <2>3 DEF NoBusyFailure
<1>14. ASSUME NEW u \in Threads, DropReader(u)
       PROVE  ExactShape' /\ NoBusyFailure'
  <2>1. \A t \in Threads : Held(t)' \subseteq Held(t)
    BY <1>14, DaemonAssumption DEF DropReader, Held, TypeOK
  <2>2. UNCHANGED <<threadVars, injections, call>>
    BY <1>14 DEF DropReader
  <2>3. ExactShape'
    BY <2>1, <2>2, ExactKeptRunning DEF ExactShape, threadVars, Live
  <2> QED BY <2>2, <2>3 DEF NoBusyFailure, threadVars
<1>15. ASSUME NEW u \in Threads, Exit(u)
       PROVE  ExactShape' /\ NoBusyFailure'
  <2>1. /\ UNCHANGED <<grab, injections, call>>
        /\ ~Live(u)'
        /\ \A t \in Threads \ {u} :
              pc'[t] = pc[t] /\ todo'[t] = todo[t] /\ label'[t] = label[t]
        /\ \A t \in Threads : outcome'[t] = "busy" => outcome[t] = "busy"
    BY <1>15 DEF Exit, deviceVars, Live, TypeOK
  <2>2. \A t \in Threads : Held(t)' = Held(t)
    BY <2>1 DEF Held
  <2>3. ExactShape'
    BY <2>1, <2>2, ExactKeptRunning DEF ExactShape, Live
  <2> QED BY <2>1, <2>3 DEF NoBusyFailure
<1>16. ASSUME NEW n \in Nodes, Plug(n) \/ Unplug(n)
       PROVE  ExactShape' /\ NoBusyFailure'
  <2>1. \A t \in Threads : Held(t)' \subseteq Held(t)
    BY <1>16, DaemonAssumption DEF Plug, Unplug, Held, TypeOK
  <2>2. UNCHANGED <<pc, label, todo, outcome, injections, call>>
    BY <1>16 DEF Plug, Unplug, threadVars
  <2>3. ExactShape'
    BY <2>1, <2>2, ExactKeptRunning DEF ExactShape, Live
  <2> QED BY <2>2, <2>3 DEF NoBusyFailure
<1>17. CASE UNCHANGED vars
  <2>1. /\ UNCHANGED <<pc, label, todo, outcome, injections, call>>
        /\ \A t \in Threads : Held(t)' = Held(t)
    BY <1>17 DEF vars, deviceVars, threadVars, Held
  <2>2. ExactShape'
    BY <2>1, ExactKeptRunning DEF ExactShape, Live
  <2> QED BY <2>1, <2>2 DEF NoBusyFailure
<1> QED
  BY <1>1, <1>2, <1>3, <1>4, <1>5, <1>6, <1>7, <1>8, <1>9, <1>10, <1>11, <1>12,
     <1>13, <1>14, <1>15, <1>16, <1>17 DEF Next, Request, Handle, Run, Hotplug

(* Exact requests for stable names never make two injections compete for a *)
(* device: none fails because another one still has it.                    *)
THEOREM NeverBusy ==
    ASSUME StableNames, ExactRequests
    PROVE  Spec => []NoBusyFailure
  BY TypeInit, TypeStep, ShapeInit, ShapeStep, GrabInit, GrabStep, ExactInit,
     ExactStep, PTL DEF Spec

(* The properties of stop and stop_all, one step at a time.                *)
LEMMA StopStep ==
    /\ TypeOK /\ CallShape /\ ExactShape /\ [Next]_vars
    => \/ UNCHANGED vars
       \/ call.op = "stop" /\ reply'.result = "ok" =>
              \A t \in Threads : pc'[t] # "exited" => label'[t] # call.device
<1> SUFFICES ASSUME TypeOK, CallShape, ExactShape, Next,
                    call.op = "stop", reply'.result = "ok",
                    NEW t \in Threads, pc'[t] # "exited"
             PROVE  label'[t] # call.device
  OBVIOUS
<1>1. call.phase = "join" /\ reply.result # "ok"
  BY DEF CallShape, NoReply
<1>2. ~UNCHANGED reply
  BY <1>1
<1>3. Joined
  <2>1. ~Request
    <3>1. call # NoCall
      BY <1>1 DEF NoCall
    <3> QED BY <3>1 DEF Request, BeginStart, BeginStop, BeginStopAll, BeginAutoload
  <2>2. ~Hotplug /\ \A u \in Threads : ~Run(u) /\ ~PollReadable(u)
    BY <1>2
       DEF Hotplug, Plug, Unplug, Run, OpenAndGrab, CreateWriter, PollStop,
           PollDeviceError, PollReadable, Forward, DropReader, Exit
  <2>3. Handle
    BY <2>1, <2>2 DEF Next
  <2> QED
    BY <1>1, <2>3 DEF Handle, StopOld, StartFails, Spawn, Insert, AllJoined, AutoloadNext
<1>4. UNCHANGED <<pc, label>> /\ pc[call.target] = "exited"
  BY <1>3 DEF Joined, threadVars
<1>5. injections[label[t]].thread = t
  BY <1>1, <1>4 DEF ExactShape, Live
<1>6. ~Listed(call.device)
  BY <1>1 DEF ExactShape
<1> QED BY <1>4, <1>5, <1>6, DaemonAssumption DEF Listed

(* A stop answered with Ok leaves no thread of the device behind.          *)
THEOREM StoppedIsStopped ==
    ASSUME StableNames, ExactRequests
    PROVE  Spec => StopMeansStopped
  BY TypeInit, TypeStep, ShapeInit, ShapeStep, GrabInit, GrabStep, ExactInit,
     ExactStep, StopStep, PTL DEF Spec, StopMeansStopped
=============================================================================

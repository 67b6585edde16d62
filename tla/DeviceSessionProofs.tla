------------------------ MODULE DeviceSessionProofs -------------------------
(***************************************************************************)
(* InjectionDaemon implements DeviceSession, for any set of nodes, names,  *)
(* threads and requests that name stable devices exactly.                  *)
(***************************************************************************)
EXTENDS InjectionDaemonProofs

ThreadInv == TypeOK /\ CallShape /\ ExactShape

SessionOfThread(p) ==
    IF p = "opening" THEN "starting" ELSE IF p = "closing" THEN "ending" ELSE "on"

SessionView == [d \in DeviceNames |-> SessionOf(d)]

-----------------------------------------------------------------------------
(* The session of a name is that of its only running thread, if it has one. *)
LEMMA SessionSeen ==
    ThreadInv => \A d \in DeviceNames :
        /\ (\A t \in Threads : Live(t) => label[t] # d) => SessionOf(d) = "off"
        /\ \A t \in Threads :
              Live(t) /\ label[t] = d => SessionOf(d) = SessionOfThread(pc[t])
<1> SUFFICES ASSUME ThreadInv, NEW d \in DeviceNames
             PROVE  /\ (\A t \in Threads : Live(t) => label[t] # d) => SessionOf(d) = "off"
                    /\ \A t \in Threads :
                          Live(t) /\ label[t] = d => SessionOf(d) = SessionOfThread(pc[t])
  OBVIOUS
<1> DEFINE own == {t \in Threads : Live(t) /\ label[t] = d}
<1>1. ASSUME \A t \in Threads : Live(t) => label[t] # d
      PROVE  SessionOf(d) = "off"
  <2>1. own = {}
    BY <1>1
  <2> QED  BY <2>1 DEF SessionOf
<1>2. ASSUME NEW t \in Threads, Live(t), label[t] = d
      PROVE  SessionOf(d) = SessionOfThread(pc[t])
  <2>1. own = {t}
    BY <1>2, ExactUnique DEF ThreadInv
  <2>2. (CHOOSE u \in own : TRUE) = t
    BY <2>1
  <2> QED  BY <2>1, <2>2 DEF SessionOf, SessionOfThread
<1> QED  BY <1>1, <1>2

LEMMA SessionSeenNext ==
    (ThreadInv => \A d \in DeviceNames :
        /\ (\A t \in Threads : Live(t) => label[t] # d) => SessionOf(d) = "off"
        /\ \A t \in Threads :
              Live(t) /\ label[t] = d => SessionOf(d) = SessionOfThread(pc[t]))'
BY SessionSeen, PTL

(* Names whose threads a step leaves alone keep their session.             *)
LEMMA OthersKeepSession ==
    ASSUME ThreadInv, ThreadInv', NEW d \in DeviceNames,
           \A t \in Threads :
               \/ pc'[t] = pc[t] /\ label'[t] = label[t]
               \/ /\ Live(t) => label[t] # d
                  /\ Live(t)' => label'[t] # d
               \/ /\ Live(t) /\ Live(t)' /\ label'[t] = label[t]
                  /\ SessionOfThread(pc'[t]) = SessionOfThread(pc[t])
    PROVE  SessionOf(d)' = SessionOf(d)
<1>1. CASE \A t \in Threads : Live(t) => label[t] # d
  <2>1. \A t \in Threads : Live(t)' => label'[t] # d
    BY <1>1 DEF Live
  <2> QED  BY <1>1, <2>1, SessionSeen, SessionSeenNext
<1>2. ASSUME NEW t \in Threads, Live(t), label[t] = d
      PROVE  SessionOf(d)' = SessionOf(d)
  <2>1. Live(t)' /\ label'[t] = d /\ SessionOfThread(pc'[t]) = SessionOfThread(pc[t])
    BY <1>2 DEF Live
  <2> QED  BY <1>2, <2>1, SessionSeen, SessionSeenNext
<1> QED  BY <1>1, <1>2

(* A step that neither starts nor ends a thread, nor makes it go on to     *)
(* another part of run, changes no session.                                *)
LEMMA ThreadsKeepSessions ==
    ASSUME ThreadInv, ThreadInv',
           \A t \in Threads :
               \/ pc'[t] = pc[t] /\ label'[t] = label[t]
               \/ /\ Live(t) /\ Live(t)' /\ label'[t] = label[t]
                  /\ SessionOfThread(pc'[t]) = SessionOfThread(pc[t])
    PROVE  UNCHANGED SessionView
<1>1. \A d \in DeviceNames : SessionOf(d)' = SessionOf(d)
  BY OthersKeepSession
<1> QED  BY <1>1 DEF SessionView

(* A step of one thread, from one part of run to another one, is a step of *)
(* the session of its name.                                                *)
LEMMA ThreadMovesSession ==
    ASSUME ThreadInv, ThreadInv', NEW u \in Threads, NEW d,
           \A t \in Threads \ {u} : pc'[t] = pc[t] /\ label'[t] = label[t],
           Live(u) \/ Live(u)',
           Live(u) => label[u] = d, Live(u)' => label'[u] = d,
           ~Live(u) => \A t \in Threads : Live(t) => label[t] # d,
           NEW from, from = IF Live(u) THEN SessionOfThread(pc[u]) ELSE "off",
           NEW to, to = IF Live(u)' THEN SessionOfThread(pc'[u]) ELSE "off"
    PROVE  \/ d \notin DeviceNames /\ UNCHANGED SessionView
           \/ /\ d \in DeviceNames
              /\ SessionView[d] = from
              /\ SessionView' = [SessionView EXCEPT ![d] = to]
<1>1. \A e \in DeviceNames \ {d} : SessionOf(e)' = SessionOf(e)
  BY OthersKeepSession
<1>2. CASE d \notin DeviceNames
  BY <1>1, <1>2 DEF SessionView
<1>3. CASE d \in DeviceNames
  <2>1. SessionOf(d) = from
    BY <1>3, SessionSeen
  <2>2. SessionOf(d)' = to
    <3>1. CASE Live(u)'
      BY <1>3, <3>1, SessionSeenNext
    <3>2. CASE ~Live(u)'
      <4>1. ASSUME NEW t \in Threads, Live(t)', label'[t] = d
            PROVE  FALSE
        <5>1. t # u /\ Live(t) /\ label[t] = d
          BY <3>2, <4>1 DEF Live
        <5>2. Live(u) /\ label[u] = d
          BY <3>2
        <5> QED  BY <5>1, <5>2, ExactUnique DEF ThreadInv
      <4> QED  BY <1>3, <3>2, <4>1, SessionSeenNext
    <3> QED  BY <3>1, <3>2
  <2> QED  BY <1>1, <1>3, <2>1, <2>2 DEF SessionView
<1> QED  BY <1>2, <1>3

-----------------------------------------------------------------------------
(* Initially there is no session.                                          *)
LEMMA SessionInit == Init => Sessions!Init
<1> SUFFICES ASSUME Init PROVE Sessions!Init
  OBVIOUS
<1>1. ThreadInv
  BY TypeInit, ShapeInit, ExactInit DEF ThreadInv
<1>2. \A t \in Threads : ~Live(t)
  BY DEF Init, Live
<1> QED  BY <1>1, <1>2, SessionSeen DEF Sessions!Init

(* Every step is a step of one session or leaves all of them alone.        *)
LEMMA SessionStep ==
    ASSUME StableNames, ExactRequests
    PROVE  ThreadInv /\ ThreadInv' /\ [Next]_vars
           => Sessions!Next \/ UNCHANGED SessionView
<1> SUFFICES ASSUME ThreadInv, ThreadInv', [Next]_vars
             PROVE  Sessions!Next \/ UNCHANGED SessionView
  OBVIOUS
<1> USE DEF ThreadInv
<1>1. ASSUME UNCHANGED <<pc, label>> PROVE UNCHANGED SessionView
  BY <1>1, ThreadsKeepSessions
<1>2. CASE UNCHANGED vars
  BY <1>1, <1>2 DEF vars, threadVars
<1>3. CASE Request \/ Hotplug
  BY <1>1, <1>3 DEF Request, BeginStart, BeginStop, BeginStopAll, BeginAutoload,
                    Hotplug, Plug, Unplug, threadVars
<1>4. CASE StopOld \/ Joined \/ StartFails \/ Insert \/ AllJoined \/ AutoloadNext
  BY <1>1, <1>4 DEF StopOld, Joined, StartFails, Insert, AllJoined, AutoloadNext, threadVars
<1>5. ASSUME NEW u \in Threads, Spawn(u)
      PROVE  Sessions!Next
  <2>0. PICK naming \in Namings(present) :
            \E g \in FindDevice(call.device, naming) :
                /\ pc' = [pc EXCEPT ![u] = "opening"]
                /\ label' = [label EXCEPT ![u] = naming[g]]
    BY <1>5 DEF Spawn
  <2>1. PICK g \in FindDevice(call.device, naming) :
            /\ pc' = [pc EXCEPT ![u] = "opening"]
            /\ label' = [label EXCEPT ![u] = naming[g]]
    BY <2>0
  <2> DEFINE d == naming[g]
  <2>2. call.phase = "resolve" /\ call.device \in Requestable /\ ~Live(u)
    BY <1>5 DEF Spawn, CallShape, Unused, Live
  <2>3. d = call.device
    BY <2>2, ExactFind DEF TypeOK
  <2>4. d \in DeviceNames
    BY <2>2, FoundIsNamed, DaemonAssumption, DevicesAssumption
       DEF TypeOK, GroupNames, SubDevices, DeviceNames
  <2>5. ASSUME NEW t \in Threads, Live(t) PROVE label[t] # d
    <3>1. label[t] \in Names /\ injections[label[t]].thread = t
      BY <2>2, <2>5 DEF ExactShape
    <3>2. ~Listed(call.device)
      BY <2>2 DEF ExactShape
    <3> QED  BY <2>3, <3>1, <3>2, DaemonAssumption DEF Listed
  <2>6. /\ \A t \in Threads \ {u} : pc'[t] = pc[t] /\ label'[t] = label[t]
        /\ pc'[u] = "opening" /\ label'[u] = d /\ Live(u)'
    BY <2>1 DEF TypeOK, Live
  <2> HIDE DEF d
  <2>7. SessionView[d] = "off" /\ SessionView' = [SessionView EXCEPT ![d] = "starting"]
    BY <2>2, <2>4, <2>5, <2>6, ThreadMovesSession DEF SessionOfThread
  <2> QED  BY <2>4, <2>7 DEF Sessions!Next, Sessions!Begin, Sessions!Move, SessionView
<1>6. ASSUME NEW u \in Threads, Live(u), pc[u] # "closing",
             pc' = [pc EXCEPT ![u] = "closing"], UNCHANGED label
      PROVE  Sessions!Next \/ UNCHANGED SessionView
  <2>1. /\ \A t \in Threads \ {u} : pc'[t] = pc[t] /\ label'[t] = label[t]
        /\ pc'[u] = "closing" /\ label'[u] = label[u] /\ Live(u)'
    BY <1>6 DEF TypeOK, Live
  <2> DEFINE d == label[u]
             from == SessionOfThread(pc[u])
  <2>2. from \in {"starting", "on"}
    BY <1>6 DEF SessionOfThread
  <2> HIDE DEF d, from
  <2>3. \/ UNCHANGED SessionView
        \/ /\ d \in DeviceNames /\ SessionView[d] = from
           /\ SessionView' = [SessionView EXCEPT ![d] = "ending"]
    BY <1>6, <2>1, ThreadMovesSession DEF SessionOfThread, d, from
  <2> QED  BY <2>2, <2>3 DEF Sessions!Next, Sessions!End, Sessions!Move, SessionView
<1>7. ASSUME NEW u \in Threads, NEW n \in Nodes, OpenAndGrab(u, n)
      PROVE  Sessions!Next \/ UNCHANGED SessionView
  BY <1>1, <1>6, <1>7 DEF OpenAndGrab, Close, Live
<1>8. ASSUME NEW u \in Threads, CreateWriter(u)
      PROVE  Sessions!Next \/ UNCHANGED SessionView
  <2>1. CASE Close(u, "uinput")
    BY <1>6, <1>8, <2>1 DEF CreateWriter, Close, Live
  <2>2. CASE pc' = [pc EXCEPT ![u] = "polling"]
    <3>1. /\ \A t \in Threads \ {u} : pc'[t] = pc[t] /\ label'[t] = label[t]
          /\ pc[u] = "opening" /\ pc'[u] = "polling" /\ label'[u] = label[u]
          /\ Live(u) /\ Live(u)'
      BY <1>8, <2>2 DEF CreateWriter, TypeOK, Live
    <3> DEFINE d == label[u]
    <3> HIDE DEF d
    <3>2. \/ UNCHANGED SessionView
          \/ /\ d \in DeviceNames /\ SessionView[d] = "starting"
             /\ SessionView' = [SessionView EXCEPT ![d] = "on"]
      BY <3>1, ThreadMovesSession DEF SessionOfThread, d
    <3> QED  BY <3>2 DEF Sessions!Next, Sessions!Ready, Sessions!Move, SessionView
  <2> QED  BY <1>8, <2>1, <2>2 DEF CreateWriter
<1>9. ASSUME NEW u \in Threads, PollStop(u) \/ PollDeviceError(u)
      PROVE  Sessions!Next \/ UNCHANGED SessionView
  BY <1>6, <1>9 DEF PollStop, PollDeviceError, Close, Live
<1>10. ASSUME NEW u \in Threads, Forward(u) \/ PollReadable(u)
       PROVE  Sessions!Next \/ UNCHANGED SessionView
  <2>1. CASE Close(u, "emit") /\ UNCHANGED label /\ pc[u] = "forwarding"
    BY <1>6, <2>1 DEF Close, Live
  <2>2. CASE /\ pc[u] \in {"polling", "forwarding"}
             /\ \E p \in {"polling", "forwarding"} : pc' = [pc EXCEPT ![u] = p]
             /\ UNCHANGED label
    <3>1. \A t \in Threads :
             \/ pc'[t] = pc[t] /\ label'[t] = label[t]
             \/ /\ Live(t) /\ Live(t)' /\ label'[t] = label[t]
                /\ SessionOfThread(pc'[t]) = SessionOfThread(pc[t])
      BY <2>2 DEF TypeOK, Live, SessionOfThread
    <3> QED  BY <3>1, ThreadsKeepSessions
  <2> QED  BY <1>10, <2>1, <2>2 DEF Forward, PollReadable
<1>11. ASSUME NEW u \in Threads, DropReader(u)
       PROVE  UNCHANGED SessionView
  BY <1>1, <1>11 DEF DropReader, threadVars
<1>12. ASSUME NEW u \in Threads, Exit(u)
       PROVE  Sessions!Next \/ UNCHANGED SessionView
  <2>1. /\ \A t \in Threads \ {u} : pc'[t] = pc[t] /\ label'[t] = label[t]
        /\ pc[u] = "closing" /\ Live(u) /\ ~Live(u)'
    BY <1>12 DEF Exit, TypeOK, Live
  <2> DEFINE d == label[u]
  <2> HIDE DEF d
  <2>2. \/ UNCHANGED SessionView
        \/ /\ d \in DeviceNames /\ SessionView[d] = "ending"
           /\ SessionView' = [SessionView EXCEPT ![d] = "off"]
    BY <2>1, ThreadMovesSession DEF SessionOfThread, d
  <2> QED  BY <2>2 DEF Sessions!Next, Sessions!Release, Sessions!Move, SessionView
<1> QED
  BY <1>2, <1>3, <1>4, <1>5, <1>7, <1>8, <1>9, <1>10, <1>11, <1>12 DEF Next, Handle, Run

(* Exact requests for stable names: the daemon, its threads and its table  *)
(* implement one session at a time for each device name.                   *)
THEOREM Refinement ==
    ASSUME StableNames, ExactRequests
    PROVE  Spec => OneSession
<1> DEFINE Inv == TypeOK /\ CallShape /\ GrabShape /\ ExactShape /\ NoBusyFailure
<1>1. Spec => []ThreadInv
  <2>1. Inv => ThreadInv
    BY DEF ThreadInv
  <2> QED
    BY <2>1, TypeInit, TypeStep, ShapeInit, ShapeStep, GrabInit, GrabStep, ExactInit,
       ExactStep, PTL DEF Spec
<1>2. ThreadInv /\ ThreadInv' /\ [Next]_vars => [Sessions!Next]_SessionView
  BY SessionStep
<1> QED  BY <1>1, <1>2, SessionInit, PTL DEF Spec, OneSession, Sessions!Spec, SessionView
=============================================================================

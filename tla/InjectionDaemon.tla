--------------------------- MODULE InjectionDaemon ---------------------------
(***************************************************************************)
(* The daemon's core: the DaemonManager, its table of injections and the   *)
(* request it is handling, together with the injection threads it starts,  *)
(* their exclusive grabs on event nodes and their virtual devices          *)
(* (src/daemon/manager.rs, src/daemon/service.rs, src/device/*.rs).        *)
(*                                                                         *)
(* Connection threads call handle_request under one mutex, so at most one  *)
(* request is in progress: `call` is that request and how far it has got.  *)
(* Injection threads never take the mutex; they run interleaved with it.   *)
(***************************************************************************)
EXTENDS Devices

CONSTANTS
    Presets,        \* preset names
    Threads,        \* injection threads; one may be reused once it has ended
    VirtualNode,    \* the node of the uinput device a thread creates
    Requestable,    \* the strings clients send as device names
    Invalid,        \* the device and preset names validate_name refuses
    AutoloadConfig, \* config.json: the pairs <<device, preset>> to autoload
    NoThread,       \* "no thread", NoName, NoPreset: absent values
    NoName,
    NoPreset

ASSUME DaemonAssumption ==
    /\ NoThread \notin Threads
    /\ NoName \notin Names
    /\ NoPreset \notin Presets
    /\ Requestable \subseteq Names
    /\ AutoloadConfig \subseteq Requestable \X Presets
    /\ \A e, f \in AutoloadConfig : e[1] = f[1] => e = f   \* it is a HashMap
    /\ VirtualNode \in [Threads -> Nodes]
    /\ \A t, u \in Threads : VirtualNode[t] = VirtualNode[u] => t = u
    /\ \A t \in Threads : NodeName[VirtualNode[t]] \in OwnNames

VARIABLES
    present,     \* the nodes in /dev/input now
    grab,        \* grab[n]: the thread holding the exclusive grab on node n
    pc,          \* pc[t]: where InjectionService::run stands in thread t
    label,       \* label[t]: dev_info.name the thread was started for
    paths,       \* paths[t]: device_paths, the nodes the thread was started for
    todo,        \* todo[t]: those of them that run has yet to open and grab
    stop,        \* stop[t]: what the thread's stop_reader will see
    lost,        \* lost[t]: nodes whose device is gone while t had them open
    outcome,     \* outcome[t]: the result of run, once it is known
    injections,  \* DaemonManager::injections
    call,        \* the request being handled under the manager's mutex
    reply        \* the Response to the last request; none while one is handled

threadVars == <<pc, label, paths, todo, stop, lost, outcome>>
deviceVars == <<present, grab>>
vars == <<deviceVars, threadVars, injections, call, reply>>

-----------------------------------------------------------------------------
(* The types of the state.                                                 *)

VirtualNodes == {VirtualNode[t] : t \in Threads}
Hardware == Nodes \ VirtualNodes

NoInjection == [thread |-> NoThread, preset |-> NoPreset]
Injection == [thread : Threads \cup {NoThread}, preset : Presets \cup {NoPreset}]

ThreadStates == {"opening", "polling", "forwarding", "closing", "exited"}
Live(t) == pc[t] # "exited"

(* "nodev" and "busy" are the errors of DeviceReader::open and grab.       *)
Outcomes == {"none", "ok", "nodev", "busy", "uinput", "emit"}

Phases == {"idle", "stop_old", "join", "resolve", "insert", "join_all", "next"}
Operations == {"none", "start", "stop", "stop_all", "autoload"}
Calls == [op : Operations, phase : Phases,
          device : Names \cup {NoName},       \* the name asked for
          preset : Presets \cup {NoPreset},
          name   : Names \cup {NoName},       \* dev_info.name, once resolved
          target : Threads \cup {NoThread},   \* thread to join, or just spawned
          rest   : SUBSET (Names \X Presets), \* autoload: entries still to start
          errors : BOOLEAN]                   \* autoload: did an entry fail?
NoCall == [op |-> "none", phase |-> "idle", device |-> NoName,
           preset |-> NoPreset, name |-> NoName, target |-> NoThread,
           rest |-> {}, errors |-> FALSE]

Results == {"ok", "invalid", "not_found", "load_failed", "not_running",
            "config_failed", "some_failed", "none"}
Replies == [op : Operations, device : Names \cup {NoName}, result : Results]
NoReply == [op |-> "none", device |-> NoName, result |-> "none"]

(* The types of the state: presets and device names are both &str in the   *)
(* code and are never taken for each other, in the table or in a request.  *)
TypeOK ==
    /\ present \subseteq Nodes
    /\ grab \in [Nodes -> Threads \cup {NoThread}]
    /\ pc \in [Threads -> ThreadStates]
    /\ label \in [Threads -> Names \cup {NoName}]
    /\ paths \in [Threads -> SUBSET Nodes] /\ todo \in [Threads -> SUBSET Nodes]
    /\ stop \in [Threads -> {"none", "byte", "hangup"}]
    /\ lost \in [Threads -> SUBSET Nodes]
    /\ outcome \in [Threads -> Outcomes]
    /\ injections \in [Names -> Injection]
    /\ call \in Calls
    /\ reply \in Replies

Init ==
    /\ present \in SUBSET Hardware
    /\ grab = [n \in Nodes |-> NoThread]
    /\ pc = [t \in Threads |-> "exited"]
    /\ label = [t \in Threads |-> NoName]
    /\ paths = [t \in Threads |-> {}] /\ todo = [t \in Threads |-> {}]
    /\ stop = [t \in Threads |-> "none"]
    /\ lost = [t \in Threads |-> {}]
    /\ outcome = [t \in Threads |-> "none"]
    /\ injections = [n \in Names |-> NoInjection]
    /\ call = NoCall
    /\ reply = NoReply

-----------------------------------------------------------------------------
(* The manager.                                                            *)

Listed(n) == injections[n].thread # NoThread
Held(t) == {n \in Nodes : grab[n] = t}

(* A thread that has ended and that nothing refers to any more.            *)
Unused(t) ==
    /\ pc[t] = "exited"
    /\ call.target # t
    /\ \A n \in Names : injections[n].thread # t

(* Leave handle_request with this Response and drop the mutex guard.       *)
Respond(result) ==
    /\ call' = NoCall
    /\ reply' = [op |-> call.op, device |-> call.device, result |-> result]

(* Variant of FinishStart: autoload remembers its last entry's error only. *)
FinishStartLastError(result) ==
    IF call.op = "autoload"
    THEN /\ call' = [NoCall EXCEPT !.op = "autoload", !.phase = "next",
                                   !.rest = call.rest, !.errors = result # "ok"]
         /\ UNCHANGED reply
    ELSE Respond(result)

(* start_injection returns: to handle_request, or to autoload's loop,      *)
(* which notes an error and goes on with the next entry.                   *)
FinishStart(result) ==
    IF call.op = "autoload"
    THEN /\ call' = [NoCall EXCEPT !.op = "autoload", !.phase = "next",
                                   !.rest = call.rest,
                                   !.errors = call.errors \/ result # "ok"]
         /\ UNCHANGED reply
    ELSE Respond(result)

(* The threads in S are told to stop.  One that has ended has dropped its  *)
(* stop_reader: the write fails, which signal_stop ignores.                *)
Signal(S, how) ==
    stop' = [t \in Threads |->
                IF t \in S /\ Live(t) /\ stop[t] = "none" THEN how ELSE stop[t]]

(* Variant of RemoveAndSignal: remove without signal_stop.                 *)
RemoveOnly(d) ==
    /\ injections' = [injections EXCEPT ![d] = NoInjection]
    /\ UNCHANGED stop

(* Take the injection of name d out of the table and signal_stop it.       *)
RemoveAndSignal(d) ==
    /\ injections' = [injections EXCEPT ![d] = NoInjection]
    /\ Signal({injections[d].thread}, "byte")

(* Variant of BeginStart: both parameters are &str and come swapped.       *)
BeginStartSwapped(d, p) ==
    /\ call = NoCall
    /\ call' = [NoCall EXCEPT !.op = "start", !.phase = "stop_old",
                              !.device = p, !.preset = d]
    /\ reply' = NoReply
    /\ UNCHANGED <<deviceVars, threadVars, injections>>

BeginStart(d, p) ==
    /\ call = NoCall
    /\ call' = [NoCall EXCEPT !.op = "start", !.phase = "stop_old",
                              !.device = d, !.preset = p]
    /\ reply' = NoReply
    /\ UNCHANGED <<deviceVars, threadVars, injections>>

(* Variant of StopOld: go on without stopping the old injection.           *)
KeepOld ==
    /\ call.phase = "stop_old"
    /\ call' = [call EXCEPT !.phase = "resolve"]
    /\ UNCHANGED <<deviceVars, threadVars, injections, reply>>

(* start_injection: validate both names, then stop what runs under the     *)
(* name asked for (stop_injection, up to the join).                        *)
StopOld ==
    /\ call.phase = "stop_old"
    /\ \/ /\ {call.device, call.preset} \cap Invalid # {}
          /\ FinishStart("invalid")
          /\ UNCHANGED <<injections, stop>>
       \/ /\ {call.device, call.preset} \cap Invalid = {}
          /\ ~Listed(call.device)
          /\ call' = [call EXCEPT !.phase = "resolve"]
          /\ UNCHANGED <<injections, stop, reply>>
       \/ /\ {call.device, call.preset} \cap Invalid = {}
          /\ Listed(call.device)
          /\ RemoveAndSignal(call.device)
          /\ call' = [call EXCEPT !.phase = "join",
                                  !.target = injections[call.device].thread]
          /\ UNCHANGED reply
    /\ UNCHANGED <<deviceVars, pc, label, paths, todo, lost, outcome>>

(* Variant of BeginStop: look the entry up, take it out only at the end.   *)
BeginStopKeepingEntry(d) ==
    /\ call = NoCall
    /\ Listed(d)
    /\ Signal({injections[d].thread}, "byte")
    /\ call' = [NoCall EXCEPT !.op = "stop", !.phase = "join", !.device = d,
                              !.target = injections[d].thread]
    /\ reply' = NoReply
    /\ UNCHANGED <<deviceVars, pc, label, paths, todo, lost, outcome, injections>>

(* stop_injection for a client: it does not validate the name and looks it *)
(* up in the table as it is.                                               *)
BeginStop(d) ==
    /\ call = NoCall
    /\ \/ /\ Listed(d)
          /\ RemoveAndSignal(d)
          /\ call' = [NoCall EXCEPT !.op = "stop", !.phase = "join", !.device = d,
                                    !.target = injections[d].thread]
          /\ reply' = NoReply
       \/ /\ ~Listed(d)
          /\ reply' = [op |-> "stop", device |-> d, result |-> "not_running"]
          /\ UNCHANGED <<injections, stop, call>>
    /\ UNCHANGED <<deviceVars, pc, label, paths, todo, lost, outcome>>

(* Variant of Joined: the JoinHandle is dropped, not joined.               *)
NotJoined ==
    /\ call.phase = "join"
    /\ \/ /\ call.op = "stop"
          /\ Respond("ok")
       \/ /\ call.op # "stop"
          /\ call' = [call EXCEPT !.phase = "resolve", !.target = NoThread]
          /\ UNCHANGED reply
    /\ UNCHANGED <<deviceVars, threadVars, injections>>

(* thread.join() returns; start_injection goes on, stop_injection is done. *)
Joined ==
    /\ call.phase = "join"
    /\ pc[call.target] = "exited"
    /\ \/ /\ call.op = "stop"
          /\ Respond("ok")
       \/ /\ call.op # "stop"
          /\ call' = [call EXCEPT !.phase = "resolve", !.target = NoThread]
          /\ UNCHANGED reply
    /\ UNCHANGED <<deviceVars, threadVars, injections>>

(* find_device_by_name fails, or one of the steps between it and the spawn *)
(* does: no such preset file, an unreadable one, no socket pair.           *)
StartFails ==
    /\ call.phase = "resolve"
    /\ \E naming \in Namings(present) :
        LET found == FindDevice(call.device, naming)
        IN  FinishStart(IF found = {} THEN "not_found" ELSE "load_failed")
    /\ UNCHANGED <<deviceVars, threadVars, injections>>

(* The device is found and its preset loaded: build the InjectionService   *)
(* and spawn its thread, under the name discovery reports.                 *)
Spawn(t) ==
    /\ call.phase = "resolve"
    /\ Unused(t)
    /\ \E naming \in Namings(present) :
        \E g \in FindDevice(call.device, naming) :
            /\ pc' = [pc EXCEPT ![t] = "opening"]
            /\ label' = [label EXCEPT ![t] = naming[g]]
            /\ paths' = [paths EXCEPT ![t] = SubDevices(g, present)]
            /\ todo' = [todo EXCEPT ![t] = SubDevices(g, present)]
            /\ call' = [call EXCEPT !.phase = "insert", !.target = t,
                                    !.name = naming[g]]
    /\ UNCHANGED <<deviceVars, stop, lost, outcome, injections, reply>>

(* Variant of Insert: the stop_writer of the entry it replaces stays open. *)
InsertKeepingWriter ==
    /\ call.phase = "insert"
    /\ injections' = [injections EXCEPT
                        ![call.name] = [thread |-> call.target, preset |-> call.preset]]
    /\ FinishStart("ok")
    /\ UNCHANGED <<deviceVars, threadVars>>

(* injections.insert: an entry already there under dev_info.name is        *)
(* dropped, which closes its stop_writer and detaches its thread.          *)
Insert ==
    /\ call.phase = "insert"
    /\ injections' = [injections EXCEPT
                        ![call.name] = [thread |-> call.target, preset |-> call.preset]]
    /\ Signal({injections[call.name].thread}, "hangup")
    /\ FinishStart("ok")
    /\ UNCHANGED <<deviceVars, pc, label, paths, todo, lost, outcome>>

(* stop_all: signal every listed thread, then join them one by one.        *)
BeginStopAll ==
    /\ call = NoCall
    /\ Signal({injections[n].thread : n \in Names}, "byte")
    /\ call' = [NoCall EXCEPT !.op = "stop_all", !.phase = "join_all"]
    /\ reply' = NoReply
    /\ UNCHANGED <<deviceVars, pc, label, paths, todo, lost, outcome, injections>>

(* Variant of AllJoined: it waits for one of the threads only.             *)
OneJoined ==
    /\ call.phase = "join_all"
    /\ (\E n \in Names : Listed(n)) =>
            \E n \in Names : Listed(n) /\ pc[injections[n].thread] = "exited"
    /\ injections' = [n \in Names |-> NoInjection]
    /\ Respond("ok")
    /\ UNCHANGED <<deviceVars, threadVars>>

AllJoined ==
    /\ call.phase = "join_all"
    /\ \A n \in Names : Listed(n) => pc[injections[n].thread] = "exited"
    /\ injections' = [n \in Names |-> NoInjection]
    /\ Respond("ok")
    /\ UNCHANGED <<deviceVars, threadVars>>

(* autoload: read config.json, start its entries in HashMap order.         *)
BeginAutoload ==
    /\ call = NoCall
    /\ \/ /\ call' = [NoCall EXCEPT !.op = "autoload", !.phase = "next",
                                    !.rest = AutoloadConfig]
          /\ reply' = NoReply
       \/ /\ reply' = [op |-> "autoload", device |-> NoName, result |-> "config_failed"]
          /\ UNCHANGED call
    /\ UNCHANGED <<deviceVars, threadVars, injections>>

AutoloadNext ==
    /\ call.phase = "next"
    /\ \/ \E entry \in call.rest :
            /\ call' = [call EXCEPT !.phase = "stop_old", !.device = entry[1],
                                    !.preset = entry[2], !.rest = @ \ {entry}]
            /\ UNCHANGED reply
       \/ /\ call.rest = {}
          /\ Respond(IF call.errors THEN "some_failed" ELSE "ok")
    /\ UNCHANGED <<deviceVars, threadVars, injections>>

-----------------------------------------------------------------------------
(* An injection thread: InjectionService::run.                             *)

(* Leave run: the writer is dropped first and its virtual device with it;  *)
(* neither the paths nor poll's results are looked at any more.            *)
Close(t, result) ==
    /\ pc' = [pc EXCEPT ![t] = "closing"]
    /\ outcome' = [outcome EXCEPT ![t] = result]
    /\ present' = present \ {VirtualNode[t]}
    /\ paths' = [paths EXCEPT ![t] = {}] /\ todo' = [todo EXCEPT ![t] = {}]
    /\ lost' = [lost EXCEPT ![t] = {}]

(* Variant of OpenAndGrab: a path that is taken is skipped, as long as the *)
(* thread has another one or may still get one.                            *)
OpenAndGrabSome(t, n) ==
    /\ pc[t] = "opening"
    /\ n \in todo[t]
    /\ \/ /\ n \notin present \/ (grab[n] # NoThread /\ todo[t] = {n} /\ Held(t) = {})
          /\ Close(t, IF n \in present THEN "busy" ELSE "nodev")
          /\ UNCHANGED grab
       \/ /\ n \in present
          /\ grab[n] = NoThread \/ todo[t] # {n} \/ Held(t) # {}
          /\ grab' = [grab EXCEPT ![n] = IF @ = NoThread THEN t ELSE @]
          /\ todo' = [todo EXCEPT ![t] = @ \ {n}]
          /\ UNCHANGED <<pc, outcome, present, paths, lost>>
    /\ UNCHANGED <<label, stop, injections, call, reply>>

(* Open and grab one device path.  A missing node or a node someone else   *)
(* has grabbed makes run return the error.                                 *)
OpenAndGrab(t, n) ==
    /\ pc[t] = "opening"
    /\ n \in todo[t]
    /\ \/ /\ n \notin present
          /\ Close(t, "nodev")
          /\ UNCHANGED grab
       \/ /\ n \in present
          /\ grab[n] # NoThread
          /\ Close(t, "busy")
          /\ UNCHANGED grab
       \/ /\ n \in present
          /\ grab[n] = NoThread
          /\ grab' = [grab EXCEPT ![n] = t]
          /\ todo' = [todo EXCEPT ![t] = @ \ {n}]
          /\ UNCHANGED <<pc, outcome, present, paths, lost>>
    /\ UNCHANGED <<label, stop, injections, call, reply>>

(* DeviceWriter::new_keyboard_mouse: the virtual device appears.           *)
CreateWriter(t) ==
    /\ pc[t] = "opening"
    /\ todo[t] = {}
    /\ \/ /\ pc' = [pc EXCEPT ![t] = "polling"]
          /\ present' = present \cup {VirtualNode[t]}
          /\ UNCHANGED <<outcome, paths, todo, lost>>
       \/ Close(t, "uinput")
    /\ UNCHANGED <<grab, label, stop, injections, call, reply>>

(* poll returns and the stop socket is readable or hung up: this is looked *)
(* at first, whatever the devices have to say.                             *)
PollStop(t) ==
    /\ pc[t] = "polling"
    /\ stop[t] # "none"
    /\ Close(t, "ok")
    /\ UNCHANGED <<grab, label, stop, injections, call, reply>>

(* Variant of PollDeviceError: POLLERR and POLLHUP of a device are taken   *)
(* for input; the read that follows fails and is logged.                   *)
PollIgnoresError(t) ==
    /\ pc[t] = "polling"
    /\ stop[t] = "none"
    /\ lost[t] # {}
    /\ pc' = [pc EXCEPT ![t] = "forwarding"]
    /\ UNCHANGED <<deviceVars, label, paths, todo, stop, lost, outcome, injections, call, reply>>

(* poll reports an error or hangup on a device: it was removed.            *)
PollDeviceError(t) ==
    /\ pc[t] = "polling"
    /\ stop[t] = "none"
    /\ lost[t] # {}
    /\ Close(t, "ok")
    /\ UNCHANGED <<grab, label, stop, injections, call, reply>>

(* Variant of PollReadable: the stop socket is looked at after the devices. *)
PollReadableFirst(t) ==
    /\ pc[t] = "polling"
    /\ lost[t] = {}
    /\ pc' = [pc EXCEPT ![t] = "forwarding"]
    /\ UNCHANGED <<deviceVars, label, paths, todo, stop, lost, outcome, injections, call, reply>>

(* poll reports readable devices only: go on to read them.                 *)
PollReadable(t) ==
    /\ pc[t] = "polling"
    /\ stop[t] = "none"
    /\ lost[t] = {}
    /\ pc' = [pc EXCEPT ![t] = "forwarding"]
    /\ UNCHANGED <<deviceVars, label, paths, todo, stop, lost, outcome, injections, call, reply>>

(* Read, remap and emit the batch.  A read error is only logged, an emit   *)
(* error ends run.                                                         *)
Forward(t) ==
    /\ pc[t] = "forwarding"
    /\ \/ /\ pc' = [pc EXCEPT ![t] = "polling"]
          /\ UNCHANGED <<outcome, present, paths, todo, lost>>
       \/ Close(t, "emit")
    /\ UNCHANGED <<grab, label, stop, injections, call, reply>>

(* Drop the readers, which ungrabs their nodes one after the other.        *)
DropReader(t) ==
    /\ pc[t] = "closing"
    /\ \E n \in Held(t) : grab' = [grab EXCEPT ![n] = NoThread]
    /\ UNCHANGED <<present, threadVars, injections, call, reply>>

(* The thread ends and drops its InjectionService, stop_reader included;   *)
(* what the finished thread leaves behind is that its JoinHandle is ready. *)
Exit(t) ==
    /\ pc[t] = "closing"
    /\ Held(t) = {}
    /\ pc' = [pc EXCEPT ![t] = "exited"]
    /\ label' = [label EXCEPT ![t] = NoName]
    /\ stop' = [stop EXCEPT ![t] = "none"]
    /\ outcome' = [outcome EXCEPT ![t] = "none"]
    /\ UNCHANGED <<deviceVars, paths, todo, lost, injections, call, reply>>

-----------------------------------------------------------------------------
(* The environment: hardware comes and goes.  A removed node takes its     *)
(* grab along and leaves the holder with a dead descriptor, even if a node *)
(* of the same path comes back; a thread that leaves run closes it anyway. *)

Plug(n) ==
    /\ n \in Hardware \ present
    /\ present' = present \cup {n}
    /\ UNCHANGED <<grab, threadVars, injections, call, reply>>

Unplug(n) ==
    /\ n \in Hardware \cap present
    /\ present' = present \ {n}
    /\ grab' = [grab EXCEPT ![n] = NoThread]
    /\ lost' = [t \in Threads |-> IF grab[n] = t /\ pc[t] # "closing"
                                  THEN lost[t] \cup {n} ELSE lost[t]]
    /\ UNCHANGED <<pc, label, paths, todo, stop, outcome, injections, call, reply>>

-----------------------------------------------------------------------------
Request ==
    \/ \E d \in Requestable, p \in Presets : BeginStart(d, p)
    \/ \E d \in Requestable : BeginStop(d)
    \/ BeginStopAll
    \/ BeginAutoload

(* The request in progress moves on.                                       *)
Handle ==
    \/ StopOld
    \/ Joined
    \/ StartFails
    \/ \E t \in Threads : Spawn(t)
    \/ Insert
    \/ AllJoined
    \/ AutoloadNext

(* Thread t moves on by itself; PollReadable waits for input instead.      *)
Run(t) ==
    \/ \E n \in Nodes : OpenAndGrab(t, n)
    \/ CreateWriter(t)
    \/ PollStop(t)
    \/ PollDeviceError(t)
    \/ Forward(t)
    \/ DropReader(t)
    \/ Exit(t)

Hotplug == \E n \in Nodes : Plug(n) \/ Unplug(n)

Next ==
    \/ Request
    \/ Handle
    \/ \E t \in Threads : Run(t) \/ PollReadable(t)
    \/ Hotplug

Spec == Init /\ [][Next]_vars

(* The kernel schedules every thread: the one handling a request and the   *)
(* injection threads.  Clients, users and hardware owe nothing.            *)
Fairness == WF_vars(Handle) /\ \A t \in Threads : WF_vars(Run(t))
FairSpec == Spec /\ Fairness

-----------------------------------------------------------------------------
(* Properties that hold whatever the devices are called.                   *)

(* A thread that still runs can always be reached: nobody told it to stop  *)
(* yet, so it is in the table or about to be put there.  start_injection   *)
(* may find the old injection under another name than the one it inserts   *)
(* the new one under; HashMap::insert then drops the old entry, and the    *)
(* closed stop_writer has to end its thread.                               *)
NoOrphan ==
    \A t \in Threads :
        pc[t] \in {"opening", "polling", "forwarding"} /\ stop[t] = "none" =>
            \/ \E n \in Names : injections[n].thread = t
            \/ call.phase = "insert" /\ call.target = t

(* No injection grabs a virtual device of the daemon, not even one of an   *)
(* injection that is still running: that would feed its output back in.    *)
NoFeedback ==
    \A n \in Nodes : grab[n] # NoThread => NodeName[n] \notin OwnNames

(* An injection that reads its devices holds the grab of every node it was *)
(* started for, but for those unplugged since it grabbed them, so no event *)
(* reaches the desktop unremapped: run opens and grabs one path after the  *)
(* other while others compete for them, and must give up when one of them  *)
(* is taken, also if it has got the others.                                *)
GrabbedAll ==
    \A t \in Threads :
        pc[t] \in {"polling", "forwarding"} =>
            /\ paths[t] # {}
            /\ \A n \in paths[t] \ lost[t] : grab[n] = t

(* Every request is answered: the joins it waits for under the mutex end.  *)
CallsReturn == call # NoCall ~> call = NoCall

(* A thread told to stop, by a byte or by a closed stop_writer, ends, even *)
(* if its devices have input ready each time it polls.                     *)
StopTakesEffect ==
    \A t \in Threads : stop[t] # "none" ~> pc[t] = "exited"

(* A thread whose device is unplugged ends without being told to, and one  *)
(* that gives up for another reason gives its devices back.                *)
UnplugEnds ==
    \A t \in Threads : lost[t] # {} \/ pc[t] = "closing" ~> pc[t] = "exited"

-----------------------------------------------------------------------------
(* Properties that hold when a request names its device exactly and all    *)
(* nodes of a device have the same name.                                   *)

StableNames ==
    \A n, m \in Nodes :
        /\ GroupOf[n] = GroupOf[m]
        /\ {NodeName[n], NodeName[m]} \cap OwnNames = {}
        => NodeName[n] = NodeName[m]

ExactRequests ==
    \A n \in Nodes, d \in Requestable :
        <<NodeName[n], d>> \in Contains => NodeName[n] = d

(* No injection fails because another one of the daemon has the device: a  *)
(* restart joins the thread it replaces before it starts the new one.      *)
NoBusyFailure == \A t \in Threads : outcome[t] # "busy"

(* "Stopped" means stopped: when a stop is answered with Ok, no thread of  *)
(* that device is left that could still hold a grab.                       *)
StopMeansStopped ==
    [][call.op = "stop" /\ reply'.result = "ok" =>
            \A t \in Threads : pc'[t] # "exited" => label'[t] # call.device]_vars

(* After a stop_all nothing is left running at all.                        *)
StopAllMeansStopped ==
    [][call.op = "stop_all" /\ reply'.result = "ok" =>
            \A t \in Threads : pc'[t] = "exited"]_vars

(* An autoload answered with Ok has put every entry of config.json in the  *)
(* table with its preset: no error of one of them is lost on the way, and  *)
(* no entry undoes another one.                                            *)
AutoloadOk ==
    [][call.op = "autoload" /\ reply'.result = "ok" =>
            \A e \in AutoloadConfig :
                injections'[e[1]].thread # NoThread /\ injections'[e[1]].preset = e[2]]_vars

(* The session of device name d, as seen through its threads.              *)
SessionOf(d) ==
    LET own == {t \in Threads : Live(t) /\ label[t] = d}
        t == CHOOSE u \in own : TRUE
    IN  CASE own = {}                            -> "off"
          [] \E u \in own : own # {u}            -> "clash"
          [] OTHER -> IF pc[t] = "opening" THEN "starting"
                      ELSE IF pc[t] = "closing" THEN "ending" ELSE "on"

DeviceNames == {NodeName[n] : n \in Nodes} \ OwnNames
Sessions == INSTANCE DeviceSession WITH
                Devices <- DeviceNames, session <- [d \in DeviceNames |-> SessionOf(d)]

(* The daemon implements one session at a time for each device name.  That *)
(* sessions do not stay half started or half ended is UnplugEnds.          *)
OneSession == Sessions!Spec

-----------------------------------------------------------------------------
(* Inductive strengthenings of the invariants above.                       *)

(* What a request in progress knows in each phase.                         *)
CallShape ==
    /\ call.phase \in {"stop_old", "join", "resolve", "insert"} => call.device \in Requestable
    /\ call.phase \in {"join", "insert"} => call.target \in Threads
    /\ call.phase = "insert" => call.name \in Names
    /\ call.op = "stop" => call.phase = "join"
    /\ call.op = "stop_all" => call.phase = "join_all"
    /\ call.op # "none" => reply = NoReply
    /\ call.rest \subseteq AutoloadConfig

(* Only running threads hold or wait for nodes, and never both for one; no *)
(* thread waits for a virtual device of the daemon.                        *)
GrabShape ==
    \A n \in Nodes :
        /\ grab[n] # NoThread => Live(grab[n]) /\ n \notin todo[grab[n]]
        /\ \A t \in Threads : n \in todo[t] => NodeName[n] \notin OwnNames

(* Exact requests for stable names: a thread takes nodes of its own name   *)
(* only, it is in the table under that name unless the request in progress *)
(* is taking it out or putting it in, and meanwhile the name is free.      *)
ExactShape ==
    /\ \A t \in Threads :
            Live(t) =>
                /\ \A n \in todo[t] \cup Held(t) : NodeName[n] = label[t]
                /\ \/ label[t] \in Names /\ injections[label[t]].thread = t
                   \/ call.phase = "join" /\ call.target = t /\ call.device = label[t]
                   \/ call.phase = "insert" /\ call.target = t /\ call.name = label[t]
    /\ call.phase \in {"join", "resolve", "insert"} => ~Listed(call.device)
    /\ call.phase = "insert" => call.name = call.device

(* Until it leaves run a thread still wants, holds or has lost each node   *)
(* it was started for; one that polls wants none.                          *)
GrabbedShape ==
    \A t \in Threads :
        /\ pc[t] \in {"polling", "forwarding"} => todo[t] = {}
        /\ pc[t] \in {"opening", "polling", "forwarding"} =>
              paths[t] # {} /\ paths[t] \subseteq todo[t] \cup Held(t) \cup lost[t]

(* Autoload without an error so far: the entries it is through with are in *)
(* the table, all but the one it is starting.                              *)
AutoloadShape ==
    call.op = "autoload" =>
        /\ call.phase \in {"next", "stop_old", "join", "resolve", "insert"}
        /\ call.phase # "next" => <<call.device, call.preset>> \in AutoloadConfig \ call.rest
        /\ ~call.errors =>
              \A e \in AutoloadConfig \ call.rest :
                  \/ call.phase # "next" /\ e = <<call.device, call.preset>>
                  \/ injections[e[1]].thread # NoThread /\ injections[e[1]].preset = e[2]

(* The daemon's inductive invariant, for exact requests and stable names.  *)
DaemonInv == CallShape /\ GrabShape /\ GrabbedShape /\ ExactShape /\ AutoloadShape

-----------------------------------------------------------------------------
(* What the texts around the code say and the code does not do.            *)

(* src/main.rs:54 "Show status of running injections": an injection that   *)
(* status lists although it has ended is not listed for ever.              *)
StatusSettles ==
    \A n \in Names :
        (Listed(n) /\ pc[injections[n].thread] = "exited") ~>
            (Listed(n) => pc[injections[n].thread] # "exited")
=============================================================================

----------------------------- MODULE Recording ------------------------------
(***************************************************************************)
(* Recording a key in the terminal UI: the UI stops the injection of the   *)
(* device, a recorder thread streams its events from the daemon, and the   *)
(* injection is started again when the recording ends (src/tui/app.rs,     *)
(* src/tui/mod.rs, src/ipc/server.rs).  The UI thread blocks in its        *)
(* requests to the daemon while recorders, streams and other clients go    *)
(* on.  The daemon's table is kept without its threads: InjectionDaemon    *)
(* shows what stop and start do to those.  A device is one node here.      *)
(***************************************************************************)
EXTENDS Naturals, Sequences, FiniteSets, SequencesExt

CONSTANTS
    Devices, Presets, Codes,
    Recorders,   \* recorder threads, each with its connection; reused
    None,        \* None, of any type
    Settings     \* the circumstances to check: a set of records, see setting

ASSUME RecordingAssumption ==
    /\ None \notin Devices \cup Presets \cup Recorders \cup (Devices \X Presets)
    /\ \A s \in Settings : {s.patient, s.faults} \subseteq BOOLEAN /\ s.events \in Nat
    /\ \A s \in Settings : s.shared \subseteq Devices
    /\ \A s \in Settings : s.table \in [Devices -> Presets \cup {None}]  \* the table at the start

VARIABLES
    ui,         \* what the UI thread does: its loop, or the request it waits for
    overlay,    \* the kind of Overlay: "none", "record", or "other"
    device,     \* device_name()
    events,     \* the events of Overlay::Record
    record_cancel, record_prev_injection,
    inbox,      \* the messages of recorders on their way to the UI
    recorder,   \* the recorder threads
    stream,     \* the connection of each, and the server's end of it
    table,      \* the daemon's table: the preset each device is injected with
    grabbed,    \* devices whose injection runs
    plugged,
    late,       \* requests given up by the UI that the daemon will still serve
    owed,       \* injections told to stop, until their restart is answered with Ok (history)
    refused,    \* those whose restart was answered with an error or not at all (history)
    setting     \* the circumstances, which never change

history == <<owed, refused>>
uiVars == <<ui, overlay, device, events, record_cancel, record_prev_injection, history>>
threads == <<inbox, recorder, stream>>
daemon == <<table, grabbed, plugged, late>>
vars == <<uiVars, threads, daemon, setting>>

Patient == setting.patient      \* the user goes on when the last recording is over
Shared == setting.shared        \* devices that come and go and that other clients use
Faults == setting.faults        \* requests may time out, connections may break
MaxEvents == setting.events     \* bound: messages on their way to the UI, when one is added

Loop == [at |-> "loop", device |-> None, preset |-> None, after |-> None]
Request(op, d, p, after) == [at |-> op, device |-> d, preset |-> p, after |-> after]
Message(kind, d, c) == [kind |-> kind, device |-> d, code |-> c]
Idle == [pc |-> "idle", device |-> None, cancelled |-> FALSE]
Connection(at, d, lines) == [at |-> at, device |-> d, lines |-> lines]
NoStream == Connection("none", None, <<>>)

InLoop == ui.at = "loop"
Running(r) == recorder[r].pc # "idle"
InTransit == FoldFunction(LAMBDA s, n : Len(s.lines) + n, Len(inbox), stream)
Quiet == inbox = <<>> /\ \A r \in Recorders : ~Running(r)

Init ==
    /\ ui = Loop /\ overlay = "none" /\ device \in Devices /\ events = <<>>
    /\ record_cancel = None /\ record_prev_injection = None
    /\ inbox = <<>>
    /\ recorder = [r \in Recorders |-> Idle]
    /\ stream = [r \in Recorders |-> NoStream]
    /\ plugged = Devices
    /\ setting \in Settings
    /\ table = setting.table
    /\ grabbed = {d \in Devices : table[d] # None}
    /\ late = {} /\ owed = {} /\ refused = {}

-----------------------------------------------------------------------------
(* The daemon's start and stop.  A start that fails, because the device is *)
(* not there or the preset cannot be read, has already stopped what ran    *)
(* under its name.                                                         *)
Start(d, p) ==
    /\ d \in plugged
    /\ table' = [table EXCEPT ![d] = p]
    /\ grabbed' = grabbed \cup {d}

Stop(d) ==
    /\ table' = [table EXCEPT ![d] = None]
    /\ grabbed' = grabbed \ {d}

StartFails(d) == (d \notin plugged \/ Faults) /\ Stop(d)

Perform(request) ==
    \/ /\ request.at = "start"
       /\ Start(request.device, request.preset) \/ StartFails(request.device)
    \/ request.at = "stop" /\ Stop(request.device)

(* send_request, from the UI thread: it is served and answered; or the     *)
(* client gives up, and it is served later or never.                       *)
GivenUp(request) ==
    /\ Faults
    /\ late' \in {late, late \cup {Request(request.at, request.device, request.preset, None)}}
    /\ UNCHANGED <<table, grabbed, plugged>>

Call(request) == (Perform(request) /\ UNCHANGED <<plugged, late>>) \/ GivenUp(request)

ServeLate ==
    /\ \E request \in late : Perform(request) /\ late' = late \ {request}
    /\ UNCHANGED <<uiVars, threads, plugged, setting>>

(* Other clients, and hotplug.                                             *)
Others ==
    /\ \E d \in Shared : Stop(d) \/ StartFails(d) \/ \E p \in Presets : Start(d, p)
    /\ UNCHANGED <<uiVars, threads, plugged, late, setting>>

-----------------------------------------------------------------------------
(* The UI thread.                                                          *)

(* Keys that have nothing to do with recording.                            *)
OtherKey ==
    /\ InLoop /\ overlay # "record"
    /\ Patient /\ overlay = "none" => Quiet
    /\ \/ overlay = "none" /\ device' \in Devices /\ UNCHANGED overlay
       \/ overlay' \in {"none", "other"} /\ UNCHANGED device
    /\ UNCHANGED <<ui, events, record_cancel, record_prev_injection, history, threads, daemon,
                   setting>>

(* start_recording asks for the injections,                                *)
start_recording ==
    /\ InLoop /\ overlay = "none"
    /\ Patient => Quiet
    /\ InTransit < MaxEvents /\ \E r \in Recorders : ~Running(r)
    /\ ui' = Request("status", device, None, None)
    /\ UNCHANGED <<overlay, device, events, record_cancel, record_prev_injection, history,
                   threads, daemon, setting>>

(* and when the device is free                                             *)
Record(prev) ==
    /\ record_prev_injection' = prev
    /\ overlay' = "record" /\ events' = <<>>
    /\ \E r \in Recorders :
        /\ ~Running(r)
        /\ record_cancel' = r
        /\ recorder' = [recorder EXCEPT ![r] =
                            [pc |-> "connecting", device |-> ui.device, cancelled |-> FALSE]]
    /\ ui' = Loop
    /\ UNCHANGED <<device, inbox, stream>>

(* Variant of StatusAnswered: any injection is taken for the device's.     *)
StatusOfAny ==
    /\ ui.at = "status"
    /\ \E d \in Devices :
        IF table[d] = None
        THEN Record(None) /\ UNCHANGED <<history, daemon, setting>>
        ELSE /\ ui' = Request("stop", ui.device, table[d], None)
             /\ UNCHANGED <<overlay, device, events, record_cancel, record_prev_injection,
                            history, threads, daemon, setting>>

(* Variant of StatusAnswered: the injection is left running.               *)
StatusIgnored ==
    /\ ui.at = "status" /\ Record(None)
    /\ UNCHANGED <<history, daemon, setting>>

(* (it is stopped if it is injected; an answer that fails counts as not),  *)
StatusAnswered ==
    /\ ui.at = "status"
    /\ \/ /\ table[ui.device] = None \/ Faults
          /\ Record(None)
          /\ UNCHANGED history
       \/ /\ table[ui.device] # None
          /\ ui' = Request("stop", ui.device, table[ui.device], None)
          /\ UNCHANGED <<overlay, device, events, record_cancel, record_prev_injection,
                         history, threads>>
    /\ UNCHANGED <<daemon, setting>>

(* spawns a recorder, whatever the answer to the stop was.                 *)
StopAnswered ==
    /\ ui.at = "stop"
    /\ Call(ui)
    /\ Record(<<ui.device, ui.preset>>)
    /\ owed' = owed \cup {<<ui.device, ui.preset>>}
    /\ refused' = refused \ {<<ui.device, ui.preset>>}
    /\ UNCHANGED setting

(* What follows stop_recording: the symbol search for the chosen key, or   *)
(* no overlay.                                                             *)
Leave(after) ==
    /\ overlay' = IF after = "chosen" THEN "other" ELSE "none"
    /\ events' = <<>>

Cancel ==
    /\ recorder' = IF record_cancel = None THEN recorder
                   ELSE [recorder EXCEPT ![record_cancel].cancelled = TRUE]
    /\ record_cancel' = None
    /\ record_prev_injection' = None

(* Variant of stop_recording: the recorder is only forgotten.              *)
ForgetRecording(after) ==
    /\ record_cancel' = None /\ record_prev_injection' = None
    /\ IF record_prev_injection = None
       THEN Leave(after) /\ UNCHANGED ui
       ELSE /\ ui' = Request("start", record_prev_injection[1], record_prev_injection[2], after)
            /\ UNCHANGED <<overlay, events>>
    /\ UNCHANGED <<device, recorder, stream, history, daemon, setting>>

(* Cancels the recorder, then starts the injection again.                  *)
stop_recording(after) ==
    /\ Cancel
    /\ IF record_prev_injection = None
       THEN Leave(after) /\ UNCHANGED ui
       ELSE /\ ui' = Request("start", record_prev_injection[1], record_prev_injection[2], after)
            /\ UNCHANGED <<overlay, events>>
    /\ UNCHANGED <<device, stream, history, daemon, setting>>

(* If the injection cannot be started again only a message says so: it is  *)
(* not tried a second time.                                                *)
RestartAnswered ==
    /\ ui.at = "start"
    /\ \/ /\ Start(ui.device, ui.preset) /\ UNCHANGED <<plugged, late>>
          /\ owed' = owed \ {<<ui.device, ui.preset>>}
          /\ UNCHANGED refused
       \/ /\ (StartFails(ui.device) /\ UNCHANGED <<plugged, late>>) \/ GivenUp(ui)
          /\ refused' = refused \cup {<<ui.device, ui.preset>>}
          /\ UNCHANGED owed
    /\ Leave(ui.after) /\ ui' = Loop
    /\ UNCHANGED <<device, record_cancel, record_prev_injection, threads, setting>>

(* Enter on one of the events, and Esc.                                    *)
Enter ==
    /\ InLoop /\ overlay = "record" /\ events # <<>>
    /\ stop_recording("chosen") /\ UNCHANGED inbox

(* Variant of Escape: the overlay is closed and nothing else.              *)
EscapeOnly ==
    /\ InLoop /\ overlay = "record"
    /\ Leave("escaped") /\ Cancel
    /\ UNCHANGED <<ui, device, inbox, stream, history, daemon, setting>>

Escape ==
    /\ InLoop /\ overlay = "record"
    /\ stop_recording("escaped") /\ UNCHANGED inbox

(* The next message of the recorders, whichever recorder sent it.          *)
Received(kind) ==
    /\ InLoop /\ inbox # <<>> /\ Head(inbox).kind = kind
    /\ inbox' = Tail(inbox)

(* Variant of handle_record_event: a key pressed twice is listed twice.    *)
ListEveryEvent ==
    /\ Received("event")
    /\ events' = IF overlay = "record" THEN Append(events, Head(inbox)) ELSE events
    /\ UNCHANGED <<ui, overlay, device, record_cancel, record_prev_injection, history,
                   recorder, stream, daemon, setting>>

handle_record_event ==
    /\ Received("event")
    /\ events' = IF overlay = "record" /\ \A i \in DOMAIN events : events[i].code # Head(inbox).code
                 THEN Append(events, Head(inbox)) ELSE events
    /\ UNCHANGED <<ui, overlay, device, record_cancel, record_prev_injection, history,
                   recorder, stream, daemon, setting>>

handle_record_error == Received("error") /\ stop_recording("failed")

handle_record_stopped ==
    /\ Received("stopped")
    /\ record_cancel' = None
    /\ UNCHANGED <<ui, overlay, device, events, record_prev_injection, history,
                   recorder, stream, daemon, setting>>

-----------------------------------------------------------------------------
(* A recorder thread.                                                      *)
Goes(r, pc) == recorder' = [recorder EXCEPT ![r].pc = pc]
Tell(kind) == inbox' = Append(inbox, Message(kind, None, None))

(* The thread ends and closes its end of the connection.  The server only  *)
(* notices when it writes, if ever; its thread is not followed any further *)
(* because nobody reads what it writes.                                    *)
Ends(r) ==
    /\ recorder' = [recorder EXCEPT ![r] = Idle]
    /\ stream' = [stream EXCEPT ![r] = NoStream]

Connect(r) ==
    /\ recorder[r].pc = "connecting"
    /\ \/ /\ Goes(r, "checking")
          /\ stream' = [stream EXCEPT ![r] = Connection("asked", recorder[r].device, <<>>)]
          /\ UNCHANGED inbox
       \/ Faults /\ Ends(r) /\ Tell("error")
    /\ UNCHANGED <<uiVars, daemon, setting>>

CheckCancel(r) ==
    /\ recorder[r].pc = "checking"
    /\ IF recorder[r].cancelled
       THEN Ends(r) /\ Tell("stopped")
       ELSE Goes(r, "reading") /\ UNCHANGED <<inbox, stream>>
    /\ UNCHANGED <<uiVars, daemon, setting>>

(* Variant of ReadLine: an error does not end the recorder.                *)
ReadLineOn(r) ==
    /\ recorder[r].pc = "reading" /\ stream[r].lines # <<>>
    /\ inbox' = Append(inbox, Head(stream[r].lines))
    /\ stream' = [stream EXCEPT ![r].lines = Tail(@)]
    /\ Goes(r, "checking")
    /\ UNCHANGED <<uiVars, daemon, setting>>

(* read_line returns a line,                                               *)
ReadLine(r) ==
    /\ recorder[r].pc = "reading" /\ stream[r].lines # <<>>
    /\ inbox' = Append(inbox, Head(stream[r].lines))
    /\ stream' = [stream EXCEPT ![r].lines = Tail(@)]
    /\ Goes(r, IF Head(stream[r].lines).kind = "event" THEN "checking" ELSE "ending")
    /\ UNCHANGED <<uiVars, daemon, setting>>

(* Variant of ReadTimesOut: there is no timeout.                           *)
ReadBlocks(r) == FALSE /\ UNCHANGED vars

(* or its timeout has passed,                                              *)
ReadTimesOut(r) ==
    /\ recorder[r].pc = "reading" /\ stream[r].lines = <<>> /\ stream[r].at # "closed"
    /\ Goes(r, "checking")
    /\ UNCHANGED <<uiVars, inbox, stream, daemon, setting>>

(* or the connection was closed.                                           *)
EndRecording(r) ==
    /\ \/ recorder[r].pc = "ending"
       \/ recorder[r].pc = "reading" /\ stream[r].lines = <<>> /\ stream[r].at = "closed"
    /\ Ends(r) /\ Tell("stopped")
    /\ UNCHANGED <<uiVars, daemon, setting>>

-----------------------------------------------------------------------------
(* The server.                                                             *)

(* Variant of handle_record: another device is found than the one named.   *)
RecordAnyDevice(r) ==
    /\ stream[r].at = "asked"
    /\ \E d \in plugged :
        stream' = [stream EXCEPT ![r] = Connection("open", d, <<>>)]
    /\ UNCHANGED <<uiVars, inbox, recorder, daemon, setting>>

(* handle_record: finds and opens the device, or says that it cannot and   *)
(* closes the connection.                                                  *)
handle_record(r) ==
    /\ stream[r].at = "asked"
    /\ stream' = [stream EXCEPT ![r] =
        IF @.device \in plugged THEN Connection("open", @.device, <<>>)
        ELSE Connection("closed", @.device, <<Message("error", None, None)>>)]
    /\ UNCHANGED <<uiVars, inbox, recorder, daemon, setting>>

Listening(r, d) == stream[r].at = "open" /\ stream[r].device = d

(* A key of a device that nobody has grabbed: every stream of that device  *)
(* writes it to its client.                                                *)
KeyPressed(d, c) ==
    /\ d \in plugged \ grabbed
    /\ \E r \in Recorders : Listening(r, d)
    /\ InTransit < MaxEvents
    /\ stream' = [r \in Recorders |->
        IF Listening(r, d) THEN [stream[r] EXCEPT !.lines = Append(@, Message("event", d, c))]
        ELSE stream[r]]
    /\ UNCHANGED <<uiVars, inbox, recorder, daemon, setting>>

(* The connection breaks: the daemon was restarted, with an empty table.   *)
DaemonRestarts ==
    /\ Faults /\ Shared # {}
    /\ table' = [d \in Devices |-> None] /\ grabbed' = {} /\ late' = {}
    /\ stream' = [r \in Recorders |->
        IF stream[r].at = "none" THEN NoStream ELSE [stream[r] EXCEPT !.at = "closed"]]
    /\ UNCHANGED <<uiVars, inbox, recorder, plugged, setting>>

(* Variant of Unplug: the read error is sent to the client.                *)
UnplugReported(d) ==
    /\ d \in Shared \cap plugged
    /\ plugged' = plugged \ {d} /\ grabbed' = grabbed \ {d}
    /\ stream' = [r \in Recorders |->
        IF Listening(r, d)
        THEN [stream[r] EXCEPT !.at = "closed", !.lines = Append(@, Message("error", None, None))]
        ELSE stream[r]]
    /\ UNCHANGED <<uiVars, inbox, recorder, table, late, setting>>

(* A device that is unplugged ends its injection, which stays in the table *)
(* (see InjectionDaemon); a stream goes on failing to read from it.        *)
Unplug(d) ==
    /\ d \in Shared \cap plugged
    /\ plugged' = plugged \ {d} /\ grabbed' = grabbed \ {d}
    /\ stream' = [r \in Recorders |->
        IF Listening(r, d) THEN [stream[r] EXCEPT !.at = "lost"] ELSE stream[r]]
    /\ UNCHANGED <<uiVars, inbox, recorder, table, late, setting>>

Plug(d) ==
    /\ d \in Shared \ plugged
    /\ plugged' = plugged \cup {d}
    /\ UNCHANGED <<uiVars, threads, table, grabbed, late, setting>>

-----------------------------------------------------------------------------
Key == OtherKey \/ start_recording \/ Enter \/ Escape

UiThread ==
    \/ StatusAnswered \/ StopAnswered \/ RestartAnswered
    \/ handle_record_event \/ handle_record_error \/ handle_record_stopped

Recorder(r) == Connect(r) \/ CheckCancel(r) \/ ReadLine(r) \/ ReadTimesOut(r) \/ EndRecording(r)

Next ==
    \/ Key \/ UiThread \/ ServeLate \/ Others \/ DaemonRestarts
    \/ \E r \in Recorders : Recorder(r) \/ handle_record(r)
    \/ \E d \in Devices : Plug(d) \/ Unplug(d) \/ \E c \in Codes : KeyPressed(d, c)

Spec == Init /\ [][Next]_vars

(* The kernel schedules the UI thread, the recorders and the server; users, *)
(* other clients and hotplug owe nothing.                                  *)
FairSpec ==
    /\ Spec
    /\ WF_vars(UiThread)
    /\ \A r \in Recorders : WF_vars(Recorder(r)) /\ WF_vars(handle_record(r))

-----------------------------------------------------------------------------
(* Properties.                                                             *)

Messages == [kind : {"event", "error", "stopped"}, device : Devices \cup {None},
             code : Codes \cup {None}]
Requests == [at : {"stop", "start"}, device : Devices, preset : Presets,
             after : {None, "chosen", "escaped", "failed"}]
Injections == Devices \X Presets
RecorderStates == [pc : {"idle", "connecting", "checking", "reading", "ending"},
                   device : Devices \cup {None}, cancelled : BOOLEAN]
StreamStates == [at : {"none", "asked", "open", "lost", "closed"},
                 device : Devices \cup {None}, lines : Seq(Messages)]

(* The types of the state; no key is offered twice.                        *)
TypeOK ==
    /\ ui \in {Loop} \cup {Request("status", d, None, None) : d \in Devices} \cup Requests
    /\ overlay \in {"none", "record", "other"} /\ device \in Devices
    /\ events \in Seq(Messages) /\ inbox \in Seq(Messages)
    /\ \A i, j \in DOMAIN events : events[i].code = events[j].code => i = j
    /\ record_cancel \in Recorders \cup {None}
    /\ record_prev_injection \in Injections \cup {None}
    /\ owed \subseteq Injections /\ refused \subseteq Injections
    /\ recorder \in [Recorders -> RecorderStates] /\ stream \in [Recorders -> StreamStates]
    /\ table \in [Devices -> Presets \cup {None}]
    /\ grabbed \subseteq plugged /\ plugged \subseteq Devices
    /\ late \subseteq Requests /\ setting \in Settings

(* src/tui/app.rs:843 "Restart injection if it was running before          *)
(* recording": whether the recording ends by a choice, by Esc, by an error *)
(* of this or of an earlier recorder or by the loss of the connection, the *)
(* injection is asked for.  Until its restart is answered with Ok the UI   *)
(* remembers it while it records, or waits for the answer; there is one    *)
(* other way out: the daemon refused to start it again, or did not answer. *)
OwedIsKept ==
    \A i \in owed :
        \/ record_prev_injection = i /\ overlay = "record"
        \/ ui.at = "start" /\ <<ui.device, ui.preset>> = i
        \/ i \in refused

(* Nobody else at work, and nothing failing: recording leaves the daemon's *)
(* table as it was, for every device and preset.                           *)
TableRestored ==
    Shared = {} /\ ~Faults /\ InLoop /\ overlay # "record" => table = setting.table

(* While keys are recorded no injection keeps them from the recorder.      *)
RecordedDeviceFree ==
    Shared = {} /\ ~Faults /\ InLoop /\ overlay = "record" => device \notin grabbed

(* The keys offered are keys of the device that is shown, although the UI  *)
(* does not tell the messages of one recorder from those of another.       *)
OwnEvents ==
    Patient => \A i \in DOMAIN events : overlay = "record" => events[i].device = device

(* A message of a recorder never closes the dialog that the user went on   *)
(* to, although handle_record_error closes whatever is open.               *)
DialogsKept ==
    [][Patient /\ overlay = "other" /\ Len(inbox') < Len(inbox) => overlay' = "other"]_vars

(* src/tui/app.rs:781 "Set a read timeout so we can check the cancel flag  *)
(* periodically": once no recording is shown, every recorder that still    *)
(* runs was cancelled or is ending.                                        *)
NoStrayRecorder ==
    InLoop /\ overlay # "record" =>
        \A r \in Recorders : recorder[r].cancelled \/ recorder[r].pc \in {"idle", "ending"}
PatientNoStray == Patient => NoStrayRecorder

(* A recording that is over is soon over for its thread too, also when no  *)
(* key is pressed any more or the device or the daemon is gone.            *)
RecordersEnd ==
    Patient /\ InLoop /\ overlay # "record" ~>
        overlay = "record" \/ \A r \in Recorders : ~Running(r)

-----------------------------------------------------------------------------
(* Inductive strengthenings.                                               *)

(* What is owed and not refused is what the UI remembers, or asks for.     *)
Asked == IF ui.at = "start" THEN <<ui.device, ui.preset>> ELSE record_prev_injection
OwedShape ==
    /\ owed \ refused = {Asked} \ {None}
    /\ ui.at \in {"status", "stop"} => overlay = "none" /\ ui.device = device
    /\ record_prev_injection # None \/ record_cancel # None => InLoop /\ overlay = "record"

(* Undisturbed, the table differs from the one at the start by what the UI *)
(* will ask for, and exactly what is in the table is grabbed.              *)
CalmShape ==
    Shared = {} /\ ~Faults =>
        /\ plugged = Devices /\ late = {}
        /\ grabbed = {d \in Devices : table[d] # None}
        /\ Asked = None => table = setting.table
        /\ Asked # None => /\ table = [setting.table EXCEPT ![Asked[1]] = None]
                           /\ setting.table[Asked[1]] = Asked[2]
        /\ ui.at = "stop" => table[device] = ui.preset
        /\ InLoop /\ overlay = "record" => table[device] = None

(* A connection is that of a running recorder, for its device; an error on *)
(* it comes from a server that has closed it.                              *)
Has(messages, kind) == \E i \in DOMAIN messages : messages[i].kind = kind
EventsOf(messages, d) ==
    \A i \in DOMAIN messages : messages[i].kind = "event" => messages[i].device = d

StreamFits(r) ==
    /\ recorder[r].pc \in {"idle", "connecting"} => stream[r] = NoStream
    /\ recorder[r].pc = "ending" => stream[r].at = "closed"
    /\ stream[r].at # "none" => stream[r].device = recorder[r].device
    /\ stream[r].at \in {"none", "asked"} => stream[r].lines = <<>>
    /\ EventsOf(stream[r].lines, recorder[r].device) /\ ~Has(stream[r].lines, "stopped")
    /\ Has(stream[r].lines, "error") => stream[r].at = "closed"
StreamShape == \A r \in Recorders : StreamFits(r)

(* If the user waits there is one recorder at most, and all that is on its *)
(* way comes from it; once it has stopped nothing more comes.              *)
PatientShape ==
    Patient =>
        /\ ui.at \in {"status", "stop"} => Quiet
        /\ \A r, s \in Recorders : Running(r) /\ Running(s) => r = s
        /\ \A r \in Recorders : Running(r) =>
                /\ recorder[r].device = device /\ ~Has(inbox, "stopped")
                /\ record_cancel = r \/ recorder[r].cancelled \/ recorder[r].pc = "ending"
        /\ EventsOf(inbox, device)
        /\ overlay = "record" => \A i \in DOMAIN events : events[i].device = device

(* Then an error comes before any key was recorded or not at all.          *)
ErrorComes ==
    \/ Has(inbox, "error")
    \/ \E r \in Recorders : \/ recorder[r].pc = "connecting" \/ stream[r].at = "asked"
                            \/ Has(stream[r].lines, "error")
ErrorShape ==
    Patient /\ ErrorComes =>
        /\ events = <<>> /\ ~Has(inbox, "event") /\ overlay # "other"
        /\ ui.at = "start" => ui.after # "chosen"
        /\ \A r \in Recorders :
                /\ ~Has(stream[r].lines, "event")
                /\ Has(inbox, "error") => recorder[r].pc \in {"idle", "ending"}

RecordingInv == OwedShape /\ CalmShape /\ StreamShape /\ PatientShape /\ ErrorShape
=============================================================================

-------------------------- MODULE RecordingProofs ---------------------------
(***************************************************************************)
(* The safety of Recording, for any devices, presets, keys, recorders and  *)
(* settings.                                                               *)
(***************************************************************************)
EXTENDS Recording, TLAPS

LEMMA TypeInit == Init => TypeOK
<1> SUFFICES ASSUME Init PROVE TypeOK
  OBVIOUS
<1>1. Idle \in RecorderStates /\ NoStream \in StreamStates
  BY DEF Idle, NoStream, Connection, RecorderStates, StreamStates
<1>2. recorder \in [Recorders -> RecorderStates] /\ stream \in [Recorders -> StreamStates]
  BY <1>1 DEF Init
<1>3. setting \in Settings /\ table \in [Devices -> Presets \cup {None}]
  BY RecordingAssumption DEF Init
<1> QED  BY <1>2, <1>3 DEF Init, TypeOK, Injections

(* Records with a field changed.                                           *)
LEMMA RecorderExcept ==
    ASSUME NEW x \in RecorderStates
    PROVE  /\ \A pc : [x EXCEPT !.pc = pc] =
                        [pc |-> pc, device |-> x.device, cancelled |-> x.cancelled]
           /\ \A v : [x EXCEPT !.cancelled = v] =
                        [pc |-> x.pc, device |-> x.device, cancelled |-> v]
<1>1. x = [pc |-> x.pc, device |-> x.device, cancelled |-> x.cancelled]
  BY DEF RecorderStates
<1>2. \A a, b, c, pc : [[pc |-> a, device |-> b, cancelled |-> c] EXCEPT !.pc = pc] =
                            [pc |-> pc, device |-> b, cancelled |-> c]
  OBVIOUS
<1>3. \A a, b, c, v : [[pc |-> a, device |-> b, cancelled |-> c] EXCEPT !.cancelled = v] =
                            [pc |-> a, device |-> b, cancelled |-> v]
  OBVIOUS
<1> QED  BY <1>1, <1>2, <1>3

LEMMA StreamExcept ==
    ASSUME NEW x \in StreamStates
    PROVE  /\ \A at : [x EXCEPT !.at = at] = Connection(at, x.device, x.lines)
           /\ \A lines : [x EXCEPT !.lines = lines] = Connection(x.at, x.device, lines)
<1>1. x = [at |-> x.at, device |-> x.device, lines |-> x.lines]
  BY DEF StreamStates
<1>2. \A a, b, c, at : [[at |-> a, device |-> b, lines |-> c] EXCEPT !.at = at] =
                            [at |-> at, device |-> b, lines |-> c]
  OBVIOUS
<1>3. \A a, b, c, lines : [[at |-> a, device |-> b, lines |-> c] EXCEPT !.lines = lines] =
                            [at |-> a, device |-> b, lines |-> lines]
  OBVIOUS
<1> QED  BY <1>1, <1>2, <1>3 DEF Connection

(* What the steps of a recorder do to it,                                  *)
LEMMA GoesEffect ==
    ASSUME TypeOK, NEW r \in Recorders,
           NEW pc \in {"idle", "connecting", "checking", "reading", "ending"}, Goes(r, pc)
    PROVE  /\ recorder' \in [Recorders -> RecorderStates]
           /\ recorder'[r].pc = pc /\ recorder'[r].device = recorder[r].device
           /\ recorder'[r].cancelled = recorder[r].cancelled
           /\ \A s \in Recorders \ {r} : recorder'[s] = recorder[s]
<1>1. recorder[r] \in RecorderStates
  BY DEF TypeOK
<1>2. recorder' = [recorder EXCEPT ![r] =
                [pc |-> pc, device |-> recorder[r].device, cancelled |-> recorder[r].cancelled]]
  BY <1>1, RecorderExcept DEF Goes
<1> QED BY <1>1, <1>2 DEF TypeOK, RecorderStates

LEMMA EndsEffect ==
    ASSUME TypeOK, NEW r \in Recorders, Ends(r)
    PROVE  /\ recorder' \in [Recorders -> RecorderStates]
           /\ stream' \in [Recorders -> StreamStates]
           /\ recorder'[r] = Idle /\ stream'[r] = NoStream
           /\ \A s \in Recorders \ {r} : recorder'[s] = recorder[s] /\ stream'[s] = stream[s]
  BY DEF Ends, TypeOK, RecorderStates, StreamStates, Idle, NoStream, Connection

(* what cancelling does to the recorders,                                  *)
LEMMA CancelEffect ==
    ASSUME TypeOK, Cancel
    PROVE  /\ recorder' \in [Recorders -> RecorderStates]
           /\ \A r \in Recorders :
                /\ recorder'[r].pc = recorder[r].pc /\ recorder'[r].device = recorder[r].device
                /\ recorder'[r].cancelled = (recorder[r].cancelled \/ r = record_cancel)
<1>1. CASE record_cancel = None
  BY <1>1, RecordingAssumption DEF Cancel, TypeOK, RecorderStates
<1>2. CASE record_cancel # None
  <2>1. recorder[record_cancel] \in RecorderStates
    BY <1>2 DEF TypeOK
  <2>2. recorder' = [recorder EXCEPT ![record_cancel] =
                [pc |-> recorder[record_cancel].pc, device |-> recorder[record_cancel].device,
                 cancelled |-> TRUE]]
    BY <1>2, <2>1, RecorderExcept DEF Cancel
  <2> QED  BY <1>2, <2>1, <2>2 DEF TypeOK, RecorderStates
<1> QED  BY <1>1, <1>2

(* and what a connection becomes.                                          *)
LEMMA ConnectionType ==
    ASSUME NEW at \in {"none", "asked", "open", "lost", "closed"},
           NEW d \in Devices \cup {None}, NEW lines \in Seq(Messages)
    PROVE  Connection(at, d, lines) \in StreamStates
  BY DEF Connection, StreamStates

LEMMA ReadLineEffect ==
    ASSUME TypeOK, NEW r \in Recorders, ReadLine(r)
    PROVE  /\ stream' \in [Recorders -> StreamStates]
           /\ stream'[r] = Connection(stream[r].at, stream[r].device, Tail(stream[r].lines))
           /\ \A s \in Recorders \ {r} : stream'[s] = stream[s]
<1>1. stream[r] \in StreamStates /\ Tail(stream[r].lines) \in Seq(Messages)
  BY DEF TypeOK, StreamStates, ReadLine
<1>2. stream' = [stream EXCEPT ![r] =
                    Connection(stream[r].at, stream[r].device, Tail(stream[r].lines))]
  BY <1>1, StreamExcept DEF ReadLine
<1>3. Connection(stream[r].at, stream[r].device, Tail(stream[r].lines)) \in StreamStates
  BY <1>1, ConnectionType DEF StreamStates
<1> QED  BY <1>2, <1>3 DEF TypeOK

LEMMA handle_recordEffect ==
    ASSUME TypeOK, NEW r \in Recorders, handle_record(r)
    PROVE  /\ stream' \in [Recorders -> StreamStates]
           /\ stream'[r] \in
                {Connection("open", stream[r].device, <<>>),
                 Connection("closed", stream[r].device, <<Message("error", None, None)>>)}
           /\ \A s \in Recorders \ {r} : stream'[s] = stream[s]
<1>1. /\ stream[r].device \in Devices \cup {None}
      /\ <<>> \in Seq(Messages) /\ <<Message("error", None, None)>> \in Seq(Messages)
  BY DEF TypeOK, StreamStates, Message, Messages
<1>2. /\ Connection("open", stream[r].device, <<>>) \in StreamStates
      /\ Connection("closed", stream[r].device, <<Message("error", None, None)>>) \in StreamStates
  BY <1>1, ConnectionType
<1> QED  BY <1>2 DEF handle_record, TypeOK

LEMMA KeyPressedEffect ==
    ASSUME TypeOK, NEW d \in Devices, NEW c \in Codes, KeyPressed(d, c)
    PROVE  /\ stream' \in [Recorders -> StreamStates]
           /\ \A r \in Recorders :
                stream'[r] = IF Listening(r, d)
                             THEN Connection("open", d,
                                             Append(stream[r].lines, Message("event", d, c)))
                             ELSE stream[r]
<1>1. ASSUME NEW r \in Recorders, Listening(r, d)
      PROVE  /\ Connection("open", d, Append(stream[r].lines, Message("event", d, c)))
                    \in StreamStates
             /\ stream'[r] = Connection("open", d,
                                        Append(stream[r].lines, Message("event", d, c)))
  <2>1. stream[r] \in StreamStates
    BY DEF TypeOK
  <2>2. Append(stream[r].lines, Message("event", d, c)) \in Seq(Messages)
    BY <2>1 DEF StreamStates, Message, Messages
  <2>3. stream'[r] = [stream[r] EXCEPT !.lines = Append(@, Message("event", d, c))]
    BY <1>1 DEF KeyPressed
  <2> QED  BY <1>1, <2>1, <2>2, <2>3, StreamExcept, ConnectionType DEF Listening
<1> QED  BY <1>1 DEF KeyPressed, TypeOK

LEMMA DaemonRestartsEffect ==
    ASSUME TypeOK, DaemonRestarts
    PROVE  /\ stream' \in [Recorders -> StreamStates]
           /\ \A r \in Recorders :
                stream'[r] = IF stream[r].at = "none" THEN NoStream
                             ELSE Connection("closed", stream[r].device, stream[r].lines)
<1>1. ASSUME NEW r \in Recorders
      PROVE  /\ [stream[r] EXCEPT !.at = "closed"] =
                    Connection("closed", stream[r].device, stream[r].lines)
             /\ Connection("closed", stream[r].device, stream[r].lines) \in StreamStates
  <2>1. stream[r] \in StreamStates
    BY DEF TypeOK
  <2> QED  BY <2>1, StreamExcept, ConnectionType DEF StreamStates
<1>2. NoStream \in StreamStates
  BY DEF NoStream, Connection, StreamStates
<1> QED  BY <1>1, <1>2 DEF DaemonRestarts

LEMMA UnplugEffect ==
    ASSUME TypeOK, NEW d \in Devices, Unplug(d)
    PROVE  /\ stream' \in [Recorders -> StreamStates]
           /\ \A r \in Recorders :
                stream'[r] = IF Listening(r, d) THEN Connection("lost", d, stream[r].lines)
                             ELSE stream[r]
<1>1. ASSUME NEW r \in Recorders, Listening(r, d)
      PROVE  /\ [stream[r] EXCEPT !.at = "lost"] = Connection("lost", d, stream[r].lines)
             /\ Connection("lost", d, stream[r].lines) \in StreamStates
  <2>1. stream[r] \in StreamStates
    BY DEF TypeOK
  <2> QED  BY <1>1, <2>1, StreamExcept, ConnectionType DEF StreamStates, Listening
<1> QED  BY <1>1 DEF Unplug, TypeOK

(* What a request that is served does to the table.                        *)
LEMMA PerformType ==
    ASSUME TypeOK, NEW request \in Requests, Perform(request), plugged' = plugged
    PROVE  table' \in [Devices -> Presets \cup {None}] /\ grabbed' \subseteq plugged'
  BY RecordingAssumption DEF TypeOK, Perform, Start, StartFails, Stop, Requests

LEMMA CallType ==
    ASSUME TypeOK, ui \in Requests, Call(ui)
    PROVE  /\ table' \in [Devices -> Presets \cup {None}]
           /\ grabbed' \subseteq plugged' /\ plugged' = plugged
           /\ late' \subseteq Requests
<1>1. Request(ui.at, ui.device, ui.preset, None) \in Requests
  BY DEF Request, Requests
<1> QED  BY <1>1, PerformType DEF TypeOK, Call, GivenUp

LEMMA RestartCalls == RestartAnswered => Call(ui)
  BY DEF RestartAnswered, Call, Perform

LEMMA TypeStep == TypeOK /\ [Next]_vars => TypeOK'
<1> SUFFICES ASSUME TypeOK, [Next]_vars PROVE TypeOK'
  OBVIOUS
<1> USE RecordingAssumption DEF uiVars, threads, daemon, history
<1>1. CASE UNCHANGED vars
  BY <1>1 DEF TypeOK, vars
<1>2. CASE OtherKey
  BY <1>2 DEF OtherKey, TypeOK
<1>3. CASE start_recording
  BY <1>3 DEF start_recording, TypeOK
<1>4. ASSUME NEW after \in {"chosen", "escaped", "failed"}, InLoop, stop_recording(after),
             inbox' = inbox \/ inbox' \in Seq(Messages)
      PROVE  TypeOK'
  <2>1. recorder' \in [Recorders -> RecorderStates]
    BY <1>4, CancelEffect DEF stop_recording
  <2>2. ui' \in {Loop} \cup Requests
    BY <1>4 DEF stop_recording, TypeOK, Injections, Request, Requests, InLoop, Loop
  <2>3. events' = events \/ events' = <<>>
    BY <1>4 DEF stop_recording, Leave
  <2>4. overlay' \in {"none", "record", "other"}
    BY <1>4 DEF stop_recording, Leave, TypeOK
  <2>5. /\ record_cancel' = None /\ record_prev_injection' = None
        /\ UNCHANGED <<device, stream, history, daemon, setting>>
    BY <1>4 DEF stop_recording, Cancel
  <2>6. events' \in Seq(Messages) /\ inbox' \in Seq(Messages)
    <3>1. events \in Seq(Messages) /\ inbox \in Seq(Messages) /\ <<>> \in Seq(Messages)
      BY DEF TypeOK
    <3> QED  BY <1>4, <2>3, <3>1
  <2>7. \A i, j \in DOMAIN events' : events'[i].code = events'[j].code => i = j
    BY <2>3 DEF TypeOK
  <2>8. /\ device' \in Devices /\ stream' \in [Recorders -> StreamStates]
        /\ owed' \subseteq Injections /\ refused' \subseteq Injections
        /\ record_prev_injection' \in Injections \cup {None}
        /\ record_cancel' \in Recorders \cup {None}
    BY <2>5 DEF TypeOK, history
  <2>9. /\ table' \in [Devices -> Presets \cup {None}]
        /\ grabbed' \subseteq plugged' /\ plugged' \subseteq Devices
        /\ late' \subseteq Requests /\ setting' \in Settings
    BY <2>5 DEF TypeOK
  <2> QED  BY <2>1, <2>2, <2>4, <2>6, <2>7, <2>8, <2>9 DEF TypeOK
<1>5. CASE Enter
  BY <1>4, <1>5 DEF Enter
<1>6. CASE Escape
  BY <1>4, <1>6 DEF Escape
<1>7. CASE handle_record_error
  BY <1>4, <1>7 DEF handle_record_error, Received, TypeOK
<1>8. ASSUME NEW prev \in Injections \cup {None}, Record(prev), ui.device \in Devices,
             table' \in [Devices -> Presets \cup {None}], grabbed' \subseteq plugged',
             UNCHANGED <<plugged, setting>>, late' \subseteq Requests,
             owed' \subseteq Injections, refused' \subseteq Injections
      PROVE  TypeOK'
  <2>1. PICK r \in Recorders :
            /\ record_cancel' = r
            /\ recorder' = [recorder EXCEPT ![r] =
                    [pc |-> "connecting", device |-> ui.device, cancelled |-> FALSE]]
    BY <1>8 DEF Record
  <2>2. recorder' \in [Recorders -> RecorderStates]
    BY <1>8, <2>1 DEF TypeOK, RecorderStates
  <2> QED  BY <1>8, <2>1, <2>2 DEF Record, TypeOK
<1>9. CASE StatusAnswered
  <2>1. ui.device \in Devices
    BY <1>9 DEF StatusAnswered, TypeOK, Loop, Request, Requests
  <2>2. CASE Record(None) /\ UNCHANGED <<history, daemon, setting>>
    BY <1>8, <2>1, <2>2 DEF TypeOK, history
  <2>3. CASE /\ table[ui.device] # None
             /\ ui' = Request("stop", ui.device, table[ui.device], None)
             /\ UNCHANGED <<overlay, device, events, record_cancel, record_prev_injection, history,
                            threads, daemon, setting>>
    <3>1. ui' \in Requests
      BY <2>1, <2>3 DEF TypeOK, Request, Requests
    <3> QED  BY <2>3, <3>1 DEF TypeOK
  <2> QED  BY <1>9, <2>2, <2>3 DEF StatusAnswered
<1>10. CASE StopAnswered
  <2>1. ui \in Requests
    BY <1>10 DEF StopAnswered, TypeOK, Loop, Request
  <2>2. <<ui.device, ui.preset>> \in Injections /\ ui.device \in Devices
    BY <2>1 DEF Requests, Injections
  <2>3. /\ Call(ui) /\ Record(<<ui.device, ui.preset>>)
        /\ owed' = owed \cup {<<ui.device, ui.preset>>}
        /\ refused' = refused \ {<<ui.device, ui.preset>>} /\ setting' = setting
    BY <1>10 DEF StopAnswered
  <2>4. owed' \subseteq Injections /\ refused' \subseteq Injections
    BY <2>2, <2>3 DEF TypeOK
  <2> QED  BY <1>8, <2>1, <2>2, <2>3, <2>4, CallType
<1>11. CASE RestartAnswered
  <2>1. ui \in Requests
    BY <1>11 DEF RestartAnswered, TypeOK, Loop, Request
  <2>2. /\ table' \in [Devices -> Presets \cup {None}] /\ grabbed' \subseteq plugged'
        /\ plugged' = plugged /\ late' \subseteq Requests
    BY <1>11, <2>1, RestartCalls, CallType
  <2>3. /\ ui' = Loop /\ events' = <<>> /\ overlay' \in {"none", "other"}
        /\ UNCHANGED <<device, record_cancel, record_prev_injection, threads, setting>>
    BY <1>11 DEF RestartAnswered, Leave
  <2>4. owed' \subseteq Injections /\ refused' \subseteq Injections
    <3>1. <<ui.device, ui.preset>> \in Injections
      BY <2>1 DEF Requests, Injections
    <3> QED  BY <1>11, <3>1 DEF RestartAnswered, TypeOK
  <2> QED  BY <2>2, <2>3, <2>4 DEF TypeOK
<1>12. CASE handle_record_event
  BY <1>12 DEF handle_record_event, Received, TypeOK
<1>13. CASE handle_record_stopped
  BY <1>13 DEF handle_record_stopped, Received, TypeOK
<1>14. CASE ServeLate
  BY <1>14, PerformType DEF ServeLate, TypeOK
<1>15. CASE Others
  BY <1>15 DEF Others, Start, StartFails, Stop, TypeOK
<1>16. CASE DaemonRestarts
  BY <1>16, DaemonRestartsEffect DEF DaemonRestarts, TypeOK
<1>17. ASSUME NEW r \in Recorders, Recorder(r) PROVE TypeOK'
  <2>1. \A kind \in {"error", "stopped"} : Tell(kind) => inbox' \in Seq(Messages)
    BY DEF Tell, Message, Messages, TypeOK
  <2>2. CASE Connect(r)
    <3>1. CASE /\ Goes(r, "checking")
               /\ stream' = [stream EXCEPT ![r] = Connection("asked", recorder[r].device, <<>>)]
               /\ inbox' = inbox
      <4>1. Connection("asked", recorder[r].device, <<>>) \in StreamStates
        BY DEF Connection, StreamStates, RecorderStates, TypeOK
      <4>2. stream' \in [Recorders -> StreamStates]
        BY <3>1, <4>1 DEF TypeOK
      <4> QED  BY <2>2, <3>1, <4>2, GoesEffect DEF Connect, TypeOK
    <3>2. CASE Ends(r) /\ Tell("error")
      BY <2>1, <2>2, <3>2, EndsEffect DEF Connect, TypeOK
    <3> QED  BY <2>2, <3>1, <3>2 DEF Connect
  <2>3. CASE CheckCancel(r)
    <3>1. CASE Ends(r) /\ Tell("stopped")
      BY <2>1, <2>3, <3>1, EndsEffect DEF CheckCancel, TypeOK
    <3>2. CASE Goes(r, "reading") /\ UNCHANGED <<inbox, stream>>
      BY <2>3, <3>2, GoesEffect DEF CheckCancel, TypeOK
    <3> QED  BY <2>3, <3>1, <3>2 DEF CheckCancel
  <2>4. CASE ReadLine(r)
    <3>1. recorder' \in [Recorders -> RecorderStates]
      BY <2>4, GoesEffect DEF ReadLine
    <3>2. inbox' \in Seq(Messages)
      BY <2>4 DEF ReadLine, TypeOK, StreamStates
    <3> QED  BY <2>4, <3>1, <3>2, ReadLineEffect DEF ReadLine, TypeOK
  <2>5. CASE ReadTimesOut(r)
    BY <2>5, GoesEffect DEF ReadTimesOut, TypeOK
  <2>6. CASE EndRecording(r)
    BY <2>1, <2>6, EndsEffect DEF EndRecording, TypeOK
  <2> QED  BY <1>17, <2>2, <2>3, <2>4, <2>5, <2>6 DEF Recorder
<1>18. ASSUME NEW r \in Recorders, handle_record(r) PROVE TypeOK'
  BY <1>18, handle_recordEffect DEF handle_record, TypeOK
<1>19. ASSUME NEW d \in Devices, Plug(d) PROVE TypeOK'
  BY <1>19 DEF Plug, TypeOK
<1>20. ASSUME NEW d \in Devices, Unplug(d) PROVE TypeOK'
  BY <1>20, UnplugEffect DEF Unplug, TypeOK
<1>21. ASSUME NEW d \in Devices, NEW c \in Codes, KeyPressed(d, c) PROVE TypeOK'
  BY <1>21, KeyPressedEffect DEF KeyPressed, TypeOK
<1> QED
  BY <1>1, <1>2, <1>3, <1>5, <1>6, <1>7, <1>9, <1>10, <1>11, <1>12, <1>13, <1>14, <1>15, <1>16,
     <1>17, <1>18, <1>19, <1>20, <1>21
     DEF Next, Key, UiThread

THEOREM TypeCorrect == Spec => []TypeOK
  BY TypeInit, TypeStep, PTL DEF Spec
-----------------------------------------------------------------------------
(* What is owed is what the UI remembers, or is asking for.                *)
LEMMA OwedStep == TypeOK /\ OwedShape /\ [Next]_vars => OwedShape'
<1> SUFFICES ASSUME TypeOK, OwedShape, [Next]_vars PROVE OwedShape'
  OBVIOUS
<1> USE DEF InLoop, Loop, Request
<1>1. CASE UNCHANGED uiVars
  BY <1>1 DEF OwedShape, Asked, uiVars, history
<1>2. CASE OtherKey
  BY <1>2 DEF OtherKey, OwedShape, Asked, history
<1>3. CASE start_recording
  BY <1>3 DEF start_recording, OwedShape, Asked, history
<1>4. ASSUME NEW after, InLoop, stop_recording(after) PROVE OwedShape'
  <2>1. /\ record_prev_injection' = None /\ record_cancel' = None
        /\ owed \ refused = {record_prev_injection} \ {None}
        /\ owed' = owed /\ refused' = refused
    BY <1>4 DEF stop_recording, Cancel, OwedShape, Asked, history
  <2>2. CASE record_prev_injection = None
    BY <1>4, <2>1, <2>2 DEF stop_recording, OwedShape, Asked
  <2>3. CASE record_prev_injection # None
    <3>1. record_prev_injection = <<record_prev_injection[1], record_prev_injection[2]>>
      BY <2>3 DEF TypeOK, Injections
    <3>2. ui' = [at |-> "start", device |-> record_prev_injection[1],
                 preset |-> record_prev_injection[2], after |-> after]
      BY <1>4, <2>3 DEF stop_recording
    <3>3. Asked' = record_prev_injection
      BY <3>1, <3>2 DEF Asked
    <3> QED  BY <2>1, <3>2, <3>3 DEF OwedShape
  <2> QED  BY <2>2, <2>3
<1>5. CASE Enter \/ Escape \/ handle_record_error
  BY <1>4, <1>5 DEF Enter, Escape, handle_record_error, Received
<1>6. CASE StatusAnswered
  BY <1>6, RecordingAssumption DEF StatusAnswered, Record, OwedShape, Asked, history, TypeOK
<1>7. CASE StopAnswered
  <2> DEFINE x == <<ui.device, ui.preset>>
  <2>1. /\ ui.at = "stop" /\ ui'.at = "loop" /\ overlay' = "record"
        /\ record_prev_injection' = x
        /\ owed' = owed \cup {x} /\ refused' = refused \ {x}
    BY <1>7 DEF StopAnswered, Record
  <2>2. owed \ refused = {}
    BY <2>1 DEF OwedShape, Asked
  <2>3. x # None
    BY <2>1, RecordingAssumption DEF TypeOK, Requests
  <2>4. Asked' = x
    BY <2>1 DEF Asked
  <2> QED  BY <2>1, <2>2, <2>3, <2>4 DEF OwedShape
<1>8. CASE RestartAnswered
  <2> DEFINE x == <<ui.device, ui.preset>>
  <2>1. /\ ui.at = "start" /\ ui'.at = "loop"
        /\ UNCHANGED <<record_cancel, record_prev_injection>>
        /\ \/ owed' = owed \ {x} /\ refused' = refused
           \/ owed' = owed /\ refused' = refused \cup {x}
    BY <1>8 DEF RestartAnswered
  <2>2. owed \ refused \subseteq {x} /\ record_prev_injection = None /\ record_cancel = None
    BY <2>1 DEF OwedShape, Asked
  <2>3. owed' \ refused' = {} /\ Asked' = None
    BY <2>1, <2>2 DEF Asked
  <2> QED  BY <2>1, <2>2, <2>3 DEF OwedShape
<1>9. CASE handle_record_event
  BY <1>9 DEF handle_record_event, OwedShape, Asked, history
<1>10. CASE handle_record_stopped
  BY <1>10 DEF handle_record_stopped, OwedShape, Asked, history
<1>11. CASE ServeLate \/ Others \/ DaemonRestarts
  BY <1>1, <1>11 DEF ServeLate, Others, DaemonRestarts
<1>12. ASSUME NEW r \in Recorders, Recorder(r) \/ handle_record(r) PROVE OwedShape'
  BY <1>1, <1>12
     DEF Recorder, Connect, CheckCancel, ReadLine, ReadTimesOut, EndRecording, handle_record
<1>13. ASSUME NEW d \in Devices, \/ Plug(d) \/ Unplug(d) \/ \E c \in Codes : KeyPressed(d, c)
       PROVE OwedShape'
  BY <1>1, <1>13 DEF Plug, Unplug, KeyPressed
<1> QED
  BY <1>1, <1>2, <1>3, <1>5, <1>6, <1>7, <1>8, <1>9, <1>10, <1>11, <1>12, <1>13
     DEF Next, Key, UiThread, vars

(* The circumstances stay as they are.                                     *)
LEMMA SettingKept == [Next]_vars => setting' = setting
  BY DEF Next, Key, UiThread, vars, OtherKey, start_recording, StatusAnswered, StopAnswered,
         RestartAnswered, Enter, Escape, stop_recording, handle_record_event,
         handle_record_error, handle_record_stopped, Recorder, Connect, CheckCancel, ReadLine,
         ReadTimesOut, EndRecording, handle_record, KeyPressed, DaemonRestarts, Unplug, Plug,
         ServeLate, Others

(* Undisturbed, the table differs from the one at the start by that.       *)
LEMMA CalmStep == TypeOK /\ OwedShape /\ CalmShape /\ [Next]_vars => CalmShape'
<1> SUFFICES ASSUME TypeOK, OwedShape, CalmShape, [Next]_vars,
                    Shared' = {}, ~Faults'
             PROVE  CalmShape'
  BY DEF CalmShape
<1> USE DEF InLoop, Loop, Request
<1>0. /\ setting' = setting /\ Shared = {} /\ ~Faults
      /\ plugged = Devices /\ late = {}
      /\ grabbed = {d \in Devices : table[d] # None}
  BY SettingKept DEF CalmShape, Shared, Faults
<1>1. CASE UNCHANGED <<uiVars, table, grabbed, plugged, late>>
  BY <1>0, <1>1 DEF CalmShape, Asked, uiVars, Shared, Faults
<1>2. CASE OtherKey
  BY <1>0, <1>2 DEF OtherKey, CalmShape, Asked, daemon
<1>3. CASE start_recording
  BY <1>0, <1>3 DEF start_recording, CalmShape, Asked, daemon
<1>4. ASSUME NEW after, InLoop, stop_recording(after) PROVE CalmShape'
  <2>1. /\ UNCHANGED <<device, table, grabbed, plugged, late>> /\ Asked' = Asked
        /\ ui'.at # "stop" /\ ~(ui'.at = "loop" /\ overlay' = "record")
    <3>1. CASE record_prev_injection = None
      BY <1>4, <3>1 DEF stop_recording, Cancel, Leave, Asked, daemon
    <3>2. CASE record_prev_injection # None
      <4>1. record_prev_injection = <<record_prev_injection[1], record_prev_injection[2]>>
        BY <3>2 DEF TypeOK, Injections
      <4> QED  BY <1>4, <3>2, <4>1 DEF stop_recording, Asked, daemon
    <3> QED  BY <3>1, <3>2
  <2> QED  BY <1>0, <2>1 DEF CalmShape
<1>5. CASE Enter \/ Escape \/ handle_record_error
  BY <1>4, <1>5 DEF Enter, Escape, handle_record_error, Received
<1>6. CASE StatusAnswered
  BY <1>0, <1>6 DEF StatusAnswered, Record, OwedShape, CalmShape, Asked, daemon
<1>7. CASE StopAnswered
  <2>1. /\ ui.at = "stop" /\ device' = device /\ ui.device = device /\ ui'.at = "loop"
        /\ Asked = None /\ Asked' = <<device, ui.preset>>
        /\ table' = [table EXCEPT ![device] = None] /\ grabbed' = grabbed \ {device}
        /\ plugged' = plugged /\ late' = late
    BY <1>0, <1>7 DEF StopAnswered, Call, GivenUp, Perform, Stop, Record, OwedShape, Asked
  <2>2. table = setting.table /\ table[device] = ui.preset /\ device \in Devices
    BY <1>0, <2>1 DEF CalmShape, TypeOK
  <2>3. table \in [Devices -> Presets \cup {None}]
    BY DEF TypeOK
  <2>4. grabbed' = {d \in Devices : table'[d] # None}
    BY <1>0, <2>1, <2>2, <2>3
  <2>5. table'[device] = None
    BY <2>1, <2>2, <2>3
  <2>6. ui.preset \in Presets
    BY <2>1 DEF TypeOK, Requests
  <2>7. Asked' # None /\ Asked'[1] = device /\ Asked'[2] = ui.preset
    BY <2>1, <2>2, <2>6, RecordingAssumption
  <2>8. table' = [setting'.table EXCEPT ![Asked'[1]] = None]
    BY <1>0, <2>1, <2>2, <2>7
  <2>9. setting'.table[Asked'[1]] = Asked'[2]
    BY <1>0, <2>2, <2>7
  <2> QED  BY <1>0, <2>1, <2>4, <2>5, <2>7, <2>8, <2>9 DEF CalmShape
<1>8. CASE RestartAnswered
  <2>1. /\ ui.at = "start" /\ ui' = Loop /\ overlay' # "record" /\ Asked' = None
        /\ Asked = <<ui.device, ui.preset>>
    BY <1>8 DEF RestartAnswered, Leave, OwedShape, Asked
  <2>2. ui.device \in Devices /\ ui.preset \in Presets
    BY <2>1 DEF TypeOK, Requests
  <2>10. /\ table' = [table EXCEPT ![ui.device] = ui.preset]
         /\ grabbed' = grabbed \cup {ui.device}
         /\ plugged' = plugged /\ late' = late
    BY <1>0, <1>8, <2>2 DEF RestartAnswered, Start, StartFails, GivenUp
  <2>3. Asked # None
    BY <2>1, <2>2, RecordingAssumption
  <2>4. /\ table = [setting.table EXCEPT ![ui.device] = None]
        /\ setting.table[ui.device] = ui.preset
    BY <1>0, <2>1, <2>3 DEF CalmShape
  <2>5. setting.table \in [Devices -> Presets \cup {None}]
    BY RecordingAssumption DEF TypeOK
  <2>6. table' = setting.table
    BY <1>0, <2>2, <2>4, <2>5, <2>10
  <2>7. grabbed' = {d \in Devices : table'[d] # None}
    BY <1>0, <2>2, <2>4, <2>5, <2>6, <2>10, RecordingAssumption
  <2> QED  BY <1>0, <2>1, <2>6, <2>7, <2>10 DEF CalmShape
<1>9. CASE handle_record_event
  BY <1>0, <1>9 DEF handle_record_event, CalmShape, Asked, daemon
<1>10. CASE handle_record_stopped
  BY <1>0, <1>10 DEF handle_record_stopped, CalmShape, Asked, daemon
<1>11. CASE ServeLate \/ Others \/ DaemonRestarts
  BY <1>0, <1>11 DEF ServeLate, Others, DaemonRestarts
<1>12. ASSUME NEW r \in Recorders, Recorder(r) \/ handle_record(r) PROVE CalmShape'
  BY <1>1, <1>12
     DEF Recorder, Connect, CheckCancel, ReadLine, ReadTimesOut, EndRecording, handle_record,
         daemon
<1>13. ASSUME NEW d \in Devices, \/ Plug(d) \/ Unplug(d) \/ \E c \in Codes : KeyPressed(d, c)
       PROVE CalmShape'
  BY <1>0, <1>1, <1>13 DEF Plug, Unplug, KeyPressed, daemon
<1> QED
  BY <1>1, <1>2, <1>3, <1>5, <1>6, <1>7, <1>8, <1>9, <1>10, <1>11, <1>12, <1>13
     DEF Next, Key, UiThread, vars, daemon

-----------------------------------------------------------------------------
(* What becomes of the messages when one is added or taken.                *)
LEMMA Added ==
    ASSUME NEW messages \in Seq(Messages), NEW m \in Messages
    PROVE  /\ \A kind : Has(Append(messages, m), kind) <=> Has(messages, kind) \/ m.kind = kind
           /\ \A d : EventsOf(Append(messages, m), d) <=>
                        EventsOf(messages, d) /\ (m.kind = "event" => m.device = d)
<1> DEFINE longer == Append(messages, m)
<1>1. /\ DOMAIN messages = 1..Len(messages) /\ DOMAIN longer = 1..(Len(messages) + 1)
      /\ Len(messages) \in Nat
      /\ \A i \in 1..Len(messages) : longer[i] = messages[i]
      /\ longer[Len(messages) + 1] = m
  OBVIOUS
<1> HIDE DEF longer
<1>2. \A i : i \in DOMAIN longer <=> i \in DOMAIN messages \/ i = Len(messages) + 1
  BY <1>1
<1>3. \A kind : Has(longer, kind) <=> Has(messages, kind) \/ m.kind = kind
  BY <1>1, <1>2 DEF Has
<1>4. \A d : EventsOf(longer, d) <=> EventsOf(messages, d) /\ (m.kind = "event" => m.device = d)
  BY <1>1, <1>2 DEF EventsOf
<1> QED  BY <1>3, <1>4 DEF longer

LEMMA Taken ==
    ASSUME NEW messages \in Seq(Messages), messages # <<>>
    PROVE  /\ Head(messages) \in Messages /\ Tail(messages) \in Seq(Messages)
           /\ \A kind : Has(messages, kind) <=>
                            Head(messages).kind = kind \/ Has(Tail(messages), kind)
           /\ \A d : EventsOf(messages, d) <=>
                        /\ Head(messages).kind = "event" => Head(messages).device = d
                        /\ EventsOf(Tail(messages), d)
<1> DEFINE rest == Tail(messages)
<1>1. /\ DOMAIN messages = 1..Len(messages) /\ DOMAIN rest = 1..(Len(messages) - 1)
      /\ Len(messages) \in Nat /\ Len(messages) > 0
      /\ \A i \in 1..(Len(messages) - 1) : rest[i] = messages[i + 1]
      /\ Head(messages) = messages[1] /\ rest \in Seq(Messages)
      /\ Head(messages) \in Messages
  OBVIOUS
<1> HIDE DEF rest
<1>2. /\ \A i \in DOMAIN rest : i + 1 \in DOMAIN messages /\ rest[i] = messages[i + 1]
      /\ \A i \in DOMAIN messages : i = 1 \/ (i - 1 \in DOMAIN rest /\ messages[i] = rest[i - 1])
      /\ 1 \in DOMAIN messages
  BY <1>1
<1>3. \A kind : Has(messages, kind) <=> Head(messages).kind = kind \/ Has(rest, kind)
  BY <1>1, <1>2 DEF Has
<1>4. \A d : EventsOf(messages, d) <=>
                /\ Head(messages).kind = "event" => Head(messages).device = d
                /\ EventsOf(rest, d)
  BY <1>1, <1>2 DEF EventsOf
<1> QED  BY <1>1, <1>3, <1>4 DEF rest

LEMMA NoMessages == \A kind, d : ~Has(<<>>, kind) /\ EventsOf(<<>>, d)
  BY DEF Has, EventsOf

(* A connection is that of a running recorder, for its device.             *)
LEMMA StreamStep == TypeOK /\ StreamShape /\ [Next]_vars => StreamShape'
<1> SUFFICES ASSUME TypeOK, StreamShape, [Next]_vars PROVE StreamShape'
  OBVIOUS
<1>1. ASSUME NEW s \in Recorders, stream'[s] = stream[s],
             recorder'[s].pc = recorder[s].pc, recorder'[s].device = recorder[s].device
      PROVE  StreamFits(s)'
  BY <1>1 DEF StreamShape, StreamFits
<1>2. CASE UNCHANGED <<recorder, stream>>
  BY <1>1, <1>2 DEF StreamShape
<1>3. CASE OtherKey \/ start_recording
  BY <1>2, <1>3 DEF OtherKey, start_recording, threads
<1>4. ASSUME NEW after, stop_recording(after) PROVE StreamShape'
  BY <1>1, <1>4, CancelEffect DEF stop_recording, StreamShape
<1>5. CASE Enter \/ Escape \/ handle_record_error
  BY <1>4, <1>5 DEF Enter, Escape, handle_record_error
<1>6. ASSUME NEW prev, Record(prev) PROVE StreamShape'
  <2>1. PICK r \in Recorders :
            /\ ~Running(r) /\ stream' = stream
            /\ recorder' = [recorder EXCEPT ![r] =
                    [pc |-> "connecting", device |-> ui.device, cancelled |-> FALSE]]
    BY <1>6 DEF Record
  <2>2. /\ recorder'[r].pc = "connecting"
        /\ \A s \in Recorders \ {r} : recorder'[s] = recorder[s]
    BY <2>1 DEF TypeOK
  <2>3. stream'[r] = NoStream
    BY <2>1 DEF StreamShape, StreamFits, Running
  <2>4. StreamFits(r)'
    BY <2>2, <2>3, NoMessages DEF StreamFits, NoStream, Connection
  <2>5. \A s \in Recorders \ {r} : StreamFits(s)'
    BY <1>1, <2>1, <2>2
  <2> QED  BY <2>4, <2>5 DEF StreamShape
<1>7. CASE StatusAnswered \/ StopAnswered
  BY <1>2, <1>6, <1>7 DEF StatusAnswered, StopAnswered, threads
<1>8. CASE RestartAnswered \/ handle_record_event \/ handle_record_stopped
  BY <1>2, <1>8 DEF RestartAnswered, handle_record_event, handle_record_stopped, threads
<1>9. CASE ServeLate \/ Others
  BY <1>2, <1>9 DEF ServeLate, Others, threads
<1>10. CASE DaemonRestarts
  <2> SUFFICES ASSUME NEW s \in Recorders PROVE StreamFits(s)'
    BY DEF StreamShape
  <2>1. CASE stream[s].at = "none"
    <3>1. stream'[s] = NoStream /\ recorder' = recorder
      BY <1>10, <2>1, DaemonRestartsEffect DEF DaemonRestarts
    <3>2. recorder[s].pc # "ending"
      BY <2>1 DEF StreamShape, StreamFits
    <3> QED  BY <3>1, <3>2, NoMessages DEF StreamFits, NoStream, Connection
  <2>2. CASE stream[s].at # "none"
    <3>1. /\ recorder' = recorder
          /\ stream'[s] = Connection("closed", stream[s].device, stream[s].lines)
      BY <1>10, <2>2, DaemonRestartsEffect DEF DaemonRestarts
    <3>2. recorder[s].pc \notin {"idle", "connecting"}
      BY <2>2 DEF StreamShape, StreamFits, NoStream, Connection
    <3> QED  BY <2>2, <3>1, <3>2 DEF StreamShape, StreamFits, Connection
  <2> QED  BY <2>1, <2>2
<1>11. ASSUME NEW r \in Recorders, Ends(r) PROVE StreamShape'
  <2>1. StreamFits(r)'
    BY <1>11, EndsEffect, NoMessages DEF StreamFits, Idle, NoStream, Connection
  <2>2. \A s \in Recorders \ {r} : StreamFits(s)'
    BY <1>1, <1>11, EndsEffect
  <2> QED  BY <2>1, <2>2 DEF StreamShape
<1>12. ASSUME NEW r \in Recorders, NEW pc \in {"checking", "reading"}, Goes(r, pc),
              stream' = stream, recorder[r].pc \in {"checking", "reading"}
       PROVE  StreamShape'
  <2>1. /\ recorder'[r].pc = pc /\ recorder'[r].device = recorder[r].device
        /\ \A s \in Recorders \ {r} : recorder'[s] = recorder[s]
    BY <1>12, GoesEffect
  <2>2. StreamFits(r)'
    BY <1>12, <2>1 DEF StreamShape, StreamFits
  <2>3. \A s \in Recorders \ {r} : StreamFits(s)'
    BY <1>1, <1>12, <2>1
  <2> QED  BY <2>2, <2>3 DEF StreamShape
<1>13. ASSUME NEW r \in Recorders, Connect(r) PROVE StreamShape'
  <2>1. CASE /\ Goes(r, "checking")
             /\ stream' = [stream EXCEPT ![r] = Connection("asked", recorder[r].device, <<>>)]
    <3>1. /\ recorder'[r].pc = "checking" /\ recorder'[r].device = recorder[r].device
          /\ stream'[r] = Connection("asked", recorder[r].device, <<>>)
          /\ \A s \in Recorders \ {r} : recorder'[s] = recorder[s] /\ stream'[s] = stream[s]
      <4>1. stream \in [Recorders -> StreamStates]
        BY DEF TypeOK
      <4> QED  BY <2>1, <4>1, GoesEffect
    <3>2. StreamFits(r)'
      BY <3>1, NoMessages DEF StreamFits, Connection
    <3> QED  BY <1>1, <3>1, <3>2 DEF StreamShape
  <2> QED  BY <1>11, <1>13, <2>1 DEF Connect
<1>14. ASSUME NEW r \in Recorders, CheckCancel(r) \/ ReadTimesOut(r) \/ EndRecording(r)
       PROVE  StreamShape'
  BY <1>11, <1>12, <1>14 DEF CheckCancel, ReadTimesOut, EndRecording
<1>15. ASSUME NEW r \in Recorders, ReadLine(r) PROVE StreamShape'
  <2> DEFINE lines == stream[r].lines
  <2>1. lines \in Seq(Messages) /\ lines # <<>> /\ recorder[r].pc = "reading"
    BY <1>15 DEF ReadLine, TypeOK, StreamStates
  <2>2. /\ recorder'[r].pc = IF Head(lines).kind = "event" THEN "checking" ELSE "ending"
        /\ recorder'[r].device = recorder[r].device
        /\ \A s \in Recorders \ {r} : recorder'[s] = recorder[s]
    <3>1. Goes(r, IF Head(lines).kind = "event" THEN "checking" ELSE "ending")
      BY <1>15 DEF ReadLine
    <3> QED  BY <3>1, GoesEffect
  <2>3. /\ stream'[r].at = stream[r].at /\ stream'[r].device = stream[r].device
        /\ stream'[r].lines = Tail(lines)
        /\ \A s \in Recorders \ {r} : stream'[s] = stream[s]
    <3>1. /\ stream'[r] = Connection(stream[r].at, stream[r].device, Tail(lines))
          /\ \A s \in Recorders \ {r} : stream'[s] = stream[s]
      BY <1>15, ReadLineEffect
    <3> QED  BY <3>1 DEF Connection
  <2>4. Head(lines).kind # "event" => stream[r].at = "closed"
    BY <2>1, Taken DEF StreamShape, StreamFits, Messages
  <2>5. stream[r].at \notin {"none", "asked"}
    BY <2>1 DEF StreamShape, StreamFits
  <2>6. StreamFits(r)'
    BY <2>1, <2>2, <2>3, <2>4, <2>5, Taken DEF StreamShape, StreamFits
  <2>7. \A s \in Recorders \ {r} : StreamFits(s)'
    BY <1>1, <2>2, <2>3
  <2> QED  BY <2>6, <2>7 DEF StreamShape
<1>16. ASSUME NEW r \in Recorders, handle_record(r) PROVE StreamShape'
  <2> DEFINE answer == Message("error", None, None)
  <2>1. /\ recorder' = recorder /\ stream[r].at = "asked"
        /\ stream[r].device = recorder[r].device
        /\ recorder[r].pc \notin {"idle", "connecting", "ending"}
    BY <1>16 DEF handle_record, StreamShape, StreamFits, NoStream, Connection
  <2>2. \A kind, d : (Has(<<answer>>, kind) <=> kind = "error") /\ EventsOf(<<answer>>, d)
    BY DEF Has, EventsOf, Message
  <2>3. StreamFits(r)'
    BY <1>16, <2>1, <2>2, handle_recordEffect, NoMessages DEF StreamFits, Connection
  <2>4. \A s \in Recorders \ {r} : StreamFits(s)'
    BY <1>1, <1>16, <2>1, handle_recordEffect
  <2> QED  BY <2>3, <2>4 DEF StreamShape
<1>17. ASSUME NEW d \in Devices, NEW c \in Codes, KeyPressed(d, c) PROVE StreamShape'
  <2> SUFFICES ASSUME NEW s \in Recorders PROVE StreamFits(s)'
    BY DEF StreamShape
  <2> DEFINE event == Message("event", d, c)
             lines == stream[s].lines
  <2>1. recorder' = recorder /\ event \in Messages /\ lines \in Seq(Messages)
    BY <1>17 DEF KeyPressed, Message, Messages, TypeOK, StreamStates
  <2>2. CASE Listening(s, d)
    <3>1. stream'[s] = Connection("open", d, Append(lines, event))
      BY <1>17, <2>2, KeyPressedEffect
    <3>2. /\ stream[s].at = "open" /\ d = recorder[s].device
          /\ recorder[s].pc \notin {"idle", "connecting", "ending"}
      BY <2>2 DEF Listening, StreamShape, StreamFits, NoStream, Connection
    <3>3. event.kind = "event" /\ event.device = d
      BY DEF Message
    <3> QED  BY <2>1, <3>1, <3>2, <3>3, Added DEF StreamShape, StreamFits, Connection
  <2>3. CASE ~Listening(s, d)
    BY <1>1, <1>17, <2>1, <2>3, KeyPressedEffect
  <2> QED  BY <2>2, <2>3
<1>18. ASSUME NEW d \in Devices, Unplug(d) PROVE StreamShape'
  <2> SUFFICES ASSUME NEW s \in Recorders PROVE StreamFits(s)'
    BY DEF StreamShape
  <2>1. recorder' = recorder
    BY <1>18 DEF Unplug
  <2>2. CASE Listening(s, d)
    <3>1. stream'[s] = Connection("lost", d, stream[s].lines)
      BY <1>18, <2>2, UnplugEffect
    <3>2. /\ stream[s].at = "open" /\ stream[s].device = d
          /\ recorder[s].pc \notin {"idle", "connecting", "ending"}
      BY <2>2 DEF Listening, StreamShape, StreamFits, NoStream, Connection
    <3> QED  BY <2>1, <3>1, <3>2 DEF StreamShape, StreamFits, Connection
  <2>3. CASE ~Listening(s, d)
    BY <1>1, <1>18, <2>1, <2>3, UnplugEffect
  <2> QED  BY <2>2, <2>3
<1>19. ASSUME NEW d \in Devices, Plug(d) PROVE StreamShape'
  BY <1>2, <1>19 DEF Plug, threads
<1> QED
  BY <1>2, <1>3, <1>5, <1>7, <1>8, <1>9, <1>10, <1>13, <1>14, <1>15, <1>16, <1>17, <1>18, <1>19
     DEF Next, Key, UiThread, Recorder, vars, threads

-----------------------------------------------------------------------------
(* A user who waits has one recorder at most.                              *)
LEMMA PatientStep ==
    TypeOK /\ OwedShape /\ StreamShape /\ PatientShape /\ [Next]_vars => PatientShape'
<1> SUFFICES ASSUME TypeOK, OwedShape, StreamShape, PatientShape, [Next]_vars, Patient'
             PROVE  PatientShape'
  BY DEF PatientShape
<1>0. Patient
  BY SettingKept DEF Patient
<1> USE DEF Running
<1>1. CASE UNCHANGED <<uiVars, inbox, recorder>>
  BY <1>0, <1>1 DEF PatientShape, uiVars, Quiet
<1>2. CASE OtherKey
  <2>1. CASE device' = device
    BY <1>0, <1>2, <2>1 DEF OtherKey, PatientShape, InLoop, threads
  <2>2. CASE device' # device
    <3>1. Quiet /\ overlay' = "none" /\ UNCHANGED <<ui, inbox, recorder>> /\ ui.at = "loop"
      BY <1>0, <1>2, <2>2 DEF OtherKey, InLoop, threads
    <3> QED  BY <3>1, NoMessages DEF PatientShape, Quiet
  <2> QED  BY <2>1, <2>2
<1>3. CASE start_recording
  <2>1. Quiet /\ UNCHANGED <<overlay, device, events, record_cancel, inbox, recorder>>
    BY <1>0, <1>3 DEF start_recording, threads
  <2> QED  BY <1>0, <2>1 DEF PatientShape, Quiet
<1>4. ASSUME NEW after, InLoop, stop_recording(after),
             \/ inbox' = inbox
             \/ inbox # <<>> /\ inbox' = Tail(inbox)
      PROVE  PatientShape'
  <2>1. \A r \in Recorders :
            /\ recorder'[r].pc = recorder[r].pc /\ recorder'[r].device = recorder[r].device
            /\ recorder'[r].cancelled = (recorder[r].cancelled \/ r = record_cancel)
    BY <1>4, CancelEffect DEF stop_recording
  <2>2. device' = device /\ ui'.at \notin {"status", "stop"}
    BY <1>4 DEF stop_recording, InLoop, Request
  <2>3. /\ EventsOf(inbox, device) => EventsOf(inbox', device)
        /\ Has(inbox', "stopped") => Has(inbox, "stopped")
    BY <1>4, Taken DEF TypeOK
  <2>4. overlay' = "record" => overlay = "record" /\ events' = events
    BY <1>4 DEF stop_recording, Leave
  <2> QED  BY <1>0, <2>1, <2>2, <2>3, <2>4 DEF PatientShape
<1>5. CASE Enter \/ Escape \/ handle_record_error
  BY <1>4, <1>5 DEF Enter, Escape, handle_record_error, Received
<1>6. ASSUME NEW prev, Record(prev), ui.at \in {"status", "stop"} PROVE PatientShape'
  <2>1. PICK r \in Recorders :
            /\ record_cancel' = r /\ UNCHANGED <<device, inbox>>
            /\ overlay' = "record" /\ events' = <<>> /\ ui' = Loop
            /\ recorder' = [recorder EXCEPT ![r] =
                    [pc |-> "connecting", device |-> ui.device, cancelled |-> FALSE]]
    BY <1>6 DEF Record
  <2>2. Quiet /\ ui.device = device
    BY <1>0, <1>6 DEF PatientShape, OwedShape
  <2>3. /\ recorder'[r].pc = "connecting" /\ recorder'[r].device = device
        /\ \A s \in Recorders \ {r} : recorder'[s].pc = "idle"
    BY <2>1, <2>2 DEF TypeOK, Quiet
  <2>4. inbox' = <<>> /\ device' = device /\ ui'.at = "loop"
    BY <2>1, <2>2 DEF Quiet, Loop
  <2> QED  BY <2>1, <2>3, <2>4, NoMessages DEF PatientShape
<1>7. CASE StatusAnswered
  <2>1. CASE UNCHANGED <<overlay, device, events, record_cancel, inbox, recorder>>
    BY <1>0, <1>7, <2>1 DEF StatusAnswered, PatientShape, Quiet
  <2> QED  BY <1>6, <1>7, <2>1 DEF StatusAnswered, threads
<1>8. CASE StopAnswered
  BY <1>6, <1>8 DEF StopAnswered
<1>9. CASE RestartAnswered
  <2>1. /\ UNCHANGED <<device, record_cancel, inbox, recorder>>
        /\ overlay' # "record" /\ ui'.at = "loop"
    BY <1>9 DEF RestartAnswered, Leave, Loop, threads
  <2> QED  BY <1>0, <2>1 DEF PatientShape
<1>10. CASE handle_record_event
  <2>1. /\ UNCHANGED <<ui, overlay, device, record_cancel, recorder>>
        /\ ui.at = "loop" /\ inbox # <<>> /\ Head(inbox).kind = "event" /\ inbox' = Tail(inbox)
        /\ events' = events \/ events' = Append(events, Head(inbox))
    BY <1>10 DEF handle_record_event, Received, InLoop
  <2>2. Head(inbox).device = device /\ EventsOf(inbox', device)
    BY <1>0, <2>1, Taken DEF PatientShape, TypeOK
  <2>3. Has(inbox', "stopped") => Has(inbox, "stopped")
    BY <2>1, Taken DEF TypeOK
  <2>4. events \in Seq(Messages) /\ Head(inbox) \in Messages
    BY <2>1, Taken DEF TypeOK
  <2>5. (\A i \in DOMAIN events : events[i].device = device) =>
            \A i \in DOMAIN events' : events'[i].device = device
    BY <2>1, <2>2, <2>4
  <2> QED  BY <1>0, <2>1, <2>2, <2>3, <2>5 DEF PatientShape
<1>11. CASE handle_record_stopped
  <2>1. /\ UNCHANGED <<ui, overlay, device, events, recorder>>
        /\ ui.at = "loop" /\ inbox # <<>> /\ Head(inbox).kind = "stopped"
        /\ inbox' = Tail(inbox)
    BY <1>11 DEF handle_record_stopped, Received, InLoop
  <2>2. Has(inbox, "stopped") /\ (EventsOf(inbox, device) => EventsOf(inbox', device))
    BY <2>1, Taken DEF TypeOK
  <2> QED  BY <1>0, <2>1, <2>2 DEF PatientShape
<1>12. CASE ServeLate \/ Others \/ DaemonRestarts
  BY <1>1, <1>12 DEF ServeLate, Others, DaemonRestarts, threads
<1>13. ASSUME NEW r \in Recorders, Running(r), UNCHANGED uiVars
       PROVE  /\ ui.at \notin {"status", "stop"} /\ UNCHANGED <<ui, overlay, device, events,
                                                                record_cancel>>
              /\ recorder[r].device = device /\ ~Has(inbox, "stopped")
              /\ \A s \in Recorders \ {r} : ~Running(s)
  BY <1>0, <1>13 DEF PatientShape, Quiet, uiVars
<1>14. ASSUME NEW r \in Recorders, Running(r), Ends(r),
              NEW kind \in {"error", "stopped"}, Tell(kind), UNCHANGED uiVars
       PROVE  PatientShape'
  <2>1. \A s \in Recorders : recorder'[s].pc = "idle"
    BY <1>13, <1>14, EndsEffect DEF Idle
  <2>2. EventsOf(inbox, device) => EventsOf(inbox', device)
    <3>1. Message(kind, None, None) \in Messages /\ Message(kind, None, None).kind # "event"
      BY <1>14 DEF Message, Messages
    <3> QED  BY <1>14, <3>1, Added DEF Tell, TypeOK
  <2> QED  BY <1>0, <1>13, <1>14, <2>1, <2>2 DEF PatientShape
<1>15. ASSUME NEW r \in Recorders, NEW pc \in {"checking", "reading", "ending"}, Goes(r, pc),
              Running(r), UNCHANGED uiVars, recorder[r].pc # "ending",
              inbox' = inbox \/ \E m \in Messages : /\ inbox' = Append(inbox, m)
                                                    /\ m.kind # "stopped"
                                                    /\ m.kind = "event" => m.device = device
       PROVE  PatientShape'
  <2>1. /\ recorder'[r].pc = pc /\ recorder'[r].device = recorder[r].device
        /\ recorder'[r].cancelled = recorder[r].cancelled
        /\ \A s \in Recorders \ {r} : recorder'[s] = recorder[s]
    BY <1>15, GoesEffect
  <2>2. /\ Has(inbox', "stopped") => Has(inbox, "stopped")
        /\ EventsOf(inbox, device) => EventsOf(inbox', device)
    <3>1. CASE inbox' = inbox
      BY <3>1
    <3>2. CASE inbox' # inbox
      <4>1. PICK m \in Messages : /\ inbox' = Append(inbox, m) /\ m.kind # "stopped"
                                  /\ m.kind = "event" => m.device = device
        BY <1>15, <3>2
      <4>2. inbox \in Seq(Messages)
        BY DEF TypeOK
      <4> QED  BY <4>1, <4>2, Added
    <3> QED  BY <3>1, <3>2
  <2>3. record_cancel' = r \/ recorder'[r].cancelled \/ recorder'[r].pc = "ending"
    <3>1. record_cancel' = record_cancel
      BY <1>15 DEF uiVars
    <3>2. record_cancel = r \/ recorder[r].cancelled
      BY <1>0, <1>15 DEF PatientShape
    <3> QED  BY <2>1, <3>1, <3>2
  <2>4. \A s \in Recorders \ {r} : recorder'[s].pc = "idle"
    BY <1>13, <1>15, <2>1
  <2>5. recorder'[r].device = device' /\ ~Has(inbox', "stopped")
    BY <1>13, <1>15, <2>1, <2>2
  <2>6. EventsOf(inbox', device') /\ ui'.at \notin {"status", "stop"}
    BY <1>0, <1>13, <1>15, <2>2 DEF PatientShape
  <2>7. overlay' = "record" => \A i \in DOMAIN events' : events'[i].device = device'
    BY <1>0, <1>13, <1>15 DEF PatientShape
  <2> QED  BY <2>3, <2>4, <2>5, <2>6, <2>7 DEF PatientShape
<1>16. ASSUME NEW r \in Recorders, Recorder(r) PROVE PatientShape'
  <2>1. CASE Connect(r)
    BY <1>14, <1>15, <2>1 DEF Connect
  <2>2. CASE CheckCancel(r)
    BY <1>14, <1>15, <2>2 DEF CheckCancel
  <2>3. CASE ReadLine(r)
    <3> DEFINE line == Head(stream[r].lines)
    <3>1. /\ recorder[r].pc = "reading" /\ UNCHANGED uiVars /\ inbox' = Append(inbox, line)
          /\ Goes(r, "checking") \/ Goes(r, "ending")
      BY <2>3 DEF ReadLine
    <3>2. line \in Messages /\ line.kind # "stopped"
      BY <2>3, Taken DEF ReadLine, StreamShape, StreamFits, TypeOK, StreamStates
    <3>3. line.kind = "event" => line.device = recorder[r].device
      BY <2>3, Taken DEF ReadLine, StreamShape, StreamFits, TypeOK, StreamStates
    <3>4. recorder[r].device = device
      BY <1>13, <3>1
    <3> QED  BY <1>15, <3>1, <3>2, <3>3, <3>4
  <2>4. CASE ReadTimesOut(r)
    BY <1>15, <2>4 DEF ReadTimesOut
  <2>5. CASE EndRecording(r)
    BY <1>14, <2>5 DEF EndRecording
  <2> QED  BY <1>16, <2>1, <2>2, <2>3, <2>4, <2>5 DEF Recorder
<1>17. ASSUME NEW r \in Recorders, handle_record(r) PROVE PatientShape'
  BY <1>1, <1>17 DEF handle_record
<1>18. ASSUME NEW d \in Devices, \/ Plug(d) \/ Unplug(d) \/ \E c \in Codes : KeyPressed(d, c)
       PROVE PatientShape'
  BY <1>1, <1>18 DEF Plug, Unplug, KeyPressed, threads
<1> QED
  BY <1>1, <1>2, <1>3, <1>5, <1>7, <1>8, <1>9, <1>10, <1>11, <1>12, <1>16, <1>17, <1>18
     DEF Next, Key, UiThread, vars, threads

-----------------------------------------------------------------------------
(* An error comes before any key was recorded or not at all.               *)
LEMMA ErrorStep ==
    /\ TypeOK /\ OwedShape /\ StreamShape /\ PatientShape /\ ErrorShape
    /\ [Next]_vars
    => ErrorShape'
<1> SUFFICES ASSUME TypeOK, OwedShape, StreamShape, PatientShape, ErrorShape, [Next]_vars,
                    Patient', ErrorComes'
             PROVE  ErrorShape'
  BY DEF ErrorShape
<1>0. Patient
  BY SettingKept DEF Patient
<1> USE DEF Running
(* A step after which no error is expected that was not expected before.   *)
<1>1. CASE UNCHANGED <<uiVars, threads>>
  BY <1>0, <1>1 DEF ErrorShape, ErrorComes, uiVars, threads
<1>2. ASSUME Quiet PROVE ~ErrorComes
  <2>1. \A r \in Recorders : stream[r] = NoStream /\ recorder[r].pc = "idle"
    BY <1>2 DEF Quiet, StreamShape, StreamFits
  <2> QED  BY <1>2, <2>1, NoMessages DEF Quiet, ErrorComes, NoStream, Connection
<1>3. CASE OtherKey
  <2>1. ErrorComes
    BY <1>3 DEF OtherKey, threads, ErrorComes
  <2>2. overlay \notin {"none", "record", "other"}
    BY <1>0, <1>2, <1>3, <2>1 DEF OtherKey, ErrorShape
  <2> QED  BY <2>2 DEF TypeOK
<1>4. CASE start_recording
  <2>1. ErrorComes
    BY <1>4 DEF start_recording, threads, ErrorComes
  <2> QED  BY <1>0, <1>2, <1>4, <2>1 DEF start_recording
<1>5. ASSUME UNCHANGED stream, inbox' = inbox \/ (inbox # <<>> /\ inbox' = Tail(inbox)),
             \A r \in Recorders : recorder'[r].pc = recorder[r].pc
      PROVE  /\ ErrorComes /\ events = <<>> /\ ~Has(inbox', "event") /\ overlay # "other"
             /\ ui.at = "start" => ui.after # "chosen"
             /\ \A r \in Recorders :
                    /\ ~Has(stream'[r].lines, "event")
                    /\ Has(inbox', "error") => recorder'[r].pc \in {"idle", "ending"}
  <2>1. \A kind : Has(inbox', kind) => Has(inbox, kind)
    BY <1>5, Taken DEF TypeOK
  <2>2. ErrorComes
    BY <1>5, <2>1 DEF ErrorComes
  <2> QED  BY <1>0, <1>5, <2>1, <2>2 DEF ErrorShape
<1>6. ASSUME NEW after \in {"chosen", "escaped", "failed"}, InLoop, stop_recording(after),
             inbox' = inbox \/ (inbox # <<>> /\ inbox' = Tail(inbox)),
             after = "chosen" => events # <<>>
      PROVE  ErrorShape'
  <2>1. UNCHANGED stream /\ \A r \in Recorders : recorder'[r].pc = recorder[r].pc
    BY <1>6, CancelEffect DEF stop_recording
  <2>2. after # "chosen" /\ events = <<>> /\ overlay # "other"
    BY <1>5, <1>6, <2>1
  <2>3. /\ events' = <<>> /\ overlay' # "other"
        /\ ui'.at = "start" => ui'.after # "chosen"
    BY <1>6, <2>2 DEF stop_recording, Leave, InLoop, Request
  <2> QED  BY <1>5, <1>6, <2>1, <2>3 DEF ErrorShape
<1>7. CASE Enter \/ Escape \/ handle_record_error
  <2>1. CASE Enter
    BY <1>6, <2>1 DEF Enter
  <2>2. CASE Escape
    BY <1>6, <2>2 DEF Escape
  <2>3. CASE handle_record_error
    BY <1>6, <2>3 DEF handle_record_error, Received
  <2> QED  BY <1>7, <2>1, <2>2, <2>3
<1>8. ASSUME NEW prev, Record(prev), ui.at \in {"status", "stop"} PROVE ErrorShape'
  <2>1. Quiet /\ UNCHANGED <<inbox, stream>> /\ events' = <<>> /\ overlay' = "record"
        /\ ui' = Loop
    BY <1>0, <1>8 DEF Record, PatientShape
  <2>2. \A r \in Recorders : stream'[r] = NoStream
    BY <2>1 DEF Quiet, StreamShape, StreamFits
  <2>3. inbox' = <<>>
    BY <2>1 DEF Quiet
  <2> QED  BY <2>1, <2>2, <2>3, NoMessages DEF ErrorShape, NoStream, Connection, Loop
<1>9. CASE StatusAnswered
  <2>1. CASE UNCHANGED threads /\ ui.at = "status"
    <3>1. Quiet /\ ErrorComes
      BY <1>0, <2>1 DEF PatientShape, threads, ErrorComes
    <3> QED  BY <1>2, <3>1
  <2> QED  BY <1>8, <1>9, <2>1 DEF StatusAnswered
<1>10. CASE StopAnswered
  BY <1>8, <1>10 DEF StopAnswered
<1>11. CASE RestartAnswered
  <2>1. UNCHANGED <<inbox, recorder, stream>>
    BY <1>11 DEF RestartAnswered, threads
  <2>2. ui.at = "start" /\ Leave(ui.after) /\ ui'.at = "loop"
    BY <1>11 DEF RestartAnswered, Loop
  <2>3. ui.after # "chosen"
    BY <1>5, <2>1, <2>2
  <2>4. overlay' # "other" /\ events' = <<>>
    BY <2>2, <2>3 DEF Leave
  <2> QED  BY <1>5, <2>1, <2>2, <2>4 DEF ErrorShape
<1>12. CASE handle_record_event
  <2>1. /\ UNCHANGED <<recorder, stream>> /\ inbox # <<>> /\ Head(inbox).kind = "event"
        /\ inbox' = Tail(inbox)
    BY <1>12 DEF handle_record_event, Received
  <2>2. Has(inbox, "event")
    BY <2>1, Taken DEF TypeOK
  <2>3. ErrorComes
    BY <1>5, <2>1
  <2> QED  BY <1>0, <2>2, <2>3 DEF ErrorShape
<1>13. CASE handle_record_stopped
  <2>1. /\ UNCHANGED <<ui, overlay, events, recorder, stream>> /\ inbox # <<>>
        /\ inbox' = Tail(inbox)
    BY <1>13 DEF handle_record_stopped, Received
  <2> QED  BY <1>5, <2>1 DEF ErrorShape
<1>14. CASE ServeLate \/ Others
  BY <1>1, <1>14 DEF ServeLate, Others
(* Daemon and server: the messages that were written stay.                 *)
<1>15. ASSUME UNCHANGED <<uiVars, inbox, recorder>>,
              \A r \in Recorders : /\ stream'[r].lines = stream[r].lines
                                   /\ stream'[r].at = "asked" => stream[r].at = "asked"
       PROVE  ErrorShape'
  <2>1. ErrorComes
    BY <1>15 DEF ErrorComes
  <2> QED  BY <1>0, <1>15, <2>1 DEF ErrorShape, uiVars
<1>16. CASE DaemonRestarts
  <2>1. UNCHANGED <<uiVars, inbox, recorder>>
    BY <1>16 DEF DaemonRestarts
  <2>2. ASSUME NEW r \in Recorders
        PROVE  stream'[r].lines = stream[r].lines /\ stream'[r].at # "asked"
    BY <1>16, DaemonRestartsEffect DEF StreamShape, StreamFits, NoStream, Connection
  <2> QED  BY <1>15, <2>1, <2>2
<1>17. ASSUME NEW d \in Devices, Unplug(d) PROVE ErrorShape'
  <2>1. UNCHANGED <<uiVars, inbox, recorder>>
    BY <1>17 DEF Unplug
  <2>2. ASSUME NEW r \in Recorders
        PROVE  /\ stream'[r].lines = stream[r].lines
               /\ stream'[r].at = "asked" => stream[r].at = "asked"
    <3>1. CASE Listening(r, d)
      <4>1. stream'[r] = Connection("lost", d, stream[r].lines)
        BY <1>17, <3>1, UnplugEffect
      <4> QED  BY <4>1 DEF Connection
    <3>2. CASE ~Listening(r, d)
      BY <1>17, <3>2, UnplugEffect
    <3> QED  BY <3>1, <3>2
  <2> QED  BY <1>15, <2>1, <2>2
<1>18. ASSUME NEW d \in Devices, Plug(d) PROVE ErrorShape'
  BY <1>1, <1>18 DEF Plug
<1>19. ASSUME NEW r \in Recorders, Running(r), ErrorComes
       PROVE  \/ recorder[r].pc = "connecting" \/ stream[r].at = "asked"
              \/ Has(stream[r].lines, "error") \/ recorder[r].pc = "ending"
  <2>1. \A s \in Recorders \ {r} : recorder[s].pc = "idle" /\ stream[s] = NoStream
    BY <1>0, <1>19 DEF PatientShape, StreamShape, StreamFits
  <2>2. \A s \in Recorders \ {r} : /\ recorder[s].pc # "connecting" /\ stream[s].at # "asked"
                                   /\ ~Has(stream[s].lines, "error")
    BY <2>1, NoMessages DEF NoStream, Connection
  <2>3. Has(inbox, "error") => recorder[r].pc \in {"idle", "ending"}
    BY <1>0, <1>19 DEF ErrorShape
  <2> QED  BY <1>19, <2>2, <2>3 DEF ErrorComes
<1>20. ASSUME NEW d \in Devices, NEW c \in Codes, KeyPressed(d, c) PROVE ErrorShape'
  <2> DEFINE event == Message("event", d, c)
  <2>1. UNCHANGED <<uiVars, inbox, recorder>> /\ event \in Messages /\ event.kind = "event"
    BY <1>20 DEF KeyPressed, Message, Messages
  <2>2. PICK r \in Recorders : Listening(r, d)
    BY <1>20 DEF KeyPressed
  <2>3. /\ recorder[r].pc \notin {"idle", "connecting", "ending"} /\ stream[r].at = "open"
        /\ ~Has(stream[r].lines, "error")
    BY <2>2 DEF Listening, StreamShape, StreamFits, NoStream, Connection
  <2>4. ~ErrorComes
    BY <1>19, <2>3
  <2>5. ASSUME NEW s \in Recorders
        PROVE  /\ stream'[s].at = stream[s].at
               /\ Has(stream'[s].lines, "error") => Has(stream[s].lines, "error")
    <3>1. CASE Listening(s, d)
      <4>1. stream'[s] = Connection("open", d, Append(stream[s].lines, event))
        BY <1>20, <3>1, KeyPressedEffect
      <4>2. stream[s].lines \in Seq(Messages) /\ stream[s].at = "open"
        BY <3>1 DEF TypeOK, StreamStates, Listening
      <4> QED  BY <2>1, <4>1, <4>2, Added DEF Connection
    <3>2. CASE ~Listening(s, d)
      BY <1>20, <3>2, KeyPressedEffect
    <3> QED  BY <3>1, <3>2
  <2>6. ErrorComes
    BY <2>1, <2>5 DEF ErrorComes
  <2> QED  BY <2>4, <2>6
<1>21. ASSUME NEW r \in Recorders, handle_record(r) PROVE ErrorShape'
  <2> DEFINE answer == Message("error", None, None)
  <2>1. UNCHANGED <<uiVars, inbox, recorder>> /\ ErrorComes
    BY <1>21 DEF handle_record, ErrorComes
  <2>2. ~Has(<<answer>>, "event")
    BY DEF Has, Message
  <2>3. ~Has(stream'[r].lines, "event")
    BY <1>21, <2>2, handle_recordEffect, NoMessages DEF Connection
  <2>4. \A s \in Recorders \ {r} : stream'[s] = stream[s]
    BY <1>21, handle_recordEffect
  <2> QED  BY <1>0, <2>1, <2>3, <2>4 DEF ErrorShape, uiVars
(* A recorder: only it runs.                                               *)
<1>22. ASSUME NEW r \in Recorders, Running(r), Ends(r), UNCHANGED uiVars,
              NEW kind \in {"error", "stopped"}, Tell(kind), ErrorComes
       PROVE  ErrorShape'
  <2>1. \A s \in Recorders : recorder'[s].pc = "idle" /\ stream'[s] = NoStream
    BY <1>0, <1>22, EndsEffect DEF PatientShape, StreamShape, StreamFits, Idle
  <2>2. Has(inbox', "event") => Has(inbox, "event")
    <3>1. Message(kind, None, None) \in Messages /\ Message(kind, None, None).kind # "event"
      BY <1>22 DEF Message, Messages
    <3> QED  BY <1>22, <3>1, Added DEF Tell, TypeOK
  <2> QED  BY <1>0, <1>22, <2>1, <2>2, NoMessages DEF ErrorShape, uiVars, NoStream, Connection
<1>23. ASSUME NEW r \in Recorders, Running(r), Ends(r), UNCHANGED uiVars, Tell("stopped")
       PROVE  ErrorShape'
  <2>1. Has(inbox', "error") => Has(inbox, "error")
    <3>1. /\ Message("stopped", None, None) \in Messages
          /\ Message("stopped", None, None).kind # "error"
      BY DEF Message, Messages
    <3> QED  BY <1>23, <3>1, Added DEF Tell, TypeOK
  <2>2. /\ recorder'[r] = Idle /\ stream'[r] = NoStream
        /\ \A s \in Recorders \ {r} : recorder'[s] = recorder[s] /\ stream'[s] = stream[s]
    BY <1>23, EndsEffect
  <2>3. /\ recorder'[r].pc # "connecting" /\ stream'[r].at # "asked"
        /\ ~Has(stream'[r].lines, "error")
    BY <2>2, NoMessages DEF Idle, NoStream, Connection
  <2>4. ErrorComes
    BY <2>1, <2>2, <2>3 DEF ErrorComes
  <2> QED  BY <1>22, <1>23, <2>4
<1>24. ASSUME NEW r \in Recorders, NEW pc \in {"checking", "reading"}, Goes(r, pc),
              UNCHANGED <<uiVars, inbox, stream>>, recorder[r].pc \in {"checking", "reading"}
       PROVE  ErrorShape'
  <2>1. /\ recorder'[r].pc = pc
        /\ \A s \in Recorders \ {r} : recorder'[s] = recorder[s]
    BY <1>24, GoesEffect
  <2>2. ErrorComes
    BY <1>24, <2>1 DEF ErrorComes
  <2> QED  BY <1>0, <1>24, <2>1, <2>2 DEF ErrorShape, uiVars
<1>25. ASSUME NEW r \in Recorders, Connect(r) PROVE ErrorShape'
  <2>1. ErrorComes /\ Running(r) /\ UNCHANGED uiVars /\ recorder[r].pc = "connecting"
    BY <1>25 DEF Connect, ErrorComes
  <2>2. ~Has(inbox, "error")
    BY <1>0, <2>1 DEF ErrorShape
  <2>3. CASE /\ Goes(r, "checking") /\ inbox' = inbox
             /\ stream' = [stream EXCEPT ![r] = Connection("asked", recorder[r].device, <<>>)]
    <3>1. /\ stream'[r] = Connection("asked", recorder[r].device, <<>>)
          /\ \A s \in Recorders \ {r} : stream'[s] = stream[s]
      BY <2>3 DEF TypeOK
    <3>2. ~Has(stream'[r].lines, "event")
      BY <3>1, NoMessages DEF Connection
    <3> QED  BY <1>0, <2>1, <2>2, <2>3, <3>1, <3>2 DEF ErrorShape, uiVars
  <2> QED  BY <1>22, <1>25, <2>1, <2>3 DEF Connect
<1>26. ASSUME NEW r \in Recorders, ReadLine(r) PROVE ErrorShape'
  <2> DEFINE lines == stream[r].lines
             line == Head(lines)
  <2>1. /\ recorder[r].pc = "reading" /\ UNCHANGED uiVars /\ inbox' = Append(inbox, line)
        /\ lines \in Seq(Messages) /\ lines # <<>> /\ inbox \in Seq(Messages)
    BY <1>26 DEF ReadLine, TypeOK, StreamStates
  <2>2. /\ line \in Messages /\ line.kind # "stopped"
        /\ \A kind : Has(lines, kind) <=> line.kind = kind \/ Has(Tail(lines), kind)
    BY <2>1, Taken DEF StreamShape, StreamFits
  <2>3. \A kind : Has(inbox', kind) <=> Has(inbox, kind) \/ line.kind = kind
    BY <2>1, <2>2, Added
  <2>4. /\ stream'[r].at = stream[r].at /\ stream'[r].lines = Tail(lines)
        /\ \A s \in Recorders \ {r} : stream'[s] = stream[s]
    <3>1. /\ stream'[r] = Connection(stream[r].at, stream[r].device, Tail(lines))
          /\ \A s \in Recorders \ {r} : stream'[s] = stream[s]
      BY <1>26, ReadLineEffect
    <3> QED  BY <3>1 DEF Connection
  <2>5. /\ recorder'[r].pc = IF line.kind = "event" THEN "checking" ELSE "ending"
        /\ \A s \in Recorders \ {r} : recorder'[s] = recorder[s]
    <3>1. Goes(r, IF line.kind = "event" THEN "checking" ELSE "ending")
      BY <1>26 DEF ReadLine
    <3> QED  BY <3>1, GoesEffect
  <2>6. CASE line.kind = "event"
    <3>1. ErrorComes
      BY <2>2, <2>3, <2>4, <2>5, <2>6 DEF ErrorComes
    <3>2. Has(lines, "event")
      BY <2>2, <2>6
    <3> QED  BY <1>0, <3>1, <3>2 DEF ErrorShape
  <2>7. CASE line.kind = "error"
    <3>1. ErrorComes
      BY <2>2, <2>7 DEF ErrorComes
    <3>2. \A s \in Recorders : recorder'[s].pc \in {"idle", "ending"}
      BY <1>0, <2>1, <2>5, <2>7 DEF PatientShape
    <3>3. ~Has(inbox', "event") /\ \A s \in Recorders : ~Has(stream'[s].lines, "event")
      BY <1>0, <2>2, <2>3, <2>4, <2>7, <3>1 DEF ErrorShape
    <3> QED  BY <1>0, <2>1, <3>1, <3>2, <3>3 DEF ErrorShape, uiVars
  <2> QED  BY <2>2, <2>6, <2>7 DEF Messages
<1>27. ASSUME NEW r \in Recorders, CheckCancel(r) \/ ReadTimesOut(r) \/ EndRecording(r)
       PROVE  ErrorShape'
  BY <1>23, <1>24, <1>27 DEF CheckCancel, ReadTimesOut, EndRecording
<1> QED
  BY <1>1, <1>3, <1>4, <1>7, <1>9, <1>10, <1>11, <1>12, <1>13, <1>14, <1>16, <1>17, <1>18,
     <1>20, <1>21, <1>25, <1>26, <1>27
     DEF Next, Key, UiThread, Recorder, vars

-----------------------------------------------------------------------------
LEMMA RecordingInit == Init => RecordingInv
<1> SUFFICES ASSUME Init PROVE RecordingInv
  OBVIOUS
<1>1. OwedShape
  BY DEF Init, OwedShape, Asked, Loop
<1>2. CalmShape
  BY DEF Init, CalmShape, Asked, InLoop, Loop
<1>3. \A r \in Recorders : recorder[r] = Idle /\ stream[r] = NoStream
  BY DEF Init
<1>4. StreamShape
  BY <1>3, NoMessages DEF StreamShape, StreamFits, Idle, NoStream, Connection
<1>5. PatientShape
  BY <1>3, NoMessages DEF Init, PatientShape, Running, Idle, Loop
<1>6. ~ErrorComes
  BY <1>3, NoMessages DEF Init, ErrorComes, Idle, NoStream, Connection
<1> QED  BY <1>1, <1>2, <1>4, <1>5, <1>6 DEF RecordingInv, ErrorShape

(* What the UI remembers, what the daemon runs and what is on its way from *)
(* the recorders stay in step, whoever stops, fails or restarts.           *)
THEOREM RecordingInvariant == Spec => []RecordingInv
<1>1. TypeOK /\ RecordingInv /\ [Next]_vars => RecordingInv'
  BY OwedStep, CalmStep, StreamStep, PatientStep, ErrorStep DEF RecordingInv
<1> QED  BY <1>1, RecordingInit, TypeCorrect, PTL DEF Spec

(* An injection stopped for a recording is remembered or being started     *)
(* again, whatever ends the recording, until the daemon has started it or  *)
(* has failed to.                                                          *)
THEOREM OwedInjectionKept == Spec => []OwedIsKept
<1>1. TypeOK /\ RecordingInv => OwedIsKept
  <2> SUFFICES ASSUME TypeOK, RecordingInv, NEW i \in owed, i \notin refused
               PROVE  \/ record_prev_injection = i /\ overlay = "record"
                      \/ ui.at = "start" /\ <<ui.device, ui.preset>> = i
    BY DEF OwedIsKept
  <2>1. i = Asked /\ i # None
    BY DEF RecordingInv, OwedShape
  <2> QED  BY <2>1 DEF RecordingInv, OwedShape, Asked
<1> QED  BY <1>1, RecordingInvariant, TypeCorrect, PTL

(* Undisturbed, a recording that is over has left the table as it was.     *)
THEOREM RecordingRestoresTable == Spec => []TableRestored
<1>1. TypeOK /\ RecordingInv => TableRestored
  BY DEF RecordingInv, OwedShape, CalmShape, Asked, TableRestored, InLoop, Loop, TypeOK, Request, Requests
<1> QED  BY <1>1, RecordingInvariant, TypeCorrect, PTL

(* Undisturbed, the device that is recorded is not grabbed.                *)
THEOREM RecordingFreesDevice == Spec => []RecordedDeviceFree
<1>1. TypeOK /\ RecordingInv => RecordedDeviceFree
  BY DEF RecordingInv, CalmShape, RecordedDeviceFree
<1> QED  BY <1>1, RecordingInvariant, TypeCorrect, PTL

(* A user who waits for a recording to be over is only offered keys of the *)
(* device that is recorded.                                                *)
THEOREM RecordingOffersOwnEvents == Spec => []OwnEvents
<1>1. RecordingInv => OwnEvents
  BY DEF RecordingInv, PatientShape, OwnEvents
<1> QED  BY <1>1, RecordingInvariant, PTL

(* and leaves no recorder running that was not told to stop.               *)
THEOREM PatientLeavesNoStray == Spec => []PatientNoStray
<1>1. TypeOK /\ RecordingInv => PatientNoStray
  <2> SUFFICES ASSUME TypeOK, RecordingInv, Patient, InLoop, overlay # "record",
                      NEW r \in Recorders, recorder[r].pc \notin {"idle", "ending"}
               PROVE  recorder[r].cancelled
    BY DEF PatientNoStray, NoStrayRecorder
  <2>1. record_cancel = None
    BY DEF RecordingInv, OwedShape
  <2>2. record_cancel = r \/ recorder[r].cancelled \/ recorder[r].pc = "ending"
    BY DEF RecordingInv, PatientShape, Running
  <2> QED  BY <2>1, <2>2, RecordingAssumption
<1> QED  BY <1>1, RecordingInvariant, TypeCorrect, PTL

(* No message of a recorder closes the dialog the user went on to: only an *)
(* error would, and none is on its way then.                               *)
THEOREM RecordingKeepsDialogs == Spec => DialogsKept
<1>1. TypeOK /\ RecordingInv /\ [Next]_vars =>
        (Patient /\ overlay = "other" /\ Len(inbox') < Len(inbox) => overlay' = "other")
  <2> SUFFICES ASSUME TypeOK, RecordingInv, [Next]_vars, Patient, overlay = "other",
                      Len(inbox') < Len(inbox)
               PROVE  overlay' = "other"
    OBVIOUS
  <2>1. CASE handle_record_error
    <3>1. inbox # <<>> /\ Head(inbox).kind = "error"
      BY <2>1 DEF handle_record_error, Received
    <3>2. ErrorComes
      BY <3>1, Taken DEF TypeOK, ErrorComes
    <3> QED  BY <3>2 DEF RecordingInv, ErrorShape
  <2>2. CASE handle_record_event \/ handle_record_stopped
    BY <2>2 DEF handle_record_event, handle_record_stopped
  <2>3. CASE inbox' = inbox
    BY <2>3 DEF TypeOK
  <2>4. ASSUME NEW m, inbox' = Append(inbox, m) PROVE FALSE
    BY <2>4 DEF TypeOK
  <2>5. CASE Key \/ StatusAnswered \/ StopAnswered \/ RestartAnswered
    BY <2>3, <2>5
       DEF Key, OtherKey, start_recording, Enter, Escape, StatusAnswered, StopAnswered,
           RestartAnswered, Record, threads
  <2>6. CASE ServeLate \/ Others \/ DaemonRestarts
    BY <2>3, <2>6 DEF ServeLate, Others, DaemonRestarts, threads
  <2>7. ASSUME NEW r \in Recorders, Recorder(r) \/ handle_record(r) PROVE overlay' = "other"
    BY <2>3, <2>4, <2>7
       DEF Recorder, Connect, CheckCancel, ReadLine, ReadTimesOut, EndRecording, Tell,
           handle_record
  <2>8. ASSUME NEW d \in Devices, \/ Plug(d) \/ Unplug(d) \/ \E c \in Codes : KeyPressed(d, c)
        PROVE  overlay' = "other"
    BY <2>3, <2>8 DEF Plug, Unplug, KeyPressed, threads
  <2> QED
    BY <2>1, <2>2, <2>3, <2>5, <2>6, <2>7, <2>8 DEF Next, UiThread, vars, threads
<1> QED  BY <1>1, RecordingInvariant, TypeCorrect, PTL DEF Spec, DialogsKept
=============================================================================

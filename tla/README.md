# Verification of input-remapper-rs

TLA+ models of the key remapper in this repository, the TLC runs that check them
and the TLAPS proofs about them. Paths below are relative to the repository.

## The system

`input-remapper-rs` is one Rust binary: a root daemon that grabs input devices
and re-emits their events remapped through uinput, and clients (a command line
and a terminal UI) that talk to the daemon over a Unix socket.

| Part | Source | State it keeps | Operations |
|---|---|---|---|
| Device discovery | `src/device/discover.rs` | none; reads `/dev/input` each time | `discover_devices`, `find_device_by_name` |
| Device access | `src/device/reader.rs`, `writer.rs` | a descriptor with a grab; a uinput device | `open`, `grab`, `fetch_events`, drop; `new_keyboard_mouse`, `emit` |
| Injection manager | `src/daemon/manager.rs` | table name -> {preset, stop socket, join handle} | `start`, `stop`, `stop_all`, `status`, `autoload` |
| Injection thread | `src/daemon/service.rs` | its readers, its writer, its end of the stop socket | `run`: open, grab, poll, remap, emit, release |
| Mapping | `src/mapping/config.rs`, `handler.rs` | input code -> output codes | `from_preset`, `remap_into` |
| Preset store | `src/daemon/manager.rs` | files under `/etc/input-remapper-rs` | `list`, `get`, `save`, `delete` |
| IPC | `src/ipc/*.rs` | a thread per connection, the manager's mutex, record streams | `send_request`, `handle_connection`, `handle_record`, `record_events` |
| Process lifecycle | `src/main.rs`, `systemd/` | the socket file, the signal handler | `daemon`, `autoload` with retries, `run-foreground` |
| Terminal UI | `src/tui/` | screen stack, overlay, edited entries, results on their way | key handlers, `handle_ipc_result`, recording |

How they interact: every connection thread calls `handle_request` under one
mutex; the manager starts injection threads and keeps the writing end of a stop
socket and the join handle of each. Injection threads share nothing with the
manager but that socket and the devices in the kernel. Devices come and go
under both. Discovery runs in the daemon for start, list, keys and record, and
reads whatever is plugged at that moment, the daemon's own virtual devices
included. The UI sends requests from short-lived threads and applies their
results in the order they arrive.

What is hard here: grabs are exclusive per node and taken one by one by threads
that run concurrently; a name that a client sends need not be the name the
table is keyed by, and the name of a device changes with what is plugged;
`join` happens under the mutex; threads end by themselves when a device goes
away; results reach the UI after the user has moved on.

## Modules

| Module | Models | Kind |
|---|---|---|
| `Devices` | discovery and the resolution of names (`discover.rs`) | operators |
| `InjectionDaemon` | manager, injection threads, grabs, virtual devices, hotplug (`manager.rs`, `service.rs`, `reader.rs`, `writer.rs`) | state machine |
| `DeviceSession` | one session at a time per device name | abstract specification |
| `MCInjectionDaemon` | the small machines TLC checks `InjectionDaemon` on | instances |
| `InjectionDaemonProofs` | theorems about `InjectionDaemon` | proofs |
| `ManagerProofs` | more of them: grabs, and the answers to `stop_all` and `autoload` | proofs |
| `DeviceSessionProofs` | `InjectionDaemon` implements `DeviceSession` | proofs |
| `MappingHandler` | symbols, entries, `from_preset`, `remap_into` (`config.rs`, `handler.rs`) | operators |
| `KeyRemap` | keys, kernel buffers, batches and the virtual device of one injection (`service.rs`, `handler.rs`) | state machine |
| `MCKeyRemap` | small keyboards and presets | instance |
| `KeyRemapProofs` | theorems about `KeyRemap` and `MappingHandler` | proofs |
| `PresetStore` | the preset files and the answers about them (`manager.rs`) | operators |
| `Editor` | the terminal UI, its requests in flight and the files they change (`app.rs`, `client.rs`) | state machine |
| `MCEditor` | two devices, two preset names and a refused one, presets that differ | instances |
| `EditorProofs` | theorems about `Editor`: selections, dialogs, loading | proofs |
| `EditorCareProofs` | more of them: what is saved, and where | proofs |
| `Recording` | recording a key: the UI thread, recorder threads, record streams, the injection that is stopped and started again (`app.rs`, `server.rs`, `client.rs`) | state machine |
| `MCRecording` | two devices, two recorders | instances |
| `RecordingProofs` | theorems about `Recording` | proofs |
| `Lifecycle` | systemd's unit, the daemon process and its socket file, SIGINT, `autoload` with retries, `run-foreground` (`main.rs`, `server.rs`, the service file) | state machine |
| `MCLifecycle` | two devices, two attempts | instances |
| `LifecycleProofs` | theorems about `Lifecycle` | proofs |

`Devices` is extended by `InjectionDaemon`, `MappingHandler` by `KeyRemap`,
`PresetStore` by `Editor`; `InjectionDaemon` instantiates `DeviceSession` with a
refinement mapping. The five state machines are separate on purpose: who owns
a device, what happens to its keys, what the user sees, who may have the keys
while one is recorded, and which processes there are at all are questions with
little common state, and their product would be checked on smaller instances
than each of them is. `Recording` and `Lifecycle` keep the injections only as a
table or as one state per device, which is what `OneSession` says they look like. What one takes from another is said in its first comment.

### Devices and InjectionDaemon

A *node* is a path under `/dev/input`. Nodes that agree in bus, vendor, product,
unique name and location form a *group*, named after the shortest name of those
of its nodes that are plugged. A name is a model string with a length, an order and the relation
`Contains` (substring, which heeds case), which is all that `find_device_by_name`
looks at. `Namings(present)` gives a set because the shortest name need not be
unique and enumeration order decides.

| State | Code |
|---|---|
| `injections` | `DaemonManager::injections`; the thread stands for the join handle and the stop socket |
| `call` | the request that holds the mutex, and how far `handle_request` has got with it |
| `reply` | its `Response` |
| `pc`, `paths`, `todo`, `outcome` | where `InjectionService::run` stands, the `device_paths` it was given, those of them it has yet to grab, what it returns |
| `stop` | what its end of the stop socket will read: nothing, a byte, or a hangup because the other end was dropped |
| `grab`, `present`, `lost` | the kernel: exclusive grabs, existing nodes, and for each thread the nodes that were unplugged while it had them open |

`handle_request` is atomic for other requests and not at all for the injection
threads, so it is cut where a thread can come between: `StopOld`, `Joined`,
`Spawn` or `StartFails`, `Insert`; `BeginStopAll`, `AllJoined`; `BeginAutoload`,
`AutoloadNext`. `run` is cut at each system call: `OpenAndGrab` per path,
`CreateWriter`, `PollStop`, `PollDeviceError`, `PollReadable`, `Forward`,
`DropReader` per path, `Exit`. `Plug` and `Unplug` interleave with all of it.
A thread that leaves `run` forgets its paths and descriptors at once (`Close`),
its grabs one by one.
A thread's model value may be reused when it has ended and nothing refers to
it; the variables of an ended thread are reset, because the code has nothing of
it either.

Abstractions: discovery reads the plugged nodes in one step; the `status`
request is the table itself; signals to a thread do not pile up, because one is
enough; other programs that grab devices, `poll` interrupted by a signal and
`SYN_DROPPED` are left out.

### MappingHandler and KeyRemap

An entry is a record of what `from_preset` looks at; a symbol is the sequence
of its parts between the `+` signs. `RemapInto` gives the events of one event.
Every event that is not a key goes through untouched, so `NoCode` stands for
all of them.

`KeyRemap` has the user (`PressKey`, `ReleaseKey`, `RepeatKey`), the kernel's
buffer of each open sub-device, and `run` as one action per step: `Poll` picks
any set of readable readers, `Fetch` moves one event of a reader through the
handler into `remapped`, `Emit` writes one event to the virtual device. `vdown`
is what the virtual device has down, `shown` the same at its last `SYN_REPORT`.
`Start`, `Stop` and `CloseReader` may
happen with keys held. Left out: what the desktop sees of the physical device
before the grab and after it.

### PresetStore and Editor

Variables are named after the fields of `App`; indexes count from 1. A member of
`requests` is one thread of `spawn_ipc` together with its message: the daemon
serves requests in any order (`Serve`), a client's thread may give up (`GiveUp`,
the timeout or a refused connection) while its request is still served later,
and `handle_ipc_result` is cut into one action per kind of answer. `Error` stands
for every answer that only shows a message. `Stop` stands for `StopInjection` and
`StopAll`, which the UI treats alike. A preset file is its entries, `Absent`, or
`Broken`: `fs::write` truncates first, so a full disk or a crash may leave a
file that does not load. Entries have keys of `Keys`, recordings add keys of
`Codes` only, so files may hold what no recording makes. `origin` (where the entries were loaded from) and
`changes` (for the bound) are history and bound variables that no guard of the
code depends on. `setting` is a rigid variable: the circumstances and bounds
that hold for a whole behaviour (whether the user waits, whether things fail,
what is plugged, which files there are), so that one run covers several.

Left out: the list of the status screen, the text of queries and messages, and
what recording does to injections. A recorder is only counted here: the end of
one, with or without an error, may come at any time. `Recording` has the rest.

### Recording

| State | Code |
|---|---|
| `ui` | the UI thread: in its loop, or blocked in the `send_request` of `start_recording` or `stop_recording` |
| `overlay`, `device`, `events` | what `App` shows: the recording, another dialog, or none |
| `record_cancel`, `record_prev_injection` | the fields of `App`; a flag is named by the recorder that reads it |
| `recorder`, `stream` | the recorder threads, the connection of each with the lines under way, and the server's `handle_record` on its other end |
| `inbox` | the `RecordEvent`, `RecordError` and `RecordStopped` messages not yet received |
| `table`, `grabbed`, `plugged` | the daemon and the kernel |
| `late` | requests the UI gave up that the daemon will still serve |

`start_recording` and `stop_recording` block the UI thread in requests while
everyone else goes on, so each is cut at its requests (`StatusAnswered`,
`StopAnswered`, `RestartAnswered`). The recorder's loop is cut where it looks at
the flag and where it reads; messages carry no sender, as in the code. A request
is served and answered, or given up and served later or never; a start fails when
the device is missing and, where there are faults, for any other reason
(`StartFails`), and has then stopped what ran. Two history variables no guard
looks at: `owed`, the injections told to stop for a recording until their restart
is answered with `Ok`, and `refused`, those whose restart was answered with an
error or not at all. Left out: the text of messages; lines other than key
presses, which the UI drops; what becomes of a stream whose recorder has ended; a
late answer to `RefreshDevices` that moves `selected_device` under the overlay,
which `Editor` has. A device is one node.

### Lifecycle

`unit`, `Exec`, `Restart` and `StartPostEnds` say what systemd does with the
service file: it runs `autoload` as soon as the daemon's process exists, ends
the daemon if that fails, and starts it again unless it ended with 0 or was
stopped. `daemon` is the process, with the handler of SIGINT between taking the
mutex (`HandlerStopsAll`) and `exit`; `socket` the file, which nobody removes.
`autoload` and `tries` are the client with its loop; a request it has given up
may be served later (`late`). `thread` and `foreground` are the injections of
the daemon and of `run-foreground`, which compete for the grab. `crashes`,
`slow` and `signals` are bounds: on crashes, on attempts that are refused or
time out, on SIGINT and `systemctl stop`. Left out: a second daemon, a daemon
that cannot bind, SIGINT while the unit is starting, a preset that does not load (a missing device stands for every
entry that fails), and what an injection is beyond its grab.

## Runs

| Run | Instance and bounds | Shows |
|---|---|---|
| `exact` | 3 threads; a mouse with two nodes, a twin of the same name, a keyboard; requests by full name; symmetry of threads | `NoBusyFailure`, `DaemonInv`, `StopMeansStopped`, `StopAllMeansStopped`, `AutoloadOk`, and `OneSession`, the refinement |
| `fuzzy` | 3 threads; a mouse whose nodes have different names, requests by parts of names and by refused names; symmetry | `TypeOK`, `NoOrphan`, `NoFeedback`, `GrabbedAll` |
| `live` | the same mouse, 2 threads, autoload of one entry; no symmetry | `CallsReturn`, `StopTakesEffect`, `UnplugEnds` under fairness |
| `keys` | 2 sub-devices with a key in common, 2 presets, 3 key events in the buffers together | `RemapInv`, `Justified`, `NoLoss`, `ComboAtomic`, `LastEntryWins`, and `NothingStuck` under fairness |
| `editor` | four settings: users who wait and who do not, 1 or 2 devices, 2 presets and a refused name, up to 2 requests in flight, up to 3 changes, timeouts and full disks | `EditorInv`, `SelectionValid`, `LoadingJustified`, `SavedMeansSaved`, `SavesOwnPreset`, `PatientDeletesTheNamed`, `EditsTheNamed` |
| `recording` | 2 devices, 2 recorders, up to 2 messages under way; users who wait and who do not, alone or with other clients, hotplug and faults | `TypeOK`, `RecordingInv`, `OwedIsKept`, `TableRestored`, `RecordedDeviceFree`, `OwnEvents`, `PatientNoStray`, `DialogsKept`, and `RecordersEnd` under fairness |
| `lifecycle` | 2 devices, 2 attempts; late devices, 2 crashes, 6 lost attempts, 3 signals; hotplug and run-foreground | `TypeOK`, `RemappedOnce`, `StoppedIsSilent`, `ActiveMeansApplied`, and `AppliedInTheEnd` under fairness |
| `restart_busy` | `fuzzy`'s mouse, 2 threads | finding: `NoBusyFailure` fails |
| `status_stale` | the same, under fairness | finding: `StatusSettles` fails |
| `editor_delete` | 2 requests in flight, no faults | finding: `DeletesTheNamed` fails |
| `recording_stray` | a user who does not wait, nothing else | finding: `NoStrayRecorder` fails |
| `autoload_loop` | one of two devices missing, no faults | finding: `PluggedIsApplied` fails |

Why the bounds are enough to meet the hard cases:

* Three threads are one in the table, one that was replaced or is ending, and
  one being started. Two suffice where only two can meet (the liveness runs).
* Two nodes of one device are needed for a grab that gets one of them and not
  the other; the twin, for one name that two groups have; the keyboard, for an
  autoload with two entries.
* Three key events under way make a batch in which a press and a release of one
  key meet one of another reader; every shape of entry that `from_preset` tells
  apart is in `MCPresets`.
* Two requests in flight let answers overtake each other; three changes allow
  adding, changing and deleting a mapping, or creating and deleting a preset,
  before the next save; one recorder makes recording possible.
* Two recorders are the current one and the one before it; a third would only
  be another one before. Two devices make a key of the wrong one possible.
* Two attempts are one that is lost and one that is not; six lost ones let the
  command fail more than once. Two crashes meet the daemon while it starts and
  after.
* Symmetry is used in the safety runs only. `CHECK_DEADLOCK FALSE` stands in the
  editor's configurations, as the program may quit, and in `Lifecycle`'s, where
  nothing need happen once every preset is applied and the bounds are used up.

### Fairness

`FairSpec` of `InjectionDaemon` has weak fairness of `Handle` (the thread that
serves the request goes on once its join can return) and of each `Run(t)`: the
kernel schedules runnable threads and no step of `run` but `PollReadable` waits
for input. `PollReadable` is in no fairness condition, and neither are requests
and hotplug: clients, users and hardware owe nothing. `KeyRemap` has weak
fairness of `Run`, none of the user, of `Start` or of `Stop`; `NothingStuck`
therefore also covers an injection that is never stopped. `Recording` has weak
fairness of the UI thread's steps, of each recorder (its read returns after the
timeout at the latest) and of the server, `Lifecycle` of systemd, the daemon, the
autoload command and `run-foreground`; none of users, other clients, signals,
crashes and hotplug. The editor has no liveness property: a user who never
answers a dialog is no fault. `LoadingJustified` states as an invariant what a
liveness property would be about there.

## Proofs

`InjectionDaemonProofs`, `ManagerProofs` and `DeviceSessionProofs` prove, for any sets of nodes, names, presets, threads
and requests that satisfy `DevicesAssumption` and `DaemonAssumption`:

| Theorem | Statement | Further assumptions |
|---|---|---|
| `TypeCorrect` | `Spec => []TypeOK` | |
| `NeverOrphaned` | `Spec => []NoOrphan` | |
| `NeverFedBack` | `Spec => []NoFeedback` | |
| `NeverBusy` | `Spec => []NoBusyFailure` | `StableNames`, `ExactRequests` |
| `StoppedIsStopped` | `Spec => StopMeansStopped` | `StableNames`, `ExactRequests` |
| `GrabsAll` | `Spec => []GrabbedAll` | |
| `AllStopped` | `Spec => StopAllMeansStopped` | `StableNames`, `ExactRequests` |
| `AutoloadAnswered` | `Spec => AutoloadOk` | `StableNames`, `ExactRequests` |
| `DaemonInvHolds` | `Spec => []DaemonInv` | `StableNames`, `ExactRequests` |
| `Refinement` | `Spec => OneSession` | `StableNames`, `ExactRequests` |

The argument. `TypeOK` and `CallShape` are inductive together: `CallShape` says
what a request knows in each phase, for example that a joined target is a
thread. With `CallShape`, `NoOrphan` is inductive by itself: a thread enters
the table by `Insert`, and whatever takes it out signals it in the same step.
`NoFeedback` needs `GrabShape`: a thread only waits for nodes that are not the
daemon's own, which `SubDevices` provides when the thread is spawned.

`NoBusyFailure` is far from inductive. It needs that two live threads never
want the same node, which `ExactShape` gives: a thread takes nodes of its own
label only, and each live thread is in the table under its label, is being
joined under it, or is about to be inserted under it while that name is free.
Two live threads with one label would be in one place. This is where the two
further assumptions are used: without `ExactRequests` the name that was freed
need not be the one inserted, and without `StableNames` a thread's nodes need
not have its name. `restart_busy` shows that the theorem fails without them.
`StopMeansStopped` follows from the same invariant at the step `Joined`: the
joined thread has ended and no other one has its label. `StopAllMeansStopped`
needs only that a live thread is in the table when `stop_all` is in progress.

`GrabbedAll` follows from `GrabbedShape`: until it leaves `run`, a thread still
wants, holds or has lost each node it was started for, and it polls only when it
wants none. It needs no assumption on names, since a node that is taken ends the
thread, whatever others it holds. The variant `OpenAndGrabSome`, which goes on as
long as it gets one node, lets two injections of a mouse run with one node each.

`AutoloadOk` needs `AutoloadShape`: as long as no entry has failed, each entry
autoload is through with is in the table with its preset. A later entry takes
out and inserts under its own name only. That is true because `config.json` is a
map, so entries differ in their device, and because `ExactShape` makes the name
inserted the name asked for.

`Refinement` maps a device name to the state of the only live thread with that
label, which `ExactShape` makes unique. Each step of the daemon then changes one
name's session as `DeviceSession` allows, or none: a thread of that name is
spawned only when there was none.

The conjunction of these shapes is `DaemonInv`, which TLC checks in `exact`.

`LifecycleProofs` proves, for any devices, autoload section, number of attempts
and settings that satisfy `LifecycleAssumption`:

| Theorem | Statement |
|---|---|
| `TypeCorrect` | `Spec => []TypeOK` |
| `RemappedAtMostOnce` | `Spec => []RemappedOnce` |
| `SilentBeforeExit` | `Spec => []StoppedIsSilent` |
| `ActiveUnitApplied` | `Spec => []ActiveMeansApplied` |

All four follow from `LifecycleInv`. `ActiveMeansApplied` is not inductive: the
unit becomes active because the command succeeded, the command because of an
answer, and requests that were given up are served after it. `AllStarted`
carries the fact along that chain (once an answer without errors was given all
devices are there and every entry has an injection, and a late request only
starts them anew), with `UnitKnows` for what the unit, the daemon and the
command know of each other, and `NoForeground` because a thread that finds its
device taken would end.

`KeyRemapProofs` proves, for any keyboards, symbols, presets and bound that
satisfy `RemapAssumption` (presets are sequences of entries; `NoCode` is the code
of no key, as it stands for events of another type):

| Theorem | Statement |
|---|---|
| `TypeCorrect` | `Spec => []TypeOK` |
| `NoGhostKeys` | `Spec => []Justified` |
| `NoLostKeys` | `Spec => []NoLoss` |
| `CombosAtomic` | `Spec => []ComboAtomic` |
| `LastEntryDecides` | `Spec => []LastEntryWins` |
| `RemapInvariant` | `Spec => []RemapInv` |

The properties speak of what is down now, but what `Fetch` reads takes effect
only when `Emit` comes to it. So the invariant speaks of what will be down:
`After(n, code)` says whether `code` is down when the first `n` events of the
batch are written, and `Finally(code)` when all are. `JustShape` and `HeldShape` are
`Justified` and `NoLoss` for `Finally`, and `FrameShape` is `ComboAtomic` at every
`SYN_REPORT` in the batch. `Emit` shifts `After` by one (`AfterEmitted`). `Fetch`
appends what `remap_into` makes of one event, which is always a block of events
with the value of that event, one for each code of the key in some order, and ends of
frames after it (`RemapForm`); a repeat of a combination is no block at all. So
`After` changes for the codes of that key only, and for all of them by the same
frame (`GrownAfter`). It remains that the event read agrees with what the user
holds, or that a later event in the buffer does, which is `BufferShape`. A code with
one producer can only be changed by its key, hence `Own` in `NoLoss` and
`ComboAtomic`.

`LastEntryDecides` is about a fold over the preset. `FromPresetFolds` shows that
the library's `FoldLeft` goes through the entries one by one; that what holds
before the first entry and is kept by each holds after the last then follows by the
least entry that would break it, a use of well-foundedness that needs no operator
as a parameter.

`EditorProofs` and `EditorCareProofs` prove, for any devices, preset names, keys,
symbols and settings that satisfy `EditorAssumption`:

| Theorem | Statement | About a user who |
|---|---|---|
| `TypeCorrect` | `Spec => []TypeOK` | does anything |
| `SelectionsStayValid` | `Spec => []SelectionValid` | does anything |
| `LoadingIsJustified` | `Spec => []LoadingJustified` | does anything |
| `DeletesWhatItNames` | `Spec => PatientDeletesTheNamed` | waits while loading is shown |
| `EditsWhatItNames` | `Spec => EditsTheNamed` | waits while loading is shown |
| `SavedIsSaved` | `Spec => []SavedMeansSaved` | waits, and nothing fails |
| `SavesWhereItBelongs` | `Spec => SavesOwnPreset` | waits, and nothing fails |
| `EditorInvariant` | `Spec => []EditorInv` | |

The first three need the types only, which say of every request and answer in flight
what it can be. A user who waits has one request in flight (`WaitShape`) and no
dialog open meanwhile, so no answer moves the selection under a dialog, and a dialog
names what is selected (`DialogShape`); `editor_delete` shows what happens
otherwise. What is saved needs `Orderly`: with nothing in flight the editor shows the
preset it names, as its file has it unless changes are shown as unsaved (`Settled`);
with a request in flight it is one of the screen shown, and its answer brings
that about (`InFlight`). This holds for `Careful` settings only: the user waits, nothing
fails, and every preset's file loads. Otherwise the entries of another preset stay
in the editor (`app.rs:245`), and saving them is what the code does.

`RecordingProofs` proves, for any devices, presets, keys, recorders and settings
that satisfy `RecordingAssumption`:

| Theorem | Statement | In a setting where |
|---|---|---|
| `TypeCorrect` | `Spec => []TypeOK` | anything happens |
| `OwedInjectionKept` | `Spec => []OwedIsKept` | anything happens |
| `RecordingRestoresTable` | `Spec => []TableRestored` | no other client, hotplug or fault comes in between |
| `RecordingFreesDevice` | `Spec => []RecordedDeviceFree` | the same |
| `RecordingOffersOwnEvents` | `Spec => []OwnEvents` | the user waits until recordings are over |
| `PatientLeavesNoStray` | `Spec => []PatientNoStray` | the same |
| `RecordingKeepsDialogs` | `Spec => DialogsKept` | the same |
| `RecordingInvariant` | `Spec => []RecordingInv` | |

`OwedIsKept` says that every way out of a recording asks for the injection again,
and that it is lost only if the daemon refuses the restart or does not answer it.
It does not say that the injection runs again: after a failed restart nothing
remembers it, and a stop the UI gave up may be served after the restart.
`OwedShape` says more, and in every setting: what is owed and was not refused is
exactly what the UI remembers or asks for (`Asked`). `CalmShape` adds that,
undisturbed, the daemon's table is that of the start but for what is asked for, and
that what is in the table is grabbed. Messages of
recorders carry no sender, so what is said of one's own keys must be said of all
that is on its way: `StreamShape` (what a connection carries is for its recorder's
device) and `PatientShape` (one recorder at a time, and all in the inbox is from it).
`ErrorShape` is needed for `DialogsKept`: an error comes before any key was
recorded, so there is no dialog it could close. `recording_stray` shows that a
user who does not wait loses all of this.

Only model-checked: the liveness properties (`CallsReturn`, `StopTakesEffect`,
`UnplugEnds`, `NothingStuck`, `RecordersEnd`, `AppliedInTheEnd`), since fairness and
`ENABLED` are out of the prover's reach, and the five findings, which are about
behaviours that exist.

## Findings

* **A restart by another spelling fails after "Started".** `start_injection`
  stops what runs under the client's string, but the table is keyed by the
  device's name. Found as `restart_busy`.
* **`status` lists injections that have ended.** Nothing takes a thread that
  ended by itself out of the table. Found as `status_stale`.
* **A dialog about one preset deletes another.** The answer to a reload that
  arrives while the dialog is open moves the selection. Found as
  `editor_delete`.
* **A recorder that can no longer be cancelled.** A recorder notices up to half a
  second late that it was cancelled. If the next recording has begun by then, the
  message that the old recorder stopped makes the UI drop the flag of the new
  one; leaving the recording then cancels nothing, and its thread and the
  daemon's stream read on. Found as `recording_stray`.
* **One missing device undoes every preset.** `autoload` answers with an error if
  any entry failed, the command exits with 1, and as `ExecStartPost` it takes the
  service down with it, every three seconds. Found as `autoload_loop`.

Met while modelling, with no run of their own: `list-devices` prints keys and
`main.rs:39` documents a name or a key, but the lookup knows only names
(`discover.rs:126`); the answer to a save clears `unsaved_changes` also when
entries were edited after it was sent; a preset that fails to load leaves the
entries of the previous one in the editor under the new name, and a save
then writes them there. Two keys mapped to a common code release it when the
first of them is released; `NoLoss` and `ComboAtomic` therefore speak of codes
with one producer only. `Esc` asks before it discards unsaved changes
(`app.rs:302`), Tab leaves the editor without asking and opening a preset then
replaces them. A record stream notices that its client is gone only when an
event arrives, and never for a device that was unplugged (`server.rs:200`). The
comment at `main.rs:157` names SIGTERM, which `ctrlc` only catches with a feature
that is not enabled. The injection started after a recording is the one that ran
before it, whatever another client started meanwhile. If it cannot be started
again it is forgotten and only a message says so (`app.rs:847`); when the recording
ended by an error, as it does when the daemon is gone, the recorder's message
takes the place of that one (`app.rs:873`) and the user is not told.

## Not modelled

The list of the status screen; the `record` command, whose client only reads; a
second daemon, which systemd does not start; malformed requests, which change
nothing; the text of messages and queries; the screens' drawing; reading of
JSON; packaging. Drawing changes no state, and the rest is plain input and
output.

## Plan

1. The proofs cover every safety property a run checks. What is left to prove is
   generality: a `Recording` in which the daemon's table changes as
   `DeviceSession` lets it, so that the separate machines rest on the refinement
   and not on a remark.
2. A second daemon and the `record` command, if the code comes to use them.

# A TLA+ model of ms-robot

ms-robot is a Go server that shows and drives Android devices in a browser. It finds
devices through adb, starts a scrcpy server on a device, reads its H264 stream, sends it
to browsers over WebRTC, takes control messages back, stores files, and pushes or
installs them on devices. This directory models the parts of it that keep state and are
hard to test, checks them with TLC on small instances, and proves the most important
facts with TLAPS.

Source paths below are relative to the repository; `streaming/` stands for
`internal/streaming/`, `device/` for `internal/device/` and so on.

## 1. The system

| Component | State | Operations | Hard part | What makes it correct |
|---|---|---|---|---|
| Stream supervisor (`streaming/stream_supervisor.go`) | one goroutine per device with a mailbox; refcount `webrtcN`, the shared Start (`scrcpyFullyStarted`, `scrcpyWaitBroadcast`, `scrcpyWaitersPending`), `videoPeers`, `retired` | Reserve, StartDone, Release, PeerClose, RegisterVideoPeer, WebRTCControl, DeviceDisconnect; teardown, retirement, drain | messages in flight while the supervisor retires and a successor starts; one Start shared by offers that join and leave | every request with a reply is answered; one supervisor per device; no waiter is forgotten; the count matches its holders; unused streams stop |
| WebRTC offers and sessions (`streaming/webrtc.go`) | `streamSupervisors`, `deviceStreamers`, `streams` (three sync.Maps), sessions, pending ICE candidates | CreateStream, offer handler, finishScrcpyAttach, removeStreamSession, handleDeviceDisconnect, ICE, control messages | each map is atomic, no two of them together; failure between any two steps | no reservation is lost; no session outlives its device; no streamer runs outside the map |
| AndroidStreamer (`streaming/android_stream.go`) | `running`, `starting`, `reading`, context, reader, orchestrator, frame fan-out, subscriptions | Start, Stop, StartReading, StopReading, Register/RemoveWebRTCVideoSub | Stop against a Start that has released the mutex; channels replaced under a running reader | a stopped streamer stays stopped; the reader ends; subscribers are answered |
| Scrcpy server (`streaming/scrcpy_server.go`) | sockets, control queue, stop channel, port forward, generation | Start, Stop, SendControlMessage, control writer and reader, message framing | writer and reader of an old generation; the queue at its limit | keys and touch-ups are not dropped early; one end per generation |
| Scrcpy pool (`streaming/control_only.go`) | map of control-only servers | GetOrStart, Get, Remove | check, start without the lock, store | no started server is lost |
| Device manager (`device/device.go`) with the adb watcher (`third_party/adb/device_watcher.go`) | device table, transport keys, retry, watcher, stop channel | Register, UpdateStatus, Remove, discovery, watcher events, reconnection | events handled after their device changed again; a watcher that restarts with an empty memory | the table follows adb; a lost device is reported |
| Unified manager and endpoints (`device/unified_manager.go`, `endpoint/manager.go`, callbacks in `main.go`) | endpoints, their device manager, their status | add, remove, retry, broadcast | an endpoint removed while its reconnection runs | no status without an endpoint; lost devices end their streams |
| WebSocket hub (`websocket/hub.go`) | clients, send queues | register, unregister, broadcast | slow clients dropped by a broadcast while their pump unregisters | a send queue is closed once and not used afterwards |
| File store (`files/manager.go`) | files on disk, manifest, index by id and md5, reference counts | SaveFile, GetFile, DeleteFile, DeleteFilesBefore, loadMetadata | failures and crashes between file, manifest and index | the index and the disk agree after a restart |
| Push and install tasks (`files/handler.go`) | task queue, workers, results | AddTask, worker, GetTaskStatus, wait with a deadline | result after the deadline, file deleted meanwhile | each task ends once |
| HTTP API (`internal/api`), TURN, configuration, logging, apk lookup | none of their own, or a handle | routing, argument checks | – | – |
| H264 packetizer, adb sockets (`streaming/h264_stream.go`, `streaming/adb_socket.go`) | parameter sets, byte buffers | split, packetize, read | bytes, not protocol | – |
| adb client library (`third_party/adb`) | connection, device snapshot of the watcher | wire protocol, watcher retry | vendored | – |
| Browser: connections (`assets/web/static/js/app.js`) | `activeWebRTCConnections`, `deviceConnectionStates`, the RTCPeerConnections, their channels and heartbeats | connect, retry, disconnect, batch buttons, peer and channel events, device messages | attempts run from await to await and find their record by key, which another attempt, a clean-up or a new apiUdid may have changed | what is stored is open; buttons follow the channel; attempts and heartbeats end |
| Browser: mouse, buttons and sync (`app.js`, `control.js`) | gesture of each video, sync mode, selection, timeouts of keys | mouse and key events, key and volume buttons, mirrored messages | gestures that end in several ways; releases that come from a timeout; touches scaled to other screens | fingers come up in pairs; touches land on the screen; keys do not stay down |
| Browser: full screen, keyboard and shells (`app.js`) | `currentFullscreenDeviceUDID`, `currentActiveDeviceUDID`, `currentActiveShellWindow`, shell windows, control bars that are moved in the page | enter, leave, click, blur, open and close shells, key events | full screen remembers an apiUdid that the device may lose meanwhile | one device's bars are in the view; no bar is destroyed; keys go where the user looks |
| Browser: device list (`app.js`) | cards, selection, boxes, view mode, WebSocket | device messages, lists, selection, reconnection | lists without numbers, messages that come between a question and its answer, out of order or to nobody | boxes tell the selection; the cards end as the server's table |
| Browser: file page (`files.js`) | list, selection, boxes, dialogs, progress bars | upload, select, install, push, delete, clean up | uploads and batches beside each other, each fetching the list | buttons follow the selection; the list ends as the server's; bars go away |
| Browser: terminal (`xterm.js`) | – | – | vendored, minified | – |

How they interact. `main.go` builds an endpoint per adb server; its device manager fills
the unified table and calls back when a device is lost. The callback ends in
`handleDeviceDisconnect` of the WebRTC manager, which posts to the supervisor of the
device. A browser's offer comes through the HTTP API into `CreateStream`: it finds or
builds the device's AndroidStreamer, reserves at the supervisor, waits for the shared
Start if there is one, stores a session and registers a video peer. Connection callbacks
and control messages go back to the supervisor through its mailbox. The hub only carries
broadcasts to browsers.

In the browser the page keeps one registry of devices; the WebSocket and `GET
/api/devices` change it. A device's apiUdid, its serial with adb's transport number, is
the key of everything else: of connection states and stored connections, of the active
device of the keyboard, and of the device in full screen. It changes when the device is
plugged in again, and that is where most of the hard cases come from. `initWebRTCStream`
makes the offers the server answers; the data channel it gets carries what the mouse,
the keys and the sync mode send. The file page shares nothing with the others but the
devices.

## 2. What is modelled

Three subsystems of the server and five of the browser. Streams and devices have a lower
module (one component) and a module that composes it with its callers; the third is the
video pipeline of one streamer. Each part of the browser is a module of its own. The
server is there what it answers, except in the device list, whose module has both sides:
what the server's goroutines and its hub do is where the difficulty comes from. The
connections also have an abstract specification they are shown to implement.

| Module | What it is |
|---|---|
| `StreamSupervisor` | the supervisor goroutine and its mailbox, the shared Start, and `AndroidStreamer.Start` and `Stop` as far as the supervisor sees them |
| `WebRTCOffer` | extends it with the offers (`CreateStream`, the offer handler, `finishScrcpyAttach`), connection callbacks, control messages, loss of the device; the specification and the properties |
| `MCWebRTCOffer` | two offers as model values, symmetric |
| `WebRTCOfferProofs` | theorems about the two |
| `DeviceManager` | adb, the watcher of `third_party/adb`, the device table, the reconnection loop of one endpoint's manager |
| `EndpointLife` | extends it with adding, status callbacks and removal of the endpoint; the specification and the properties |
| `MCEndpointLife` | the values of `retry=` |
| `EndpointLifeProofs` | theorems about the two |
| `StreamPipeline` | an AndroidStreamer: Start, StartReading, Stop, the coordinator, the orchestrator, the mailbox, the subscriptions; the specification and the properties |
| `MCStreamPipeline` | a session, two HTTP handlers, and the budgets of the runs |
| `StreamPipelineProofs` | theorems about it |
| `ConnectionSlots` | abstract: under each key at most one peer is held, which leaves by being closed or replaced and does not come back |
| `ClientConnection` | `startDeviceStream`, `initWebRTCStream`, the handlers of the peer and its channel, `cleanupWebRTCConnection`, the buttons and device messages; the refinement to `ConnectionSlots` |
| `ClientConnectionProofs` | theorems about it, the refinement among them |
| `ClientInput`, `ClientInputProofs` | the mouse handlers, key buttons and the sync mode, and what they leave pressed on the devices; theorems |
| `ClientFocus`, `ClientFocusProofs` | full screen, shell windows and the routing of keys; theorems |
| `ClientDevices`, `ClientDevicesProofs` | the device list on both sides: tables, watchers, ticker, handlers and hub of the server, WebSocket, cards and selection of the page; theorems |
| `ClientFiles`, `ClientFilesProofs` | the file page; theorems |
| `MCClientConnection`, `MCClientInput`, `MCClientFocus`, `MCClientDevices`, `MCClientFiles` | their constants for TLC |

### Streams: `StreamSupervisor` and `WebRTCOffer`

One device key is modelled; supervisors of different keys share nothing. An offer
reserves once and creates at most one streamer, one session map and one broadcast
channel, so these objects are named by the offer that creates them (`linkedStreamer =
o1` means that the map holds the streamer o1 built). Supervisors are numbered in the
order they are created.

*State.* `linkedSup`, `linkedStreamer` and `streams` are the three maps at the key;
`sessIn[o]` is the session map in which the session of o was stored, so a session is
found (`Visible`) when that map is still the current one. `ctrl`, `webrtcN`,
`fullyStarted`, `broadcast`, `pending`, `videoPeers` and `retired` are the fields of a
supervisor. `supPc` is its place in `run`: serving, inside `Stop` of a teardown,
draining, exited. `phase` and `cancelled` are the flags and the context of an
AndroidStreamer, `starter` the goroutine that runs its Start, `chan` the content of a
broadcast channel. `pc`, `streamerOf`, `supOf`, `waitOn`, `mapOf` are the locals of an
offer. `inFlight` holds the goroutines that looked a supervisor up and have not sent
yet: the code sends after the lookup, and the supervisor may retire and exit between the
two. `overrun` is a history variable: the supervisors whose session map a predecessor
has deleted while it drained. A budget says which offers come and how many events of
which kinds there are.

*Steps.* A message a supervisor handles is one action, because the goroutine alone
touches its fields, except for the teardown: it unlinks the streamer (`Unlink`), may
wait for the mutex a Start holds, and then stops, resets and retires (`SupStop`). In an
offer every access to a map is a step; `finishScrcpyAttach` makes three, to the session
(`AttachFind`), to the streamer (`AttachLoad`) and to the supervisor (`AttachRegister`).
Start is three steps: flags under the mutex, connect under the mutex, and the end, after
the mutex was released for the pipeline.
Control of the failures is complete: each call that returns an error may fail.

*Abstracted.* `clearVideoPeers` may wait for the mutex of the streamer before the
streamer is unlinked; the model unlinks first, and Stop waits for the same mutex.
`RegisterWebRTCVideoSub` and `RemoveWebRTCVideoSub` are assumed to return
(`StreamPipeline` shows when they do not). PeerConnection close callbacks, the browser's
own disconnect of a session and a sink that finds its track closed are one event,
`ConnEnds`: all three call `removeStreamSession`. The steps of the fallback in
`handleDeviceDisconnect`, and of a disconnect message before Stop, are one action. The
mailbox holds 4096 messages in the code; the model's capacity is never reached in the
runs, so nothing depends on it. Frames, ICE candidates, device messages and the
`reading` flag are left out.

### Devices: `DeviceManager` and `EndpointLife`

*State.* `plugged` is what adb has, `wire` what it has sent on a track-devices
connection, `known` and `events` the watcher's `lastKnownStates` and the differences it
has not delivered, `table` the manager's devices by `serial:transport`. Goroutine 0 is
the one of `StartWatcher`, goroutine w reads watcher w; `pc` is its place, and `depth`
the number of frames of the retry loop on its stack, because `startDeviceWatcher` is
called from the loop and may run a loop of its own. `listed`, `managed` and `epStatus`
are the endpoint manager, the table of managers and the shown status; `heard` is a
history variable.

*Steps.* A dial, a message, the end of a connection (a reset dials again with what was
last known, other errors end the watcher), an event handled, a version question, an
attempt, each callback, each step of adding and removing. A message queue is kept in
order and a state adb passes through is not skipped.

*Abstracted.* A serial names at most one device at a time. Handling an event is one
step: a single goroutine handles them, and the list it may ask adb for is of that
moment. Random event order within a message is kept. The callback for lost devices is
left out here; its effect is `DeviceLost` of `WebRTCOffer`. The library goroutine of a
stopped manager is left behind, blocked, in the code (`Shutdown` is empty); the model
forgets it. `epStatus` is one entry, since ids are random and not used again.

### The pipeline: `StreamPipeline`

*State.* A generation is one successful `startVideoPipelineWithGate`: its frame channel,
mailbox, coordinator and orchestrator carry its number. The streamer's fields
(`running`, `starting`, `reading`, `frameChan`, `streamCtrl`, `readStop`) are kept apart
from what a goroutine holds, because the goroutines read `s.frameChan` and
`s.readStopChan` again and again, some of it without the mutex: `coord[g].stop` is the
readStopChan the coordinator waits on, `orch[g].on` the frame channel the orchestrator
waits on, `coord[g].on` the one its send was begun with, `sup[k].to` the mailbox that
`postStreamCtrl` copied. `readStop` counts the readStopChans; those before the one in
the field are closed. `consumers` is `consumerCount`, `subState` the channels of the
subscribers, `panicked` a close of a closed channel, a send into one or a frame taken
from a closed one. `listed` says whether `deviceStreamers` still has the streamer.
`keyTaken`, `newestKey` and `again` are history variables.

*Steps.* Every critical section of the mutex and every channel operation is a step. The
connecting part of Start holds the mutex (`Locked`). A key frame drains the channel one
frame at a time while the orchestrator takes from it, and what is kept goes back frame
by frame.

*Supervisors.* They are here only clients of this streamer: each reserves, registers,
removes, tears down and stops in the order of `stream_supervisor.go`, from its own
goroutine, with a Start of its own. There may be several, because an offer keeps the
streamer it found (`webrtc.go:299`) and may bring it to a supervisor made after a
teardown, and because one that drains may still tear down. Start asks whether the
streamer runs or starts, and not whether it was stopped (`android_stream.go:143`), so a
streamer whose context has ended is started again then; `again` remembers that. No
property promises anything after that point, and "Disagreements" below says what
happens there.

*Abstracted.* Frames are their kind and a number. The read pump and the socket are the
choices of `CoordRead`, `CoordDrop` and `CoordEnd`. Copies to subscribers are sent
without waiting and may be lost, so only the closing of their channels is kept. `up`
turns true in Start only: the pool stops and makes servers and leaves the starting to
Start. A Start that ends after Stop returned may leave its scrcpy running; what becomes
of the pool is not in this module. A device that is lost while it has no supervisor has
its streamer stopped by the callback (`webrtc.go:556`), which is a step of `WebRTCOffer`
only. `StopReading` has no caller.

### The browser

JavaScript runs one handler at a time, so in all five modules an action is what runs
between two awaits, or in one callback. What the page awaits may be answered in any
order, and each answer may be an error.

*`ClientConnection`.* The card of one device, which may have several apiUdids (`Keys`)
one after the other. A call of `startDeviceStream` is an attempt; it makes one
RTCPeerConnection at most, so the attempt also names the peer, its channel and the
record stored for it. `activeWebRTCConnections[k]` is the attempt whose record is stored
under k, and `dataChannel`, `heartbeatInterval`, `sessionId` and `videoStreamSet` are
fields of a record, which name the attempt that put its own there: handlers look the
record up by key, and may write into that of another attempt. `at` is the await an
attempt is in. Candidates and statistics are left out, as are recoveries of the picture;
`maxRetries` is a constant. In `ConnectionSlots` terms a peer is unborn, held, stray (it
lives, but the map holds another one) or closed; the refinement maps
`activeWebRTCConnections` to the slots.

*`ClientInput`.* One axis of each video, in pixels; `Placed` is the scaling and rounding
a touch goes through on its way to another screen. `fingers` and `keys` are what the
messages of a channel have left down on its device, `missed` the devices that were
touched beside their screen. `timers` are the timeouts that release a key. A cleaned-up
connection replaces the video element, and the discarded one keeps its listeners
(`stale`).

*`ClientFocus`.* `bottomPanel` and `rightPanel` say where the bars of a device are: at
its card, in the view, or destroyed by an assignment to `innerHTML`. `active`,
`activeShell` and `fullscreen` are the three globals that decide where a key goes;
`held` is where a key is down. Connections come and go by any of the ways of
`ClientConnection`.

*`ClientDevices`.* On the server, `managed`, `wsHub`, `listed` and `status` are the
device managers, those that were given the hub, the devices in their tables, offline
ones included, and the status of each. A table changes under its mutex; what is told of
the change is told afterwards, in steps of its own, by whoever made it: `watcher` is the
goroutine of an endpoint (a status is read anew before it is told, a removal is told
twice, a lost endpoint tells of its devices before it takes them off the list), `admin`
the handler of an endpoint, `round` and `said` the ticker, which tells of every listed
device every five seconds from the objects it has copied. A manager without the hub
tells nobody. `client` is the page in the hub: the upgrade is answered before the client
is registered, and what is broadcast in between goes to nobody; `mail` is its queue,
and a client that is behind by `SendCap` messages is dropped. In the page, a list is
read on the server in a step of its own (`ListRead`) and applied in another one; a
message for a device without a card asks for a list. `lost` says that a list failed
since one was drawn. `ws.onclose` looks the cards up by a name no card has, and so
changes none.

Left out: a watcher that was stopped may handle one more event, and the watcher of an
endpoint that is added again begins after the old one's telling; administrators ask one
after the other; the discovery that goes before a watcher stands as its first events;
serials are distinct; the copy of all tables for a list is one step; the hub notices a
broken connection at once. Dropping a slow client costs one of the outages the budget
has, so that a page cannot be dropped for ever.

*`ClientFiles`.* A file is uploaded once and has one id. `checked` is what the boxes
show, `buttons` what `updateBatchButtons` last set, `bars` the progress elements by the
id that is computed from the file's name (two files may share one). `undrawn` is set
while the selection has been cleared and the list not drawn; `known` and `lost` say
whether the page has been given a list of the present store and whether an answer failed
that would have made it ask. A list becomes old when the store changes after it was
read. The server deletes file by file (`DeletionBegins`, `DeleteFile`, `Removed`), may
fail at each, and goes on when the page has stopped waiting (`DeletionLeft`,
`LeftEnds`). An upload whose answer fails before the file was saved is not saved later.
Calls and lists are model values in the run, and interchangeable.

## 3. Runs

| Run | Question | Result |
|---|---|---|
| `offer_safety` | two concurrent offers and one outside event: does any reply, waiter, reference or generation get lost? | holds; 999 thousand states under the view |
| `offer_liveness` | do offers end, and do unused streams stop, also when viewers leave, writes fail or the device goes? | holds; 92 thousand states |
| `reply_stranded` | is every request answered? (`stream_supervisor.go:174`) | violated |
| `leak` | does every count come down? (`stream_supervisor.go:206`) | violated |
| `endpoint_life` | does an endpoint recover, is it removed, does its table follow adb, is its status right at the end? | holds; 203 thousand states |
| `pipeline_safety` | does any order of Start, StartReading, Stop, reads and subscriptions by two supervisors give the device two readers, close a channel twice or lose a key frame, until a stopped streamer is started again? | holds; 2.1 million states |
| `pipeline_liveness` | does Stop end all of it, also a send to a full frame channel? | holds; 205 thousand states |
| `client_connection` | do two attempts, failures, clicks and a new apiUdid keep map, peers, heartbeats and buttons consistent? does the page implement `ConnectionSlots`? | holds; 284 thousand states |
| `client_input` | does every gesture end, land on the screens and release what it pressed, also when it is mirrored? | holds; 73 thousand states |
| `client_focus` | whose bars are in the view, and where do keys go, while devices and connections change? | holds; 404 thousand states |
| `client_devices` | do boxes follow the selection, and do cards end as the server's table through overlapping lists, early and late broadcasts and an outage? | holds; 644 thousand states |
| `client_files` | do boxes, list and progress bars come out right when uploads and batches overlap? | holds; 1.4 million states |

*Bounds.* `Offers` = 2: a shared Start, a batch with a member that gives up, and two
generations of supervisors all need two offers. `MaxSup` = 3 supervisors in
`offer_safety` and `leak` is all that two offers and one event create (5 give the same
states); it is 5 in `offer_liveness` and `reply_stranded`. `CtrlCap` = 8 is above what
can be queued. The view `MCView` leaves out locals an offer will not read again and the
content of a channel nobody waits on, which halves the states and changes no step. The
budget of `offer_safety` is two offers and one event, a viewer that leaves, a control
message or the loss of the device (with two events the run is too long); in
`offer_liveness` it is two offers, whose own ends cause removals, aborts and
retirements, or one offer with two events of any kind: it is served, watched, left and
torn down, in every order with a failed write and a lost device. `MaxChanges` = 3 in
`endpoint_life`: adb lost and back, lost again between the loop's question and the
watcher's (nesting), and once more under the next watcher; each watcher costs a change,
so four watchers are enough. `MaxTid` = 2 lets a device return with another transport.
`retry=` is -1, 0 and 2.

The pipeline runs take two supervisors, two generations (a handler may open the second
one when the first has ended, and an old orchestrator may meet the new channel), two
handlers, and up to two channels of a session that subscribes again. `Budgets` says what
a behaviour may have together: two supervisors with two generations or with one and a
channel, or one generation with two channels or with three frames that are read while
somebody consumes; all at once is too long a run. In `pipeline_liveness` it is two
generations, two supervisors, one channel or two frames, and one handler. `FrameCap` and
`KeepFrames`, 4 and 2 in the code, are 2 and 1, so that three frames fill the channel,
are drained, kept and cut; they are 1 and 0 in `pipeline_liveness`, where the first
frame fills it and the send of the second one blocks until somebody takes, the context
ends or the channel of stops is closed. `MailCap` is 1 instead of 64, so that a mailbox
is full when one message waits. `NotAgain`, a state constraint of both runs, ends a
behaviour when a stopped streamer is started again: `again` never becomes FALSE, and
every property but the types says nothing once it is TRUE, so nothing is hidden by it.

In every run deadlock is not checked, since a server at rest, all offers ended or all
changes used up, and a page nobody clicks on any more, have no step to take.

The client runs. `client_connection`: two attempts are what it takes for one to meet
another's record; two keys and one message are a device that is plugged in again once;
`MaxRetries` = 2 instead of 15 has one retry and a last one. `client_input`: screens of
two and of one pixel make rounding reach the border; two modifiers, one key with one
pending timeout, one change of a channel, the selection or the box. `client_focus`: two
devices with two transport numbers each, two shells. `client_devices`: one device with
two changes on the server and an outage, two of one endpoint with one change, one with a
change and a click; while the server stands still, three clicks with an outage, or with
devices of two endpoints. Two lists are under way and `SendCap` is 1 instead of 256: a
list can overtake another and a message a list, a broadcast can be too early, or fall
into the outage, and a client that is behind is dropped. `client_files`: two files that
share a progress bar, one of them an APK, two uploads, batches and lists, no new call
beside two others; the symmetry over these calls is sound because nothing tells them
apart and the run checks no liveness. What is proved (section 4) holds without these
bounds.

*Fairness.* Weak fairness for each goroutine of the server: a supervisor with work, a
Start (its dials and reads have timeouts), a send into a mailbox with room, an offer's
next step, a watcher, a retry loop, an adding or removing handler, a coordinator, an
orchestrator. Strong fairness for `CoordStopped` and
`OrchClosed`: a coordinator that drops frames, and an orchestrator that is sent
messages, come back to their select again and again, and Go's select takes one of the
ready cases at random, so that a closed channel is taken sooner or later. None for
browsers, devices, adb, the network or an administrator in the runs of the server. In
`client_connection`: a request is answered or fails, a promise of the browser settles
while its peer lives, a wait ends, an interval ticks; in `client_input`: a timeout
fires. In `client_devices`: goroutines run, the ticker ticks, a request for a list is
answered unless an outage of the budget takes it, a closed socket is opened again, the
page takes what it is sent. None for users, devices and the network. The other client
runs check safety only: that a list arrives and is drawn is up to the network, and their
properties speak of what holds when everything under way has arrived.

### The properties

- `ReplyOwed`: an offer that waits for a reply has its request on the way or in a
  mailbox. With `OfferEnds` it says that the only way to hang is a request sent after
  the supervisor has exited; `reply_stranded` shows that way.
- `OneSupervisor`: a supervisor that is not in the map is retired, and holds nothing
  while it drains.
- `NoForgottenWaiter`: each offer that still needs a Start's result has one in its
  channel, or is counted by the supervisor that owns the channel.
- `StoppedStaysStopped`: Start, ending after Stop, does not set running.
- `CountHasHolders`: `webrtcN` never exceeds the offers that will bring it down: those
  that have reserved and not stored, whose session is where a PeerClose finds it, or
  whose Release is on its way. It leaves out supervisors that were overrun, where this
  fails; `CountsComeDown`, the claim of the code's comment, has no such exemption, and
  `leak` violates it.
- `OfferEnds`, `UnusedStreamStops`: liveness of offers and of teardown. The second
  speaks of a streamer that starts or runs while no offer is in progress and every
  viewer has left: its session is gone, closed, or its PeerClose is under way. One that
  was linked and never started may stay in the map after its Reserve was drained, and is
  used by the next offer.
- `OneCaretaker`: one goroutine at a time watches, reconnects or gives up.
- `TableFollowsWatcher`: a watcher that is in sync leaves the table as adb has it, for
  every serial it was told of, also after a reset. It says nothing of a device that went
  away before this watcher first heard of it: such a device stays online, because a new
  watcher has no memory.
- `WatchedIsShown`: a watched endpoint ends up shown as connected.
- The next five hold until a streamer that was stopped is started again; each says so
  in its formula (`again`).
- `OneReader`: two coordinators never live together, although StartReading looks,
  unlocks and looks again, and `reading` is cleared by Stop before the old one is gone.
- `NoPanic`: no channel is closed twice or used after its close, although the frame
  channel is closed through a field and a subscriber's at three places.
- `KeyFits`, `NewestKeyKept`: the send of a key frame, which nothing interrupts, has
  room, and the newest key frame is dropped nowhere before an orchestrator has it.
- `StopCompletes`: after Stop every coordinator and orchestrator ends and no subscriber
  is left open.
- `EndpointRecovers`, `LostEndpointGoes`: what `README.md:138` says of `retry`.
- `StoredIsOpen`: a record in the map has a peer that is open, made under the same key.
- `HandlersFindTheirRecord`: handlers and intervals look their record up by key. As long
  as no record was replaced they find their own, and a heartbeat that runs can be
  stopped through its record. A replaced record is the case where this fails (below).
- `ButtonsFollowChannel`: a card is connected exactly while there is an open channel, as
  long as it keeps its key and no record was replaced.
- `ConnectedHasSession`: an open channel's record has the session of its own attempt, so
  that a disconnection ends this page's session and not those of all pages, or that of
  one earlier attempt, for the same apiUdid, that was closed before its answer came
  (below). As long as no record was replaced.
- `AttemptEnds`, `HeartbeatsEnd`: an attempt ends unless its peer was closed under its
  pending offer; an interval without a connection clears itself, a replaced one too.
- `SlotsImplemented`: the page implements `ConnectionSlots`.
- `GestureIsPressed`: no gesture outlives the button or its video.
- `TouchesOnScreen`: a mirrored touch lands on the other screen, rounding included.
- `FingersPaired`: the two fingers of a gesture are down or up together on every device,
  if the sync mode is never on without a connected card. It may be: the selection loses
  its last connected card and the box stays ticked; then a gesture reaches nobody.
- `MirrorsStayEqual`: while the sync mode is on, connected and selected devices in the
  same state of input stay in the same state.
- `KeysReleased`: a key that was put down comes up, or its channel goes. Without the
  sync mode only: when that is switched, or the selection changed, between press and
  release, the release goes to other devices.
- `OneControlBar`, `BottomBarKept`: bars of one device at most in the view, and none is
  destroyed there but that of the device shown after it got another apiUdid.
- `KeyboardRouted`: in full screen a key goes down on the device that is shown or
  nowhere; a shell that was closed is never active.
- `BoxesTruthful`: only devices with cards are selected, and the boxes for all and for
  each section say how many are. The section boxes may be out of date while a list is
  under way, and after one has failed.
- `CardsCatchUp`: from some point on, the card of every device the server lists says
  what the server's table says, and a device that is online has one, whatever was told
  too early, twice, out of order or to nobody and whichever list was overtaken. Of a
  device that is not listed any more the server says nothing more, and its card is not
  part of this.
- `ButtonsTruthful`, `ListCatchesUp`, `BarHasOwner`: the same for the file page and its
  buttons, and no progress bar stays without an upload or a timeout that removes it.

### What the violated ones show

- *A reply that never comes* (`reply_stranded`). `webRTCReserve` sends to a supervisor
  that has drained and exited since it was looked up. The send into the buffer succeeds
  and the handler waits for ever.
- *A count that never comes down* (`leak`). o1 reserves at the first supervisor and
  fails; before its Release arrives the device is lost, and the supervisor retires. o2
  reserves at the second one and looks the session map up. The first supervisor, which
  drains, handles o1's Release: its count is 0 already, so it tears the device down once
  more, which deletes the session map, o2's. o2 stores its session in a map nobody finds
  any more, fails, and its PeerClose at the second supervisor finds no session:
  `webrtcN` there stays 1 with nobody left, and the supervisor never retires. If its
  `scrcpyFullyStarted` is TRUE by then, later offers that wait for the Start it believes
  in fail with 「流未运行，无法添加视频轨道」.

### Disagreements met while modelling

The models contain these too; no run is spent on them.

Server:

- A late Release that a draining supervisor handles tears down more than the maps of its
  successor (`leak`): it also stops the streamer that the successor has listed, during
  the successor's Start, which fails with 「流已停止」; the next Reserve starts that
  streamer again, with a context that has ended (`stream_supervisor.go:233`). The old
  coordinator may still be at its select then; when it takes a frame first, and the
  gate of the new one opens, two coordinators read from one socket, and both close the
  channel in the field, the new one, twice (`android_stream.go:430`). The comment of
  Stop (`android_stream.go:319`) says what it is there to prevent: 「…导致读协程/scrcpy
  未停、重连双读或池状态脏」.
- A device lost between `getOrCreateStreamer` and the Reserve unlinks a streamer that
  Stop leaves alone, because it neither runs nor starts; its Start comes later
  (`webrtc.go:556`).
- Removing the session of a lost device creates a supervisor that never retires
  (`webrtc.go:567`).
- The orchestrator meets the closed frame channel and leaves its loop; until it has
  cleared `streamCtrl`, a request is sent into the buffer of its mailbox, and the
  supervisor waits for ever (`android_stream.go:223`).
- An inner retry loop gives up and the outer one reports success: a dead endpoint is
  shown as connected (`device.go:87`).

Connections:

- `initWebRTCStream` stores its record without a look at what the map holds by then
  (`app.js:3273`). Two attempts under way leave a peer that lives outside the map, and a
  failing attempt cleans up the connection of the other one (`app.js:3886` says
  「清理失败的连接」, the failed connection).
- An offer whose answer comes after its peer was cleaned up writes its session into the
  record that is stored by then, that of the next attempt (`app.js:3657`); the
  disconnection ends that session on the server instead of its own (`app.js:4231`).
- A channel that closes leaves its record stored (`app.js:3344`): the card says
  disconnected, and `startDeviceStream` returns at once because of the record. The
  dialog's 「断开后需要重新连接才能继续使用」 (`app.js:4226`) has no such case in mind.
- A device that is plugged in again takes the state of its card to its new apiUdid, and
  leaves the connection under the old one (`app.js:2015`).

Mouse, buttons and sync:

- With the sync mode on, the volume buttons call `injectKeycode` for every selected
  device (`app.js:5780`), and `sendControlMessage` mirrors each call to all selected
  devices again (`app.js:4602`): with two devices one click presses the key twice on
  each. The comment at `app.js:5764` has the buttons operate the current device only and
  leaves the mirroring to `sendControlMessage`:
  「只操作当前设备，同步广播由 sendControlMessage 统一处理」.
- A release that comes from a timeout goes where the sync mode and the selection point
  then: a device that got the press may keep the key down. In the same way a gesture
  that began mirrored leaves a finger down on a device that was deselected meanwhile.

Full screen and keyboard:

- The bars of a device that got a new apiUdid in full screen are not found at the exit,
  and emptying the view destroys the bottom bar (`app.js:6418`).
- A key that goes down asks for a shell with an open socket, a key that comes up for any
  active shell (`app.js:5484`, `app.js:5503`): a release may be lost to a shell whose
  socket has closed.
- Entering full screen leaves an active shell active (`app.js:6381`), so keys still go
  there until the view is clicked.

Device list:

- `ws.onclose` says that it cleans up (`app.js:188`), but hands `updateDeviceStatus` an
  apiUdid where a serial is looked for, and finds no card.
- Two lists under way are applied in the order they arrive, an older one last perhaps
  (`app.js:705`); cards of newer devices go, with their connections.
- The list is fetched again after a reconnection, not after the first connection, and
  the upgrade is answered before the hub has the client (`websocket_handler.go:19`,
  `websocket_handler.go:31`): a message sent in between is missed. The ticker of
  `main.go:157` heals it for devices that are listed.
- The ticker may tell "online" of a device that has left the list since it copied it
  (`main.go:157`): the page keeps a card that is online, of a device nobody speaks of
  again, until the next list.
- A box ticked while the view is switched there and back leaves the boxes of the
  sections as they were until a list is drawn (`app.js:1108`).

File page:

- A second install dialog takes the place of the first, whose `handleBatchInstall` never
  goes on; the panel it has hidden may stay hidden (`files.js:437`).
- A double click on "push" passes the guard twice, because the selection is read before
  the await (`files.js:670`); the second dialog may open with no file.
- What was ticked while a batch ran is deselected at its end (`files.js:1287`); a push
  deselects even if it was cancelled.
- After a clearing the delete button still says 「删除」, but opens the clean-up dialog,
  until the list is drawn.
- Ids of files that are not listed any more stay selected.

## 4. Proofs

TLAPS proves, for every value of the constants that satisfies the named assumptions
(`StreamAssumption`, `EnvAssumption`, `DeviceAssumption`, `PipelineAssumption`,
`ConnectionAssumption`, `InputAssumption`, `FocusAssumption`, `DevicesAssumption`,
`FilesAssumption`), every invariant that the passing runs check, the refinement, and
every other property of theirs that is not liveness:

| Theorem | Says |
|---|---|
| `TypeCorrect` | `Spec => []TypeOK`: in particular the counts never go below 0 |
| `StoppedStreamersStayStopped` | `Spec => []StoppedStaysStopped` |
| `OnlyOneSupervisor` | `Spec => []OneSupervisor` |
| `RepliesStayOwed` | `Spec => []ReplyOwed` |
| `WaitersAreCounted` | `Spec => []NoForgottenWaiter` |
| `CountIsHeld` | `Spec => []CountHasHolders`: the count of a supervisor that was not overrun |
| `OneGoroutineCares` | `Spec => []OneCaretaker` |
| `TableIsAsWatched` | `Spec => []TableFollowsWatcher` |
| `WatchedShownAsOk` | `Spec => []WatchedIsShown` |
| `PipelineTypeCorrect` | `Spec => []TypeOK` of the pipeline: no frame channel above its capacity |
| `OneReaderAtATime` | `Spec => []OneReader`: this one and the next three until a stopped streamer is started again |
| `KeyFramesFit` | `Spec => []KeyFits` |
| `KeyFramesArrive` | `Spec => []NewestKeyKept` |
| `ChannelsCloseOnce` | `Spec => []NoPanic` |
| `ConnectionTypeCorrect` | `Spec => []ConnectionTypeOK`: no attempt retries more often than it may |
| `StoredPeersAreOpen` | `Spec => []StoredIsOpen` |
| `ConnectionsImplementSlots` | `Spec => SlotsImplemented`: the refinement |
| `HandlersFindTheirOwn` | `Spec => []HandlersFindTheirRecord` |
| `ButtonsSayWhatIsOpen` | `Spec => []ButtonsFollowChannel` |
| `SessionsKnown` | `Spec => []ConnectedHasSession`: the own session, or the one a late answer has left |
| `InputTypesHold` | `Spec => []InputTypeOK`: what the page remembers of two fingers is on the screen |
| `GesturesEndWithButton` | `Spec => []GestureIsPressed` |
| `TouchesLand` | `Spec => []TouchesOnScreen` |
| `MirrorsAreEqual` | `Spec => MirrorsStayEqual` |
| `FingersStayPaired` | `Spec => FingersPaired` |
| `OneBarInView` | `Spec => []OneControlBar` |
| `BarsNotDestroyed` | `Spec => BottomBarKept` |
| `KeysGoWhereShown` | `Spec => KeyboardRouted` |
| `BoxesSayWhatIsSelected` | `Spec => []BoxesTruthful` |
| `ButtonsFollowSelection` | `Spec => []ButtonsTruthful` |
| `BarsGoAway` | `Spec => []BarHasOwner` |
| `ListsCatchUp` | `Spec => []ListCatchesUp` |

*Streams.* `TypeOK` is inductive by itself and proved one action at a time.
`StoppedStaysStopped` is inductive with it, because StartFinish looks at the context in
the step that sets running. `OneSupervisor` is not inductive: a teardown empties a
supervisor before it retires it, so `SupInv` follows the goroutine through unlinking,
stopping and draining and says what is empty at each place; the map holds the only
supervisor that may be before those places. `ReplyOwed` needs `ReplyInv`: an offer past
its lookup holds a supervisor; two lemmas say what an append and a tail do to the
messages of a mailbox.

The two properties that count offers rest on `MailInv`: an offer reserves once. Its
request is in one place, in flight or in one mailbox, until the answer; before the
answer nothing else is the offer's, no session, no Release and no PeerClose; and a
request or a Release is only ever mailed to the supervisor the offer looked up.
`NewsOfStep` says once, for all actions, what each of them puts into the mail.
`NoForgottenWaiter` then follows from `WaitInv`. A broadcast channel is named by the
offer whose reservation began the batch; since that offer reserves once, nobody waits on
the channel before, and one supervisor at most ever owns it. While it does, `pending` is
at least the number of waiters; when the batch is closed, by a result or an abort, the
channel gets as many results as were pending, and nobody joins any more. A waiter that
leaves takes one result with it or none.

`CountHasHolders` needs to know where a Release and a PeerClose arrive and which map a
session is in, which two offers at two generations of supervisors make hard: `OrderInv`
says that supervisors are born one after the other, each when all before it have
retired, and that the PeerClose of an offer is mailed to the supervisor of its
reservation or a later one. In the second case the earlier one has retired, and by
`SupInv` counts nobody. So every step adds to the count only with an offer that begins
to hold, and whoever stops holding is either counted down by the message that ends it or
held a supervisor that has retired (`CountJoins`, `CountStays`, `CountLeaves`,
`CountCleared`). That bounds the count by `Keepers`, among them the offers whose session
lies in a map nobody finds any more. `FoundInv` takes those out: as long as a supervisor
serves and was not overrun, the sessions of its offers lie in the map of the moment, and
so will those about to be stored, because whoever else deletes that map is the
supervisor itself, which then counts nobody and leaves, or the callback of a lost device
that finds no supervisor. The cardinality lemmas are those of `FiniteSetTheorems`; no
assumption says that there are finitely many offers, the sets counted are finite because
at most one offer joins in a step.

*Devices.* `OneCaretaker` is inductive with `NotBefore` (no goroutine before the
endpoint was added): only `SpawnWatcher` makes a goroutine active, and it takes the
activity from the one that calls it. `WatchedIsShown` follows from `Corrected`: a
watched endpoint with a bad status has a frame of the retry loop left that will write
"ok". A bad status is only written by the caretaker, and by `OneCaretaker` nobody
watches then; a new watcher is made by a caretaker with such a frame, or by StartWatcher
itself, whose status is still the one of the adding (`FirstCheckOk`, `AddedOk`).
`TableFollowsWatcher` is proved from `WatchInv`: for a serial whose events were all
taken, the table agrees with what the watching goroutine knows (`Follows`). By
`OneCaretaker` nothing but that goroutine's handler changes the table while it watches;
a watcher that is not made yet has heard of nothing (`Fresh`); and an event that the
handler has not taken yet says what is known of its serial by now (`EventsNew`).

*Pipeline.* The invariants are proved for streamers that were not started again.
`AgainStays` says that a restart stays one, so that a step to a state without one comes
from such a state, and each invariant carries `~again`. Nothing in the model keeps a
Start from a streamer that was stopped. `OneReader` follows from `ReadInv`: the
coordinator that lives is the one whose channel is in the field (`Current`) and waits
to send into no other one (`OwnChan`); while one lives, `reading` is set unless a Stop
has cleared it (`Guarded`); and a streamer that was stopped neither runs nor starts
(`Ended`), so that nobody opens a pipeline in that window. Which supervisor starts or
stops makes no difference. `KeyFits` rests on `ReadInv` and on a lemma about `LastKept`:
only the coordinator that lives adds to the channel in the field, and it keeps fewer
frames than fit. `NewestKeyKept` needs `KeyInv`: what a coordinator holds while it
drains and puts back includes the newest key frame, and what it holds while it tries a
send without waiting does not. So no drain cuts that frame and no failed try drops it.
`NoPanic` needs `PanicInv`: a frame channel is closed only by the coordinator of its
generation, which leaves then (`FrameInv`); each supervisor has one message out at a
time that it waits for (`MailInv`); a subscriber's channel is new, and in the hands of
one supervisor, until the message that adds it has been handled (`TodoInv`); and the
tables of the orchestrators hold open channels, each in one place (`TablesInv`), so that
one that is taken out and closed is in no other.

*Connections.* `StoredIsOpen` is inductive with the types and `PeersBornLate` (an
attempt has no peer before it has its ICE servers), so that a record is only stored for
a peer that is new. For the refinement every step is put into one of four kinds
(`MapStep`): *Quiet* (neither map nor lives of peers change), *Strays* (a peer that the
map does not hold fails, and stays what it is), *Takes* (a clean-up takes the record out
of the map and closes its peer) and *Stores* (a new peer goes into the map); one lemma
per kind maps it to a stutter, to `Close` or to `Hold`. The other three are about pages
on which no record was replaced, and a record that was replaced stays so
(`ReplacedForGood`): a step that leads to such a state began in one, which is what makes
`RecordInv` inductive. It says that what a record holds, its channel, heartbeat and
video, is the attempt's own (`OwnRecords`), and that a device is shown as connected
exactly when the channel of its record is open, as long as no apiUdid has changed
(`StatesRight`). For `SessionsKnown` it is `SessionInv`: an attempt has a peer before it
asks for a session (`AskersHavePeers`), so an answer that finds the record of another
attempt comes from one whose peer was cleaned up, and under the same apiUdid; only
answers give a record a session (`OnlyAnswersGiveSessions`).

*Input.* Each handler's messages are shown to be well sent (`WellSent`: a touch that a
handler computes is on the screen it was computed for) and to come in pairs
(`SentInPairs`: what one of the two fingers does, the other does in the same handler).
The rest is about any messages of that kind: what `sendControlMessage` and
`broadcastEventToDevices` make of them stays on every screen they are scaled to, for all
sizes, and leaves a device with both fingers or none. `GestureIsPressed` and the types
are inductive together (`InputInv`).

*Full screen, devices and files.* `OneControlBar` and `BottomBarKept` need `BarsInv`: a
bottom bar in the view is that of the device full screen was entered with, whatever
apiUdid it has by now, and two side bars in the view are the same; cardinality comes
from the singleton lemma of `FiniteSetTheorems`. `KeyboardRouted` needs `KeysInv`: in
full screen the active device is the one shown, or nobody, and the active shell is a
window that is open. `BoxesTruthful` follows from `BoxInv`: when nothing is under
way and no list was lost (`Quiet`), the list is drawn in the view that was chosen; that
is what lets every later click keep the boxes of the sections right. `ButtonsTruthful`
follows from `Drawn`, which says that boxes and buttons are those of the present list
and selection. `BarHasOwner` is inductive with the types of the uploads: one that is
under way has a file at the head of its queue. `ListCatchesUp` is the longest of these:
`ListInv` says that a list read after the last change of the store is fresh
(`FreshLists`), that the page shows the store once it knows such a list (`ListRight`),
and that otherwise someone still owes it one (`ListOwed`): a list under way, an upload
that was saved, or a deletion, from its first file until its answer is taken; by
`DialogsWait` a batch that is answered by its dialog owes no list.

Model-checked only: the violated properties, and all liveness (`OfferEnds`,
`UnusedStreamStops`, `EndpointRecovers`, `LostEndpointGoes`, `StopCompletes`,
`AttemptEnds`, `HeartbeatsEnd`, `KeysReleased`, `CardsCatchUp`), which is out of the
prover's reach together with ENABLED. No module uses RECURSIVE operators.

## 5. Plan

Every invariant of the runs has its theorem. Proofs to add come with the abstract
specifications of item 4: that each step of `WebRTCOffer` is a step of a shared stream
or a stutter, for which `SupsMove` (supervisors follow one another) and `CountInv` (what
joins and leaves a count) are the lemmas; and the streamer of `StreamSupervisor` as an
abstraction of `StreamPipeline`, on top of `Ended` and `Guarded`.

Modules to add, each with named assumptions, one action per operation, and no RECURSIVE
operator, and with one passing run:

1. `ScrcpyServer` (`scrcpy_server.go`) with its pool (`control_only.go`): start, stop,
   generations of the control writer and reader, the control queue that drops from 60
   entries on and must keep keys and touch-ups (`scrcpy_server.go:1156`), two callers
   that each store a server (`control_only.go:34`).
2. `FileStore` and `TaskQueue` (`files/manager.go`, `files/handler.go`): save and delete
   with a crash between any two steps (`manager.go:48`, `manager.go:300`), the index
   rebuilt at start, tasks that end after their deadline (`handler.go:542`). Abstract
   specification: a set of stored files, each whole or absent; `ClientFiles` already
   uses the server that way.
3. `Hub` (`websocket/hub.go:69`) with several clients, each dropped by a broadcast while
   its pump unregisters it (`ClientDevices` has one client, whose pumps are not in it),
   and pending ICE candidates (`webrtc.go:837`).
4. An abstract specification of a shared stream (a device streams exactly while somebody
   uses it), with `WebRTCOffer` shown to implement it apart from the disagreements
   above; in the same way, the streamer of `StreamSupervisor` (stopped, starting,
   running) as an abstraction of `StreamPipeline`.

## 6. Not modelled

*Server.* The HTTP routing, configuration, logging, the TURN server's wrapper, apk
lookup and the wire protocol of adb keep no protocol state of their own. H264 parsing
and RTP packetization handle bytes. The parts of the plan above have no module yet, and
neither have some corners of modelled parts: the manager stored for an endpoint that was
removed meanwhile (`unified_manager.go:132`), a retry loop that does not look at
`stopChan` (`device.go:354`), the disconnect callback that only endpoints of the command
line get (`main.go:204`), the goroutine of a peer whose channel got into no table
(`android_stream.go:249`), and properties of which configuration frame a drain keeps
(`android_stream.go:572`) or of the frames an orchestrator takes from the next
generation (`android_stream.go:685`).

*Browser.* Page layout and styling; the recovery of a picture that stalls and of its
autoplay, which asks the video element of the browser what it has; the statistics,
information and text panels; the panel of the endpoints; the clipboard (`app.js:6042`)
and the messages a device sends back (`app.js:4675`), which are shown or copied and kept
nowhere; terminal contents (`xterm.js` is vendored); the format of control messages.
Code that nothing calls is left out as well: `app.js:3812-3877` (behind a throw) with
`setupControlPanel` (`app.js:5344`), `showDeviceSelectModal` (`files.js:940`) and
`handleBatchOperationResults` (`files.js:914`).

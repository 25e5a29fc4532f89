--------------------------- MODULE StreamPipeline ---------------------------
(***************************************************************************)
(* The video pipeline of one AndroidStreamer                               *)
(* (internal/streaming/android_stream.go): the goroutine that coordinates  *)
(* the reads from the device, the orchestrator that owns the table of      *)
(* subscribers and fans the frames out, the mailbox through which the      *)
(* supervisor asks it to add and remove subscribers, Start, StartReading   *)
(* and Stop.                                                               *)
(*                                                                         *)
(* A generation is one call of startVideoPipelineWithGate that succeeded:  *)
(* it has a frame channel, a mailbox, a coordinator and an orchestrator,   *)
(* all named by its number. The goroutines read the streamer's fields      *)
(* again and again, so they may meet those of another generation.          *)
(*                                                                         *)
(* An offer keeps the streamer it found and may bring it to a supervisor   *)
(* made after an earlier one has stopped it, and a supervisor that has     *)
(* retired may still tear down what its successor uses: so supervisors     *)
(* work on one streamer side by side, and a streamer whose context has     *)
(* ended may be started again. What is promised of a pipeline is promised  *)
(* until then (see again).                                                 *)
(*                                                                         *)
(* The read pump only hands on what the device's socket yields: a result   *)
(* of it is a choice of CoordRead and CoordEnd. The sinks that range over  *)
(* the channel of a subscriber end when that channel is closed.            *)
(***************************************************************************)
EXTENDS Naturals, Sequences, FiniteSets

CONSTANTS
  MaxSups,     (* bound: supervisors that have this streamer to do with    *)
  Sessions,    (* WebRTC sessions that may subscribe                       *)
  Readers,     (* HTTP handlers that may call StartReading                 *)
  FrameCap,    (* capacity of frameChan, 4 in the code                     *)
  KeepFrames,  (* key and config frames a new key frame leaves queued, 2   *)
  MailCap,     (* capacity of streamCtrl, 64 in the code                   *)
  MaxGen,      (* bound: generations of the pipeline                       *)
  MaxSubs,     (* bound: channels RegisterWebRTCVideoSub is called with    *)
  Budgets      (* bound: what one behaviour may use of supervisors, of     *)
               (* generations, of channels, and of frames read while       *)
               (* somebody consumes                                        *)

ASSUME PipelineAssumption ==
  /\ FrameCap \in Nat /\ KeepFrames \in Nat /\ KeepFrames < FrameCap
  /\ MailCap \in Nat \ {0}
  /\ MaxGen \in Nat \ {0} /\ MaxSubs \in Nat /\ MaxSups \in Nat \ {0}
  /\ Budgets \subseteq [sups : 1 .. MaxSups, gens : 1 .. MaxGen, subs : 0 .. MaxSubs, reads : Nat]

Sups  == 1 .. MaxSups   \* of one device, in the order in which they were made
Gens  == 1 .. MaxGen
NoGen == 0              \* a nil channel; the one NewAndroidStreamer makes has no reader
Subs  == 1 .. MaxSubs
NoSub == 0

VARIABLES
  \* fields of the AndroidStreamer
  running, starting, reading,
  cancelled,    \* the context
  readStop,     \* which readStopChan is in the field; those before it are closed
  frameChan, streamCtrl, consumers,
  \* channels
  queue,        \* frames in a generation's frameChan
  closed,       \* the generations whose frameChan is closed
  mailbox,      \* messages in a generation's streamCtrl
  subState,     \* the channels of the subscribers
  panicked,     \* a channel was closed twice, written to after its close, or gave a nil frame
  \* goroutines
  starter,      \* the Start a supervisor has spawned
  again,        \* history: a Start has begun after a Stop ended the context
  gateOpen,     \* the generations whose gate is open
  reader,
  coord,        \* the coordinators
  orch,         \* the orchestrators
  sup,          \* the supervisors, as far as they use this streamer
  listed,       \* the streamer is the one deviceStreamers has for the device
  \* the device
  up,           \* scrcpyServer.IsRunning()
  reads, newestKey, keyTaken,
  budget

flags  == <<running, starting, reading>>
stops  == <<cancelled, readStop>>
fields == <<frameChan, streamCtrl>>
video  == <<queue, closed>>
device == <<up, reads, newestKey, budget>>
starts == <<starter, again>>
sups   == <<sup, listed>>
vars   == <<flags, stops, fields, consumers, video, mailbox, subState, panicked, starts,
            gateOpen, reader, coord, orch, sups, device, keyTaken>>

Kinds == {"config", "key", "delta"}
Frame == [kind : Kinds, id : Nat \ {0}]
Msg   == [op : {"add"}, by : Sups, session : Sessions, sub : Subs]
         \cup [op : {"remove"}, by : Sups, session : Sessions]
         \cup [op : {"active"}, on : BOOLEAN]

\* The supervisor that asks waits for the answer to an add and to a remove.
AddMsg(k, s, c) == [op |-> "add", by |-> k, session |-> s, sub |-> c]
RemoveMsg(k, s) == [op |-> "remove", by |-> k, session |-> s]
ActiveMsg(on)   == [op |-> "active", on |-> on]

\* The places of the goroutines.
StarterPcs == {"none", "spawned", "connecting", "connected", "piped", "opened", "failed",
               "started", "refused", "done"}
CoordPcs   == {"none", "gate", "select", "drain", "refill", "try", "send", "closing", "closed",
               "done"}
OrchPcs    == {"none", "loop", "select", "released", "done"}
SupStages  == {"serve", "reserve", "clear", "stop", "wait", "end", "drain"}

IdleCoord == [at |-> "none", stop |-> 0, on |-> NoGen, hold |-> <<>>, kept |-> <<>>]
IdleSup   == [stage |-> "serve", todo |-> <<>>, at |-> "idle", to |-> NoGen, acked |-> FALSE,
              peers |-> {}]
IdleOrch  == [at |-> "none", on |-> NoGen, subs |-> [s \in Sessions |-> NoSub], active |-> FALSE]

\* The streamer was just made and listed, by an offer. The first supervisor serves the
\* device, or drains its mailbox since an earlier streamer was stopped.
Init ==
  /\ running = FALSE /\ starting = FALSE /\ reading = FALSE
  /\ cancelled = FALSE /\ readStop = 0
  /\ frameChan = NoGen /\ streamCtrl = NoGen /\ consumers = 0
  /\ queue = [g \in Gens |-> <<>>] /\ closed = {}
  /\ mailbox = [g \in Gens |-> <<>>]
  /\ subState = [c \in Subs |-> "unused"]
  /\ panicked = FALSE
  /\ starter = [k \in Sups |-> [at |-> "none", gen |-> NoGen]] /\ again = FALSE
  /\ gateOpen = {}
  /\ reader = [r \in Readers |-> "idle"]
  /\ coord = [g \in Gens |-> IdleCoord]
  /\ orch = [g \in Gens |-> IdleOrch]
  /\ \E stage \in {"serve", "drain"} :
       sup = [[k \in Sups |-> IdleSup] EXCEPT ![1].stage = stage]
  /\ listed = TRUE
  /\ up = FALSE /\ reads = 0 /\ newestKey = 0 /\ keyTaken = TRUE
  /\ budget \in Budgets

\* Start holds the mutex while it connects to the device.
Locked == \E k \in Sups : starter[k].at = "connecting"

\* The generations whose orchestrator has not called orchWG.Done().
OrchAlive(g)  == orch[g].at \in {"loop", "select", "released"}
CoordAlive(g) == coord[g].at \notin {"none", "done"}

-----------------------------------------------------------------------------
(* Start, StartReading                                                      *)

\* What startVideoPipelineWithGate does when none of its checks fails. The generation
\* of a Start waits for the gate, one of StartReading has none.
OpenPipeline(g, gated) ==
  /\ g \in 1 .. budget.gens
  /\ coord[g].at = "none" /\ \A h \in Gens : h < g => coord[h].at # "none"
  /\ frameChan' = g /\ streamCtrl' = g
  /\ reading' = TRUE
  /\ coord' = [coord EXCEPT ![g].at = IF gated THEN "gate" ELSE "select", ![g].stop = readStop]
  /\ orch' = [orch EXCEPT ![g].at = "loop"]

MayPipe == (running \/ starting) /\ ~reading /\ up

StarterMoves(k, at) == starter' = [starter EXCEPT ![k].at = at]

\* A streamer that runs or starts refuses. Nothing asks whether it was stopped.
StartBegin(k) ==
  /\ starter[k].at = "spawned" /\ ~Locked
  /\ LET refused == running \/ starting
     IN /\ starting' = (starting \/ ~refused)
        /\ StarterMoves(k, IF refused THEN "refused" ELSE "connecting")
        /\ again' = (again \/ (cancelled /\ ~refused))
  /\ UNCHANGED <<running, reading, stops, fields, consumers, video, mailbox, subState, panicked,
                 gateOpen, reader, coord, orch, sups, device, keyTaken>>

\* Connecting succeeds, or Start returns and leaves the streamer as it was.
StartConnect(k) ==
  /\ starter[k].at = "connecting"
  /\ \/ up' = TRUE /\ StarterMoves(k, "connected") /\ UNCHANGED starting
     \/ up' \in {up, FALSE} /\ StarterMoves(k, "refused") /\ starting' = FALSE
  /\ UNCHANGED <<running, reading, stops, fields, consumers, video, mailbox, subState, panicked,
                 again, gateOpen, reader, coord, orch, sups, reads, newestKey, budget, keyTaken>>

StartPipeline(k) ==
  /\ starter[k].at = "connected" /\ ~Locked
  /\ \/ /\ MayPipe
        /\ \E g \in Gens :
             /\ OpenPipeline(g, TRUE)
             /\ starter' = [starter EXCEPT ![k] = [at |-> "piped", gen |-> g]]
     \/ /\ ~MayPipe /\ StarterMoves(k, "failed")
        /\ UNCHANGED <<reading, fields, coord, orch>>
  /\ UNCHANGED <<running, starting, stops, consumers, video, mailbox, subState, panicked,
                 again, gateOpen, reader, sups, device, keyTaken>>

StartOpenGate(k) ==
  /\ starter[k].at = "piped"
  /\ gateOpen' = gateOpen \cup {starter[k].gen}
  /\ StarterMoves(k, "opened")
  /\ UNCHANGED <<flags, stops, fields, consumers, video, mailbox, subState, panicked, again,
                 reader, coord, orch, sups, device, keyTaken>>

\* The context is looked at under the mutex that sets running.
StartFinish(k) ==
  /\ starter[k].at = "opened" /\ ~Locked
  /\ running' = (running \/ ~cancelled)
  /\ StarterMoves(k, IF cancelled THEN "failed" ELSE "started")
  /\ UNCHANGED <<starting, reading, stops, fields, consumers, video, mailbox, subState, panicked,
                 again, gateOpen, reader, coord, orch, sups, device, keyTaken>>

\* The deferred function of Start.
StartReturn(k) ==
  /\ starter[k].at \in {"failed", "started"} /\ ~Locked
  /\ starting' = FALSE
  /\ StarterMoves(k, IF starter[k].at = "started" THEN "done" ELSE "refused")
  /\ UNCHANGED <<running, reading, stops, fields, consumers, video, mailbox, subState, panicked,
                 again, gateOpen, reader, coord, orch, sups, device, keyTaken>>

\* StartReading looks, releases the mutex and calls startVideoPipelineWithGate,
\* which looks again.
ReaderCheck(r) ==
  /\ reader[r] = "idle" /\ ~Locked
  /\ running /\ ~reading /\ up
  /\ reader' = [reader EXCEPT ![r] = "checked"]
  /\ UNCHANGED <<flags, stops, fields, consumers, video, mailbox, subState, panicked, starts,
                 gateOpen, coord, orch, sups, device, keyTaken>>

ReaderPipeline(r) ==
  /\ reader[r] = "checked" /\ ~Locked
  /\ \/ MayPipe /\ \E g \in Gens : OpenPipeline(g, FALSE)
     \/ ~MayPipe /\ UNCHANGED <<reading, fields, coord, orch>>
  /\ reader' = [reader EXCEPT ![r] = "idle"]
  /\ UNCHANGED <<running, starting, stops, consumers, video, mailbox, subState, panicked, starts,
                 gateOpen, sups, device, keyTaken>>

-----------------------------------------------------------------------------
(* The coordinator of a generation                                          *)

CoordMoves(g, at) == coord' = [coord EXCEPT ![g].at = at]

\* Back to the select, which reads the field readStopChan when it is entered, not
\* while it waits.
CoordSelects(g) ==
  coord' = [coord EXCEPT ![g].at = "select", ![g].stop = readStop, ![g].on = NoGen,
                            ![g].hold = <<>>]

CoordGate(g) ==
  /\ coord[g].at = "gate" /\ g \in gateOpen
  /\ CoordSelects(g)
  /\ UNCHANGED <<flags, stops, fields, consumers, video, mailbox, subState, panicked, starts,
                 gateOpen, reader, orch, sups, device, keyTaken>>

CoordStopped(g) ==
  /\ coord[g].at \in {"gate", "select"}
  /\ cancelled \/ coord[g].stop < readStop
  /\ CoordMoves(g, "closing")
  /\ UNCHANGED <<flags, stops, fields, consumers, video, mailbox, subState, panicked, starts,
                 gateOpen, reader, orch, sups, device, keyTaken>>

\* Mutant of CoordEnd: the flag is cleared when the error is met.
CoordEndClears(g) ==
  /\ coord[g].at = "select"
  /\ up' \in {up, FALSE}
  /\ reading' = FALSE
  /\ CoordMoves(g, "closing")
  /\ UNCHANGED <<running, starting, stops, fields, consumers, video, mailbox, subState, panicked,
                 starts, gateOpen, reader, orch, sups, reads, newestKey, budget, keyTaken>>

\* The pump ended, an error said that it is over, there were too many errors or
\* scrcpy no longer runs; after ten EOFs the coordinator stops scrcpy itself.
CoordEnd(g) ==
  /\ coord[g].at = "select"
  /\ up' \in {up, FALSE}
  /\ CoordMoves(g, "closing")
  /\ UNCHANGED <<flags, stops, fields, consumers, video, mailbox, subState, panicked, starts,
                 gateOpen, reader, orch, sups, reads, newestKey, budget, keyTaken>>

\* A frame nobody consumes is dropped, as an empty one is and an error is waited out:
\* the coordinator comes back to its select, by then with another readStopChan perhaps.
CoordDrop(g) ==
  /\ coord[g].at = "select"
  /\ CoordSelects(g)
  /\ UNCHANGED <<flags, stops, fields, consumers, video, mailbox, subState, panicked, starts,
                 gateOpen, reader, orch, sups, device, keyTaken>>

CoordRead(g) ==
  /\ coord[g].at = "select" /\ up /\ consumers # 0
  /\ reads < budget.reads
  /\ reads' = reads + 1
  /\ \E k \in Kinds :
       /\ coord' = [coord EXCEPT ![g].hold = <<[kind |-> k, id |-> reads + 1]>>,
                                 ![g].at = CASE k = "key"    -> "drain"
                                             [] k = "config" -> "send"
                                             [] k = "delta"  -> "try"]
       /\ newestKey' = IF k = "key" THEN reads + 1 ELSE newestKey
       /\ keyTaken' = (keyTaken /\ k # "key")
  /\ UNCHANGED <<flags, stops, fields, consumers, video, mailbox, subState, panicked, starts,
                 gateOpen, reader, orch, sups, up, budget>>

\* A key frame takes out what is queued, one frame at a time, while the orchestrator
\* takes from the same channel; a closed channel gives it a nil frame to look into ...
CoordDrain(g) ==
  /\ coord[g].at = "drain" /\ frameChan # NoGen
  /\ \/ /\ queue[frameChan] # <<>>
        /\ LET f == Head(queue[frameChan])
           IN coord' = [coord EXCEPT ![g].kept = IF f.kind = "delta" THEN @ ELSE Append(@, f)]
        /\ queue' = [queue EXCEPT ![frameChan] = Tail(@)]
        /\ UNCHANGED panicked
     \/ /\ queue[frameChan] = <<>> /\ frameChan \in closed
        /\ panicked' = TRUE
        /\ UNCHANGED <<queue, coord>>
  /\ UNCHANGED <<flags, stops, fields, consumers, closed, mailbox, subState, starts,
                 gateOpen, reader, orch, sups, device, keyTaken>>

\* ... until it is empty, and keeps the last of the key and config frames.
\* LastKeptAll is a mutant: all of them.
LastKeptAll(kept) == kept

LastKept(kept) ==
  IF Len(kept) > KeepFrames THEN SubSeq(kept, Len(kept) - KeepFrames + 1, Len(kept)) ELSE kept

AfterDrain(kept) == IF kept = <<>> THEN "send" ELSE "refill"

CoordDrained(g) ==
  /\ coord[g].at = "drain" /\ frameChan # NoGen
  /\ queue[frameChan] = <<>> /\ frameChan \notin closed
  /\ LET kept == LastKept(coord[g].kept)
     IN coord' = [coord EXCEPT ![g].kept = kept, ![g].at = AfterDrain(kept)]
  /\ UNCHANGED <<flags, stops, fields, consumers, video, mailbox, subState, panicked, starts,
                 gateOpen, reader, orch, sups, device, keyTaken>>

\* They go back one by one, and are dropped when there is no room.
CoordRefill(g) ==
  /\ coord[g].at = "refill" /\ coord[g].kept # <<>> /\ frameChan # NoGen
  /\ coord' = [coord EXCEPT ![g].kept = Tail(@), ![g].at = AfterDrain(Tail(coord[g].kept))]
  /\ queue' = IF frameChan \in closed \/ Len(queue[frameChan]) = FrameCap THEN queue
              ELSE [queue EXCEPT ![frameChan] = Append(@, Head(coord[g].kept))]
  /\ panicked' = (panicked \/ frameChan \in closed)
  /\ UNCHANGED <<flags, stops, fields, consumers, closed, mailbox, subState, starts,
                 gateOpen, reader, orch, sups, device, keyTaken>>

\* A send reads the field frameChan when it is entered, not while it waits.
CoordEnter(g) ==
  /\ coord[g].at \in {"send", "try"} /\ coord[g].on = NoGen
  /\ coord' = [coord EXCEPT ![g].on = frameChan]
  /\ UNCHANGED <<flags, stops, fields, consumers, video, mailbox, subState, panicked, starts,
                 gateOpen, reader, orch, sups, device, keyTaken>>

\* A key or a config frame waits for room and looks at nothing else; another frame
\* is given up after 8 ms.
CoordSend(g) ==
  /\ coord[g].at \in {"send", "try"} /\ coord[g].on # NoGen
  /\ LET c == coord[g].on
     IN /\ c \notin closed => Len(queue[c]) < FrameCap
        /\ queue' = IF c \in closed THEN queue ELSE [queue EXCEPT ![c] = @ \o coord[g].hold]
        /\ panicked' = (panicked \/ c \in closed)
  /\ CoordSelects(g)
  /\ UNCHANGED <<flags, stops, fields, consumers, closed, mailbox, subState, starts,
                 gateOpen, reader, orch, sups, device, keyTaken>>

\* CoordGiveUpAny is a mutant: whatever the frame.
CoordGiveUpAny(g) ==
  /\ coord[g].at \in {"try", "send"} /\ coord[g].on # NoGen
  /\ CoordSelects(g)
  /\ UNCHANGED <<flags, stops, fields, consumers, video, mailbox, subState, panicked, starts,
                 gateOpen, reader, orch, sups, device, keyTaken>>

CoordGiveUp(g) ==
  /\ coord[g].at = "try" /\ coord[g].on # NoGen
  /\ CoordSelects(g)
  /\ UNCHANGED <<flags, stops, fields, consumers, video, mailbox, subState, panicked, starts,
                 gateOpen, reader, orch, sups, device, keyTaken>>

\* The deferred function closes the channel that is in the field by then.
CoordClose(g) ==
  /\ coord[g].at = "closing"
  /\ panicked' = (panicked \/ frameChan \in closed)
  /\ closed' = closed \cup {frameChan}
  /\ CoordMoves(g, "closed")
  /\ UNCHANGED <<flags, stops, fields, consumers, queue, mailbox, subState, starts,
                 gateOpen, reader, orch, sups, device, keyTaken>>

CoordExit(g) ==
  /\ coord[g].at = "closed" /\ ~Locked
  /\ reading' = FALSE
  /\ coord' = [coord EXCEPT ![g] = [IdleCoord EXCEPT !.at = "done"]]
  /\ UNCHANGED <<running, starting, stops, fields, consumers, video, mailbox, subState, panicked,
                 starts, gateOpen, reader, orch, sups, device, keyTaken>>

-----------------------------------------------------------------------------
(* The orchestrator of a generation                                         *)

Subscribed(o) == {o.subs[s] : s \in {t \in Sessions : o.subs[t] # NoSub}}

\* recalc: whether the orchestrator has somebody to send frames to.
Recalc(o) == IF Subscribed(o) # {} \/ o.active THEN 1 ELSE 0

\* Closing a channel that is closed already panics.
CloseSubs(cs) ==
  /\ subState' = [c \in Subs |-> IF c \in cs THEN "closed" ELSE subState[c]]
  /\ panicked' = (panicked \/ \E c \in cs : subState[c] = "closed")

\* A select reads the field frameChan when it is entered.
OrchWait(g) ==
  /\ orch[g].at = "loop"
  /\ orch' = [orch EXCEPT ![g].at = "select", ![g].on = frameChan]
  /\ UNCHANGED <<flags, stops, fields, consumers, video, mailbox, subState, panicked, starts,
                 gateOpen, reader, coord, sups, device, keyTaken>>

\* Handles one message; done tells the supervisor, who waits for it.
Handled(g, o) ==
  /\ orch' = [orch EXCEPT ![g] = [o EXCEPT !.at = "loop", !.on = NoGen]]
  /\ consumers' = Recalc(o)
  /\ mailbox' = [mailbox EXCEPT ![g] = Tail(@)]

Answered(k) == sup' = [sup EXCEPT ![k].acked = TRUE]

OrchAdd(g) ==
  /\ orch[g].at = "select" /\ mailbox[g] # <<>> /\ Head(mailbox[g]).op = "add"
  /\ LET m == Head(mailbox[g])
         old == orch[g].subs[m.session]
     IN /\ Handled(g, [orch[g] EXCEPT !.subs[m.session] = m.sub])
        /\ Answered(m.by)
        /\ subState' = [c \in Subs |-> IF c = old THEN "closed"
                                       ELSE IF c = m.sub THEN "open" ELSE subState[c]]
        /\ panicked' = (panicked \/ (old # NoSub /\ subState[old] = "closed"))
  /\ UNCHANGED <<flags, stops, fields, video, starts, gateOpen, reader, coord, listed, device,
                 keyTaken>>

\* Mutant of OrchRemove: the entry stays in the table.
OrchRemoveKeeps(g) ==
  /\ orch[g].at = "select" /\ mailbox[g] # <<>> /\ Head(mailbox[g]).op = "remove"
  /\ Handled(g, orch[g]) /\ Answered(Head(mailbox[g]).by)
  /\ CloseSubs({orch[g].subs[Head(mailbox[g]).session]} \ {NoSub})
  /\ UNCHANGED <<flags, stops, fields, video, starts, gateOpen, reader, coord, listed, device,
                 keyTaken>>

OrchRemove(g) ==
  /\ orch[g].at = "select" /\ mailbox[g] # <<>> /\ Head(mailbox[g]).op = "remove"
  /\ LET s == Head(mailbox[g]).session
     IN /\ Handled(g, [orch[g] EXCEPT !.subs[s] = NoSub]) /\ Answered(Head(mailbox[g]).by)
        /\ CloseSubs({orch[g].subs[s]} \ {NoSub})
  /\ UNCHANGED <<flags, stops, fields, video, starts, gateOpen, reader, coord, listed, device,
                 keyTaken>>

OrchActive(g) ==
  /\ orch[g].at = "select" /\ mailbox[g] # <<>> /\ Head(mailbox[g]).op = "active"
  /\ Handled(g, [orch[g] EXCEPT !.active = Head(mailbox[g]).on])
  /\ UNCHANGED <<flags, stops, fields, video, subState, panicked, starts, gateOpen, reader,
                 coord, sups, device, keyTaken>>

\* The copies for the subscribers are sent without waiting for them.
OrchFrame(g) ==
  /\ orch[g].at = "select" /\ orch[g].on \in Gens
  /\ queue[orch[g].on] # <<>>
  /\ keyTaken' = (keyTaken \/ Head(queue[orch[g].on]).id = newestKey)
  /\ queue' = [queue EXCEPT ![orch[g].on] = Tail(@)]
  /\ orch' = [orch EXCEPT ![g].at = "loop", ![g].on = NoGen]
  /\ panicked' = (panicked \/ \E c \in Subscribed(orch[g]) : subState[c] = "closed")
  /\ UNCHANGED <<flags, stops, fields, consumers, closed, mailbox, subState, starts,
                 gateOpen, reader, coord, sups, device>>

\* The frame channel is closed and empty: releaseAll.
OrchClosed(g) ==
  /\ orch[g].at = "select" /\ orch[g].on \in closed
  /\ queue[orch[g].on] = <<>>
  /\ CloseSubs(Subscribed(orch[g]))
  /\ orch' = [orch EXCEPT ![g] = [IdleOrch EXCEPT !.at = "released"]]
  /\ consumers' = 0
  /\ UNCHANGED <<flags, stops, fields, video, mailbox, starts, gateOpen, reader, coord, sups,
                 device, keyTaken>>

OrchExit(g) ==
  /\ orch[g].at = "released" /\ ~Locked
  /\ streamCtrl' = IF streamCtrl = g THEN NoGen ELSE streamCtrl
  /\ orch' = [orch EXCEPT ![g].at = "done"]
  /\ UNCHANGED <<flags, stops, frameChan, consumers, video, mailbox, subState, panicked, starts,
                 gateOpen, reader, coord, sups, device, keyTaken>>

-----------------------------------------------------------------------------
(* The supervisors of the device: each calls the streamer from one goroutine *)

\* A supervisor is made when those before it have retired. An offer that holds the
\* streamer brings it to the supervisor there is then, listed or not.
Serves(k) ==
  /\ k <= budget.sups /\ sup[k].stage = "serve"
  /\ \A j \in Sups : j < k => sup[j].stage = "drain"

Ready(k) == sup[k].at = "idle" /\ sup[k].todo = <<>>

\* stopVideoPeer finds the streamer through deviceStreamers.
Takeout(k, s) == IF listed THEN <<RemoveMsg(k, s)>> ELSE <<>>

\* Reserve asks for the frames first ...
SupReserve(k) ==
  /\ Serves(k) /\ Ready(k)
  /\ sup' = [sup EXCEPT ![k].stage = "reserve", ![k].todo = <<ActiveMsg(TRUE)>>]
  /\ UNCHANGED <<flags, stops, fields, consumers, video, mailbox, subState, panicked, starts,
                 gateOpen, reader, coord, orch, listed, device, keyTaken>>

\* ... and spawns a Start unless one is at work or has succeeded.
SupReserved(k) ==
  /\ sup[k].stage = "reserve" /\ Ready(k)
  /\ sup' = [sup EXCEPT ![k].stage = "serve"]
  /\ starter' = IF starter[k].at = "none" THEN [starter EXCEPT ![k].at = "spawned"] ELSE starter
  /\ UNCHANGED <<flags, stops, fields, consumers, video, mailbox, subState, panicked, again,
                 gateOpen, reader, coord, orch, listed, device, keyTaken>>

\* msgScrcpyStartDone of a Start that failed: the next Reserve spawns another.
SupStartDone(k) ==
  /\ sup[k].stage = "serve" /\ Ready(k) /\ starter[k].at = "refused"
  /\ StarterMoves(k, "none")
  /\ UNCHANGED <<flags, stops, fields, consumers, video, mailbox, subState, panicked, again,
                 gateOpen, reader, coord, orch, sups, device, keyTaken>>

\* RegisterVideoPeer takes a peer of that session out first.
SupRegister(k) ==
  /\ Serves(k) /\ Ready(k) /\ ~Locked /\ running
  /\ \E s \in Sessions, c \in 1 .. budget.subs :
       /\ subState[c] = "unused" /\ \A d \in Subs : d < c => subState[d] # "unused"
       /\ sup' = [sup EXCEPT ![k].todo = Append(Takeout(k, s), AddMsg(k, s, c)),
                             ![k].peers = @ \cup {s}]
       /\ subState' = [subState EXCEPT ![c] = "made"]
  /\ UNCHANGED <<flags, stops, fields, consumers, video, mailbox, panicked, starts,
                 gateOpen, reader, coord, orch, listed, device, keyTaken>>

\* A session is removed on its own, also by a supervisor that drains its mailbox while
\* another has it in its table, or with all the others of the supervisor's table.
SupPeerClose(k) ==
  /\ Serves(k) \/ sup[k].stage = "drain"
  /\ Ready(k)
  /\ \E s \in UNION {sup[j].peers : j \in Sups} :
       sup' = [sup EXCEPT ![k].todo = Takeout(k, s), ![k].peers = @ \ {s}]
  /\ UNCHANGED <<flags, stops, fields, consumers, video, mailbox, subState, panicked, starts,
                 gateOpen, reader, coord, orch, listed, device, keyTaken>>

SupClear(k) ==
  /\ sup[k].stage = "clear" /\ Ready(k)
  /\ \E s \in sup[k].peers :
       sup' = [sup EXCEPT ![k].todo = Takeout(k, s), ![k].peers = @ \ {s}]
  /\ UNCHANGED <<flags, stops, fields, consumers, video, mailbox, subState, panicked, starts,
                 gateOpen, reader, coord, orch, listed, device, keyTaken>>

\* The last use has ended or the device is lost; a late Release has a supervisor that
\* drains its mailbox do it once more, to what its successor has put there.
SupTeardown(k) ==
  /\ Serves(k) \/ sup[k].stage = "drain"
  /\ Ready(k)
  /\ sup' = [sup EXCEPT ![k].stage = "clear"]
  /\ UNCHANGED <<flags, stops, fields, consumers, video, mailbox, subState, panicked, starts,
                 gateOpen, reader, coord, orch, listed, device, keyTaken>>

\* The teardown stops the streamer it takes out of deviceStreamers.
SupUnlist(k) ==
  /\ sup[k].stage = "clear" /\ Ready(k) /\ sup[k].peers = {}
  /\ listed' = FALSE
  /\ sup' = IF listed THEN [sup EXCEPT ![k].stage = "stop", ![k].todo = <<ActiveMsg(FALSE)>>]
            ELSE [sup EXCEPT ![k].stage = "drain"]
  /\ UNCHANGED <<flags, stops, fields, consumers, video, mailbox, subState, panicked, starts,
                 gateOpen, reader, coord, orch, device, keyTaken>>

\* postStreamCtrl copies the field under the mutex and sends without it; with a nil
\* mailbox the caller goes on at once.
SupLook(k) ==
  /\ sup[k].at = "idle" /\ sup[k].todo # <<>> /\ ~Locked
  /\ sup' = IF streamCtrl = NoGen THEN [sup EXCEPT ![k].todo = Tail(@)]
            ELSE [sup EXCEPT ![k].at = "post", ![k].to = streamCtrl]
  /\ UNCHANGED <<flags, stops, fields, consumers, video, mailbox, subState, panicked, starts,
                 gateOpen, reader, coord, orch, listed, device, keyTaken>>

SupGoesOn(k) ==
  sup' = [sup EXCEPT ![k].todo = Tail(@), ![k].at = "idle", ![k].to = NoGen, ![k].acked = FALSE]

SupPost(k) ==
  /\ sup[k].at = "post" /\ Len(mailbox[sup[k].to]) < MailCap
  /\ mailbox' = [mailbox EXCEPT ![sup[k].to] = Append(@, Head(sup[k].todo))]
  /\ IF Head(sup[k].todo).op = "active" THEN SupGoesOn(k)
     ELSE sup' = [sup EXCEPT ![k].at = "wait"]
  /\ UNCHANGED <<flags, stops, fields, consumers, video, subState, panicked, starts,
                 gateOpen, reader, coord, orch, listed, device, keyTaken>>

\* A mailbox that stays full for five seconds.
SupPostTimeout(k) ==
  /\ sup[k].at = "post" /\ Len(mailbox[sup[k].to]) = MailCap
  /\ SupGoesOn(k)
  /\ UNCHANGED <<flags, stops, fields, consumers, video, mailbox, subState, panicked, starts,
                 gateOpen, reader, coord, orch, listed, device, keyTaken>>

SupAcked(k) ==
  /\ sup[k].at = "wait" /\ sup[k].acked
  /\ SupGoesOn(k)
  /\ UNCHANGED <<flags, stops, fields, consumers, video, mailbox, subState, panicked, starts,
                 gateOpen, reader, coord, orch, listed, device, keyTaken>>

\* Mutant of SupStop: the coordinator is told by readStopChan only.
SupStopUncancelled(k) ==
  /\ sup[k].stage = "stop" /\ Ready(k) /\ ~Locked
  /\ IF ~running /\ ~starting /\ ~reading
     THEN UNCHANGED <<flags, stops>> /\ sup' = [sup EXCEPT ![k].stage = "drain"]
     ELSE /\ running' = FALSE /\ starting' = FALSE /\ reading' = FALSE
          /\ readStop' = IF reading THEN readStop + 1 ELSE readStop
          /\ sup' = [sup EXCEPT ![k].stage = IF reading THEN "wait" ELSE "end"]
          /\ UNCHANGED cancelled
  /\ UNCHANGED <<fields, consumers, video, mailbox, subState, panicked, starts,
                 gateOpen, reader, coord, orch, listed, device, keyTaken>>

\* Stop up to its first unlock. It ends the flags and the context, interrupts the
\* read (CoordEnd), and waits for the orchestrators if a pipeline was reading. The
\* supervisor retires when Stop has returned.
SupStop(k) ==
  /\ sup[k].stage = "stop" /\ Ready(k) /\ ~Locked
  /\ IF ~running /\ ~starting /\ ~reading
     THEN UNCHANGED <<flags, stops>> /\ sup' = [sup EXCEPT ![k].stage = "drain"]
     ELSE /\ running' = FALSE /\ starting' = FALSE /\ reading' = FALSE
          /\ cancelled' = TRUE
          /\ readStop' = IF reading THEN readStop + 1 ELSE readStop
          /\ sup' = [sup EXCEPT ![k].stage = IF reading THEN "wait" ELSE "end"]
  /\ UNCHANGED <<fields, consumers, video, mailbox, subState, panicked, starts,
                 gateOpen, reader, coord, orch, listed, device, keyTaken>>

SupWaited(k) ==
  /\ sup[k].stage = "wait"
  /\ \A g \in Gens : ~OrchAlive(g)
  /\ sup' = [sup EXCEPT ![k].stage = "end"]
  /\ UNCHANGED <<flags, stops, fields, consumers, video, mailbox, subState, panicked, starts,
                 gateOpen, reader, coord, orch, listed, device, keyTaken>>

\* The rest of Stop ends a scrcpy that is not of the pool.
SupStopped(k) ==
  /\ sup[k].stage = "end" /\ ~Locked
  /\ up' \in {up, FALSE}
  /\ sup' = [sup EXCEPT ![k].stage = "drain"]
  /\ UNCHANGED <<flags, stops, fields, consumers, video, mailbox, subState, panicked, starts,
                 gateOpen, reader, coord, orch, listed, reads, newestKey, budget, keyTaken>>

\* The device goes away, or its scrcpy ends.
DeviceEnds ==
  /\ up /\ ~Locked
  /\ up' = FALSE
  /\ UNCHANGED <<flags, stops, fields, consumers, video, mailbox, subState, panicked, starts,
                 gateOpen, reader, coord, orch, sups, reads, newestKey, budget, keyTaken>>

-----------------------------------------------------------------------------
StartStep(k) ==
  \/ StartConnect(k) \/ StartPipeline(k) \/ StartOpenGate(k) \/ StartFinish(k)
  \/ StartReturn(k)

ReaderStep(r) == ReaderCheck(r) \/ ReaderPipeline(r)

CoordStep(g) ==
  \/ CoordGate(g) \/ CoordStopped(g) \/ CoordEnd(g) \/ CoordDrop(g)
  \/ CoordRead(g) \/ CoordDrain(g) \/ CoordDrained(g) \/ CoordRefill(g) \/ CoordEnter(g)
  \/ CoordSend(g) \/ CoordGiveUp(g)
  \/ CoordClose(g) \/ CoordExit(g)

OrchStep(g) ==
  \/ OrchWait(g) \/ OrchAdd(g) \/ OrchRemove(g) \/ OrchActive(g) \/ OrchFrame(g)
  \/ OrchClosed(g) \/ OrchExit(g)

SupFinishes(k) ==
  \/ SupLook(k) \/ SupPost(k) \/ SupPostTimeout(k) \/ SupAcked(k)
  \/ SupStop(k) \/ SupWaited(k) \/ SupStopped(k)

SupStep(k) ==
  \/ SupReserve(k) \/ SupReserved(k) \/ SupStartDone(k) \/ SupRegister(k)
  \/ SupPeerClose(k) \/ SupTeardown(k) \/ SupClear(k) \/ SupUnlist(k) \/ SupFinishes(k)

Next ==
  \/ \E k \in Sups : StartBegin(k) \/ StartStep(k) \/ SupStep(k)
  \/ \E r \in Readers : ReaderStep(r)
  \/ \E g \in Gens : CoordStep(g) \/ OrchStep(g)
  \/ DeviceEnds

Spec == Init /\ [][Next]_vars

(* Fairness. Every goroutine that can run does run. A Go select takes one of *)
(* its ready cases at random, so a coordinator that comes to its select      *)
(* again and again while it is told to stop does stop, and an orchestrator    *)
(* that is sent messages does meet its closed channel: strong fairness.      *)
FairSpec ==
  /\ Spec
  /\ \A g \in Gens : WF_vars(CoordStep(g)) /\ SF_vars(CoordStopped(g)) /\ WF_vars(OrchStep(g))
                     /\ SF_vars(OrchClosed(g))
  /\ \A k \in Sups : WF_vars(StartStep(k)) /\ WF_vars(SupFinishes(k))

-----------------------------------------------------------------------------
(* Properties                                                               *)

Starter      == [at : StarterPcs, gen : Gens \cup {NoGen}]
Coordinator  == [at : CoordPcs, stop : Nat, on : Gens \cup {NoGen}, hold : Seq(Frame),
                 kept : Seq(Frame)]
Orchestrator == [at : OrchPcs, on : Gens \cup {NoGen}, subs : [Sessions -> Subs \cup {NoSub}],
                 active : BOOLEAN]
Supervisor   == [stage : SupStages, todo : Seq(Msg), at : {"idle", "post", "wait"},
                 to : Gens \cup {NoGen}, acked : BOOLEAN, peers : SUBSET Sessions]

FieldsOK ==
  /\ running \in BOOLEAN /\ starting \in BOOLEAN /\ reading \in BOOLEAN
  /\ cancelled \in BOOLEAN /\ readStop \in Nat
  /\ frameChan \in Gens \cup {NoGen} /\ streamCtrl \in Gens \cup {NoGen}
  /\ consumers \in {0, 1}

ChannelsOK ==
  /\ queue \in [Gens -> Seq(Frame)] /\ \A g \in Gens : Len(queue[g]) <= FrameCap
  /\ closed \subseteq Gens \cup {NoGen}
  /\ mailbox \in [Gens -> Seq(Msg)]
  /\ subState \in [Subs -> {"unused", "made", "open", "closed"}]
  /\ panicked \in BOOLEAN

CoordsOK == coord \in [Gens -> Coordinator] /\ \A g \in Gens : Len(coord[g].hold) <= 1
OrchsOK  == orch \in [Gens -> Orchestrator]
SupsOK   ==
  /\ sup \in [Sups -> Supervisor]
  /\ \A k \in Sups : sup[k].at # "idle" => sup[k].to \in Gens /\ sup[k].todo # <<>>

OthersOK ==
  /\ starter \in [Sups -> Starter] /\ again \in BOOLEAN /\ gateOpen \subseteq Gens \cup {NoGen}
  /\ reader \in [Readers -> {"idle", "checked"}]
  /\ up \in BOOLEAN /\ reads \in Nat /\ newestKey \in Nat /\ keyTaken \in BOOLEAN
  /\ budget \in Budgets

\* The types; a frame channel holds at most FrameCap frames, consumerCount is 0 or 1,
\* and a supervisor that posts or waits has a message and a mailbox.
TypeOK == FieldsOK /\ ChannelsOK /\ CoordsOK /\ OrchsOK /\ SupsOK /\ OthersOK

\* Two handlers that both found the stream idle, a handler and a Start, two Starts, a
\* Stop in between never leave two coordinators alive, which would read from one socket
\* - unless the streamer was started again after its context had ended.
OneReader == again \/ \A g, h \in Gens : CoordAlive(g) /\ CoordAlive(h) => g = h

\* Until a stopped streamer is started again, no goroutine closes a channel that is closed,
\* sends into one or looks into a frame of one: not the frame channel that a deferred
\* function takes from a field others replace, not the channel of a subscriber that two
\* supervisors replace, remove or release with the rest.
NoPanic == again \/ ~panicked

\* The channel a coordinator sends its frame to.
Target(g) == IF coord[g].on = NoGen THEN frameChan ELSE coord[g].on

\* The send of a key frame, which looks at neither the context nor readStopChan, finds
\* room: what the drain puts back leaves a place, whatever the orchestrator did meanwhile
\* and whichever channel is in the field by now - until a stopped streamer starts again.
KeyFits ==
  again \/ \A g \in Gens :
    coord[g].at = "send" /\ coord[g].hold[1].kind = "key" => Len(queue[Target(g)]) < FrameCap

FrameIn(seq, id) == \E i \in 1 .. Len(seq) : seq[i].id = id

\* Frames are dropped to keep the delay low, but the newest key frame that was read for
\* a consumer is on its way until an orchestrator has taken it.
NewestKeyKept ==
  \/ again
  \/ keyTaken
  \/ \E g \in Gens : FrameIn(queue[g], newestKey) \/ FrameIn(coord[g].hold, newestKey)

\* A Stop that had something to stop comes to an end, and leaves no coordinator, no
\* orchestrator and no subscriber that still waits for frames - unless a Start comes
\* after it.
StopCompletes ==
  cancelled \/ (\E k \in Sups : sup[k].stage = "wait")
    ~> \/ again
       \/ /\ \A k \in Sups : sup[k].stage \notin {"wait", "end"}
          /\ \A g \in Gens : ~CoordAlive(g) /\ ~OrchAlive(g)
          /\ \A c \in Subs : subState[c] # "open"
=============================================================================

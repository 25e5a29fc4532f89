-------------------------- MODULE StreamSupervisor --------------------------
(***************************************************************************)
(* The per-device stream supervisor: the goroutine that owns the WebRTC    *)
(* refcount of one device, shares one scrcpy Start() between concurrent    *)
(* offers, tears the stream down when nobody uses it, retires and drains   *)
(* its mailbox (internal/streaming/stream_supervisor.go), together with    *)
(* the AndroidStreamer life cycle it drives (Start and Stop in             *)
(* internal/streaming/android_stream.go).                                  *)
(*                                                                         *)
(* One device key is modelled: supervisors of different keys share no      *)
(* state. Offers stands for the calls of CreateStream; an offer reserves   *)
(* once, creates at most one streamer, one session map and one broadcast   *)
(* channel, so these objects are named by the offer that creates them.     *)
(* The goroutines that post into ctrl are in WebRTCOffer.                  *)
(***************************************************************************)
EXTENDS Naturals, Sequences, FiniteSets

CONSTANTS
  Offers,    (* the WebRTC offers a device may receive                     *)
  None,      (* nil: no streamer, no session map, no channel               *)
  MaxSup,    (* how many supervisor generations the model can create       *)
  CtrlCap    (* capacity of ctrl, streamSupCtrlCap in the code             *)

ASSUME StreamAssumption ==
  /\ None \notin Offers
  /\ MaxSup \in Nat \ {0}
  /\ CtrlCap \in Nat \ {0}

Sups  == 1 .. MaxSup
NoSup == 0

VARIABLES
  \* the manager's concurrent maps, at this device's key
  linkedSup,       \* streamSupervisors
  linkedStreamer,  \* deviceStreamers
  streams,         \* streams: which session map is current
  sessIn,          \* for each offer, the session map its session is stored in
  \* supervisor goroutines
  supPc,           \* where the goroutine is
  retired,         \* the supervisors whose retired flag is set
  overrun,         \* history: those whose session map the teardown of an earlier one deleted
  ctrl,            \* mailbox
  webrtcN,         \* refcount: reservations and sessions
  fullyStarted,    \* scrcpyFullyStarted
  broadcast,       \* scrcpyWaitBroadcast
  pending,         \* scrcpyWaitersPending
  videoPeers,      \* sessions with a registered video track
  stopping,        \* the streamer a teardown has unlinked and is about to Stop
  \* AndroidStreamers, the goroutines that run Start, the broadcast channels
  phase,           \* the running and starting flags
  cancelled,       \* the streamer's context is cancelled
  starter,         \* the goroutine that runs Start for the offer's broadcast
  chan,            \* what a broadcast channel holds: n copies of one result
  \* offers
  pc,              \* where CreateStream, or what follows it, is
  streamerOf,      \* the streamer the offer holds a pointer to
  supOf,           \* the supervisor it reserved at
  waitOn,          \* the channel it waits on, None when the reply held nil
  mapOf,           \* the session map its LoadOrStore returned
  pcClosed,        \* its PeerConnection was closed by the server
  \* goroutines that hold a supervisor and a message, about to send
  inFlight

tableVars    == <<linkedSup, linkedStreamer, streams, sessIn>>
startVars    == <<fullyStarted, broadcast, pending>>
streamerVars == <<phase, cancelled, starter>>
offerVars    == <<pc, streamerOf, supOf, waitOn, mapOf, pcClosed>>
svars        == <<tableVars, supPc, retired, overrun, ctrl, webrtcN, startVars, videoPeers,
                  stopping, streamerVars, chan, offerVars, inFlight>>

-----------------------------------------------------------------------------
(* Messages. Every message has the same fields; those its kind does not     *)
(* use hold None or FALSE.                                                  *)

OfferKinds == {"reserve", "release", "register", "peerClose", "control"}
OtherKinds == {"startDone", "disconnect"}

Msg == [kind : OfferKinds, offer : Offers, streamer : Offers \cup {None}, ok : {FALSE}]
       \cup [kind : OtherKinds, offer : {None}, streamer : {None}, ok : BOOLEAN]

OfferMsg(k, o)    == [kind |-> k, offer |-> o, streamer |-> None, ok |-> FALSE]
RegisterMsg(o, s) == [kind |-> "register", offer |-> o, streamer |-> s, ok |-> FALSE]
StartDoneMsg(ok)  == [kind |-> "startDone", offer |-> None, streamer |-> None, ok |-> ok]
DisconnectMsg     == [kind |-> "disconnect", offer |-> None, streamer |-> None, ok |-> FALSE]

Senders == {"offer", "conn", "device", "control"}

\* A goroutine that has looked a supervisor up and is about to send m to it; by
\* tells the goroutines apart.
Post(g, by, m) == [to |-> g, by |-> by, msg |-> m]

SupPcs   == {"unborn", "loop", "stopTeardown", "stopDisconnect", "drain", "exited"}
Phases   == {"idle", "starting", "running"}
Starters == {"none", "spawned", "locked", "piped", "done"}
OfferPcs == {"idle", "creating", "resolved", "reserving", "reserved", "storing",
             "stored", "registering", "regFailed", "releasing", "answering",
             "attaching", "attachReady", "attachFound", "attachLoaded", "attachReg",
             "removing", "served", "failed", "gone"}

SInit ==
  /\ linkedSup = NoSup /\ linkedStreamer = None /\ streams = None
  /\ sessIn = [o \in Offers |-> None]
  /\ supPc = [g \in Sups |-> "unborn"]
  /\ retired = {} /\ overrun = {}
  /\ ctrl = [g \in Sups |-> <<>>]
  /\ webrtcN = [g \in Sups |-> 0]
  /\ fullyStarted = [g \in Sups |-> FALSE]
  /\ broadcast = [g \in Sups |-> None]
  /\ pending = [g \in Sups |-> 0]
  /\ videoPeers = [g \in Sups |-> {}]
  /\ stopping = [g \in Sups |-> None]
  /\ phase = [s \in Offers |-> "idle"]
  /\ cancelled = [s \in Offers |-> FALSE]
  /\ starter = [b \in Offers |-> "none"]
  /\ chan = [b \in Offers |-> [n |-> 0, ok |-> FALSE]]
  /\ pc = [o \in Offers |-> "idle"]
  /\ streamerOf = [o \in Offers |-> None]
  /\ supOf = [o \in Offers |-> NoSup]
  /\ waitOn = [o \in Offers |-> None]
  /\ mapOf = [o \in Offers |-> None]
  /\ pcClosed = [o \in Offers |-> FALSE]
  /\ inFlight = {}

-----------------------------------------------------------------------------
(* Helpers the handlers share.                                              *)

\* The session is found by a lookup in streams (streams.Load, then Load).
Visible(o) == sessIn[o] # None /\ sessIn[o] = streams

\* The sessions streamSessionCount counts.
Sessions == {o \in Offers : Visible(o)}

\* Start holds the streamer's mutex while it connects to scrcpy.
Locked(s) == \E b \in Offers : starter[b] = "locked" /\ streamerOf[b] = s

\* Mutant: the count is not corrected when it falls below 0.
FloorMissing(n) == n - 1

Floor(n) == IF n > 0 THEN n - 1 ELSE 0

\* sup.ctrl <- m by a goroutine that has held the supervisor all along.
Sends(g, m) ==
  /\ Len(ctrl[g]) < CtrlCap
  /\ ctrl' = [ctrl EXCEPT ![g] = Append(@, m)]

Receives(g, pcs, kind) ==
  /\ supPc[g] \in pcs
  /\ ctrl[g] # <<>>
  /\ Head(ctrl[g]).kind = kind
  /\ ctrl' = [ctrl EXCEPT ![g] = Tail(@)]

\* supervisorFor: the linked supervisor, or a fresh one that is linked and runs.
SupervisorFor(g) ==
  \/ /\ g = linkedSup
     /\ UNCHANGED <<linkedSup, supPc>>
  \/ /\ linkedSup = NoSup
     /\ supPc[g] = "unborn"
     /\ \A h \in Sups : h < g => supPc[h] # "unborn"
     /\ linkedSup' = g
     /\ supPc' = [supPc EXCEPT ![g] = "loop"]

\* Mutant: the wait is forgotten and nobody is woken.
AbortWaitersSilently(g) ==
  /\ pending' = [pending EXCEPT ![g] = 0]
  /\ broadcast' = [broadcast EXCEPT ![g] = None]
  /\ fullyStarted' = [fullyStarted EXCEPT ![g] = FALSE]
  /\ UNCHANGED chan

\* abortScrcpyWaitBroadcast: every counted waiter gets an error.
AbortWaiters(g) ==
  /\ chan' = IF broadcast[g] # None /\ pending[g] > 0
               THEN [chan EXCEPT ![broadcast[g]] = [n |-> pending[g], ok |-> FALSE]]
               ELSE chan
  /\ pending' = [pending EXCEPT ![g] = 0]
  /\ broadcast' = [broadcast EXCEPT ![g] = None]
  /\ fullyStarted' = [fullyStarted EXCEPT ![g] = FALSE]

\* teardownConsumersLocked up to the call of Stop, and the same steps of a
\* device disconnect: wake the waiters, drop the peers, unlink the streamer.
Unlink(g, next) ==
  /\ AbortWaiters(g)
  /\ videoPeers' = [videoPeers EXCEPT ![g] = {}]
  /\ stopping' = [stopping EXCEPT ![g] = linkedStreamer]
  /\ linkedStreamer' = None
  /\ supPc' = [supPc EXCEPT ![g] = next]

\* noConsumersLeft, then teardown. left: the sessions that remain, peers: the
\* video peers that remain.
TeardownIfIdle(g, n, left, peers) ==
  /\ webrtcN' = [webrtcN EXCEPT ![g] = n]
  /\ \/ /\ n = 0 /\ left = {}
        /\ Unlink(g, "stopTeardown")
     \/ /\ n > 0 \/ left # {}
        /\ videoPeers' = [videoPeers EXCEPT ![g] = peers]
        /\ UNCHANGED <<chan, startVars, stopping, linkedStreamer, supPc>>

\* AndroidStreamer.Stop: a streamer that neither runs nor starts is left alone.
StopStreamer(s) ==
  IF s # None /\ phase[s] # "idle"
    THEN /\ phase' = [phase EXCEPT ![s] = "idle"]
         /\ cancelled' = [cancelled EXCEPT ![s] = TRUE]
    ELSE UNCHANGED <<phase, cancelled>>

\* The answer to registerVideoPeer continues the goroutine that waits for it.
AfterRegister(o, ok) ==
  CASE pc[o] = "registering" -> IF ok THEN "answering" ELSE "regFailed"
    [] pc[o] = "attachReg"   -> IF ok THEN "served" ELSE "removing"
    [] OTHER                 -> pc[o]

-----------------------------------------------------------------------------
(* The supervisor goroutine: one action per message it handles in its loop. *)

SupReserve(g) ==
  /\ Receives(g, {"loop"}, "reserve")
  /\ LET o == Head(ctrl[g]).offer IN
     /\ ~Locked(streamerOf[o])    \* SetWebRTCVideoPipelineActive takes the mutex
     /\ webrtcN' = [webrtcN EXCEPT ![g] = @ + 1]
     /\ pc' = [pc EXCEPT ![o] = "reserved"]
     /\ \/ /\ fullyStarted[g]
           /\ UNCHANGED <<waitOn, broadcast, pending, starter>>
        \/ /\ ~fullyStarted[g] /\ broadcast[g] = None
           /\ broadcast' = [broadcast EXCEPT ![g] = o]
           /\ pending' = [pending EXCEPT ![g] = 1]
           /\ starter' = [starter EXCEPT ![o] = "spawned"]
           /\ waitOn' = [waitOn EXCEPT ![o] = o]
        \/ /\ ~fullyStarted[g] /\ broadcast[g] # None
           /\ pending' = [pending EXCEPT ![g] = @ + 1]
           /\ waitOn' = [waitOn EXCEPT ![o] = broadcast[g]]
           /\ UNCHANGED <<broadcast, starter>>
  /\ UNCHANGED <<tableVars, supPc, retired, overrun, fullyStarted, videoPeers, stopping, phase,
                 cancelled, chan, streamerOf, supOf, mapOf, pcClosed, inFlight>>

\* Mutant: one waiter gets the result, not each of the batch.
SupStartDoneOne(g) ==
  /\ Receives(g, {"loop"}, "startDone")
  /\ LET ok == Head(ctrl[g]).ok IN
     IF pending[g] = 0 /\ broadcast[g] = None
       THEN UNCHANGED <<chan, startVars>>
       ELSE /\ chan' = [chan EXCEPT ![broadcast[g]] = [n |-> 1, ok |-> ok]]
            /\ pending' = [pending EXCEPT ![g] = 0]
            /\ broadcast' = [broadcast EXCEPT ![g] = None]
            /\ fullyStarted' = [fullyStarted EXCEPT ![g] = ok]
  /\ UNCHANGED <<tableVars, supPc, retired, overrun, webrtcN, videoPeers, stopping,
                 streamerVars, offerVars, inFlight>>

SupStartDone(g) ==
  /\ Receives(g, {"loop"}, "startDone")
  /\ LET ok == Head(ctrl[g]).ok IN
     IF pending[g] = 0 /\ broadcast[g] = None
       THEN UNCHANGED <<chan, startVars>>        \* a late result is ignored
       ELSE /\ chan' = [chan EXCEPT ![broadcast[g]] = [n |-> pending[g], ok |-> ok]]
            /\ pending' = [pending EXCEPT ![g] = 0]
            /\ broadcast' = [broadcast EXCEPT ![g] = None]
            /\ fullyStarted' = [fullyStarted EXCEPT ![g] = ok]
  /\ UNCHANGED <<tableVars, supPc, retired, overrun, webrtcN, videoPeers, stopping,
                 streamerVars, offerVars, inFlight>>

\* Mutant: the count goes down and nobody looks whether it was the last.
SupReleaseOnly(g) ==
  /\ Receives(g, {"loop", "drain"}, "release")
  /\ webrtcN' = [webrtcN EXCEPT ![g] = Floor(@)]
  /\ UNCHANGED <<tableVars, supPc, retired, overrun, startVars, videoPeers, stopping,
                 streamerVars, chan, offerVars, inFlight>>

\* Also called while draining: drainOneMsgRetired hands Release to handleCtrlMsg.
SupRelease(g) ==
  /\ Receives(g, {"loop", "drain"}, "release")
  /\ TeardownIfIdle(g, Floor(webrtcN[g]), Sessions, videoPeers[g])
  /\ UNCHANGED <<linkedSup, streams, sessIn, retired, overrun, streamerVars, offerVars,
                 inFlight>>

\* removeOneWebRTCSession, in the loop and while draining.
SupPeerClose(g) ==
  /\ Receives(g, {"loop", "drain"}, "peerClose")
  /\ LET o == Head(ctrl[g]).offer IN
     \/ /\ ~Visible(o)
        /\ UNCHANGED <<linkedStreamer, sessIn, supPc, webrtcN, startVars, videoPeers, stopping,
                       chan, pcClosed>>
     \/ /\ Visible(o)
        /\ ~Locked(linkedStreamer)    \* stopVideoPeer takes the mutex
        /\ sessIn' = [sessIn EXCEPT ![o] = None]
        /\ pcClosed' = [pcClosed EXCEPT ![o] = TRUE]
        /\ TeardownIfIdle(g, Floor(webrtcN[g]), Sessions \ {o}, videoPeers[g] \ {o})
  /\ UNCHANGED <<linkedSup, streams, retired, overrun, streamerVars, pc, streamerOf, supOf,
                 waitOn, mapOf, inFlight>>

SupRegister(g) ==
  /\ Receives(g, {"loop"}, "register")
  /\ LET o == Head(ctrl[g]).offer
         s == Head(ctrl[g]).streamer
         ok == s # None /\ phase[s] = "running" IN
     /\ ~Locked(s)
     /\ ok => ~Locked(linkedStreamer)
     /\ pc' = [pc EXCEPT ![o] = AfterRegister(o, ok)]
     /\ videoPeers' = IF ok THEN [videoPeers EXCEPT ![g] = @ \cup {o}] ELSE videoPeers
  /\ UNCHANGED <<tableVars, supPc, retired, overrun, webrtcN, startVars, stopping,
                 streamerVars, chan, streamerOf, supOf, waitOn, mapOf, pcClosed, inFlight>>

SupDisconnect(g) ==
  /\ Receives(g, {"loop"}, "disconnect")
  /\ Unlink(g, "stopDisconnect")
  /\ pcClosed' = [o \in Offers |-> pcClosed[o] \/ Visible(o)]
  /\ streams' = None
  /\ webrtcN' = [webrtcN EXCEPT ![g] = 0]
  /\ UNCHANGED <<linkedSup, sessIn, retired, overrun, streamerVars, pc, streamerOf, supOf,
                 waitOn, mapOf, inFlight>>

\* A control message whose write fails posts a disconnect from a new goroutine.
SupControl(g) ==
  /\ Receives(g, {"loop"}, "control")
  /\ \/ UNCHANGED inFlight
     \/ /\ Visible(Head(ctrl[g]).offer) /\ linkedStreamer # None
        /\ inFlight' = inFlight \cup {Post(g, "control", DisconnectMsg)}
  /\ UNCHANGED <<tableVars, supPc, retired, overrun, webrtcN, startVars, videoPeers, stopping,
                 streamerVars, chan, offerVars>>

\* Mutant: Delete for CompareAndDelete, which removes a successor from the map.
SupStopDeletes(g) ==
  /\ supPc[g] \in {"stopTeardown", "stopDisconnect"}
  /\ ~Locked(stopping[g])
  /\ StopStreamer(stopping[g])
  /\ streams' = IF supPc[g] = "stopTeardown" THEN None ELSE streams
  /\ overrun' = IF supPc[g] = "stopTeardown" THEN overrun \cup ({linkedSup} \ {g, NoSup})
                                             ELSE overrun
  /\ webrtcN' = [webrtcN EXCEPT ![g] = 0]
  /\ linkedSup' = NoSup
  /\ retired' = retired \cup {g}
  /\ stopping' = [stopping EXCEPT ![g] = None]
  /\ supPc' = [supPc EXCEPT ![g] = "drain"]
  /\ UNCHANGED <<linkedStreamer, sessIn, ctrl, startVars, videoPeers, starter, chan, offerVars,
                 inFlight>>

\* Stop returns; the rest of the teardown and retireSupervisor.
SupStop(g) ==
  /\ supPc[g] \in {"stopTeardown", "stopDisconnect"}
  /\ ~Locked(stopping[g])
  /\ StopStreamer(stopping[g])
  /\ streams' = IF supPc[g] = "stopTeardown" THEN None ELSE streams
  /\ overrun' = IF supPc[g] = "stopTeardown" THEN overrun \cup ({linkedSup} \ {g, NoSup})
                                             ELSE overrun
  /\ webrtcN' = [webrtcN EXCEPT ![g] = 0]
  /\ linkedSup' = IF linkedSup = g THEN NoSup ELSE linkedSup
  /\ retired' = retired \cup {g}
  /\ stopping' = [stopping EXCEPT ![g] = None]
  /\ supPc' = [supPc EXCEPT ![g] = "drain"]
  /\ UNCHANGED <<linkedStreamer, sessIn, ctrl, startVars, videoPeers, starter, chan, offerVars,
                 inFlight>>

(* drainOneMsgRetired: what a retired supervisor does with what is queued.  *)

\* The reply carries a channel that already holds errSupervisorRetired.
DrainReserve(g) ==
  /\ Receives(g, {"drain"}, "reserve")
  /\ LET o == Head(ctrl[g]).offer IN
     /\ chan' = [chan EXCEPT ![o] = [n |-> 1, ok |-> FALSE]]
     /\ waitOn' = [waitOn EXCEPT ![o] = o]
     /\ pc' = [pc EXCEPT ![o] = "reserved"]
  /\ UNCHANGED <<tableVars, supPc, retired, overrun, webrtcN, startVars, videoPeers, stopping,
                 streamerVars, streamerOf, supOf, mapOf, pcClosed, inFlight>>

\* Mutant: a register request is dropped without a reply.
DrainRegisterSilent(g) ==
  /\ Receives(g, {"drain"}, "register")
  /\ UNCHANGED <<tableVars, supPc, retired, overrun, webrtcN, startVars, videoPeers, stopping,
                 streamerVars, chan, offerVars, inFlight>>

DrainRegister(g) ==
  /\ Receives(g, {"drain"}, "register")
  /\ LET o == Head(ctrl[g]).offer IN pc' = [pc EXCEPT ![o] = AfterRegister(o, FALSE)]
  /\ UNCHANGED <<tableVars, supPc, retired, overrun, webrtcN, startVars, videoPeers, stopping,
                 streamerVars, chan, streamerOf, supOf, waitOn, mapOf, pcClosed, inFlight>>

DrainDrop(g) ==
  /\ \E k \in {"startDone", "disconnect", "control"} : Receives(g, {"drain"}, k)
  /\ UNCHANGED <<tableVars, supPc, retired, overrun, webrtcN, startVars, videoPeers, stopping,
                 streamerVars, chan, offerVars, inFlight>>

SupExit(g) ==
  /\ supPc[g] = "drain" /\ ctrl[g] = <<>>
  /\ supPc' = [supPc EXCEPT ![g] = "exited"]
  /\ UNCHANGED <<tableVars, retired, overrun, ctrl, webrtcN, startVars, videoPeers, stopping,
                 streamerVars, chan, offerVars, inFlight>>

SupStep(g) ==
  \/ SupReserve(g) \/ SupStartDone(g) \/ SupRelease(g) \/ SupPeerClose(g)
  \/ SupRegister(g) \/ SupDisconnect(g) \/ SupControl(g) \/ SupStop(g)
  \/ DrainReserve(g) \/ DrainRegister(g) \/ DrainDrop(g) \/ SupExit(g)

-----------------------------------------------------------------------------
(* The goroutine that runs AndroidStreamer.Start for a broadcast, and posts *)
(* the result to the supervisor that spawned it.                            *)

StartReturns(b, ok) ==
  /\ starter' = [starter EXCEPT ![b] = "done"]
  /\ Sends(supOf[b], StartDoneMsg(ok))

\* The mutex is taken and the flags are looked at.
StartBegin(b) ==
  /\ starter[b] = "spawned"
  /\ ~Locked(streamerOf[b])
  /\ \/ /\ phase[streamerOf[b]] # "idle"
        /\ StartReturns(b, FALSE)
        /\ UNCHANGED phase
     \/ /\ phase[streamerOf[b]] = "idle"
        /\ phase' = [phase EXCEPT ![streamerOf[b]] = "starting"]
        /\ starter' = [starter EXCEPT ![b] = "locked"]
        /\ UNCHANGED ctrl
  /\ UNCHANGED <<tableVars, supPc, retired, overrun, webrtcN, startVars, videoPeers, stopping,
                 cancelled, chan, offerVars, inFlight>>

\* scrcpy is started, or reconnected, under the mutex; then the mutex is released.
StartConnect(b) ==
  /\ starter[b] = "locked"
  /\ \/ /\ starter' = [starter EXCEPT ![b] = "piped"]
        /\ UNCHANGED <<phase, ctrl>>
     \/ /\ phase' = [phase EXCEPT ![streamerOf[b]] = "idle"]
        /\ StartReturns(b, FALSE)
  /\ UNCHANGED <<tableVars, supPc, retired, overrun, webrtcN, startVars, videoPeers, stopping,
                 cancelled, chan, offerVars, inFlight>>

\* Mutant: running is set without a look at the context.
StartFinishUnchecked(b) ==
  /\ starter[b] = "piped"
  /\ ~Locked(streamerOf[b])
  /\ \/ /\ phase' = [phase EXCEPT ![streamerOf[b]] = "running"]
        /\ StartReturns(b, TRUE)
     \/ /\ phase' = [phase EXCEPT ![streamerOf[b]] = IF @ = "starting" THEN "idle" ELSE @]
        /\ StartReturns(b, FALSE)
  /\ UNCHANGED <<tableVars, supPc, retired, overrun, webrtcN, startVars, videoPeers, stopping,
                 cancelled, chan, offerVars, inFlight>>

\* The pipeline is up, or failed to come up; a cancelled context wins over success.
StartFinish(b) ==
  /\ starter[b] = "piped"
  /\ ~Locked(streamerOf[b])
  /\ LET s == streamerOf[b] IN
     \/ /\ ~cancelled[s]
        /\ phase' = [phase EXCEPT ![s] = "running"]
        /\ StartReturns(b, TRUE)
     \/ /\ phase' = [phase EXCEPT ![s] = IF @ = "starting" THEN "idle" ELSE @]
        /\ StartReturns(b, FALSE)
  /\ UNCHANGED <<tableVars, supPc, retired, overrun, webrtcN, startVars, videoPeers, stopping,
                 cancelled, chan, offerVars, inFlight>>

StartStep(b) == StartBegin(b) \/ StartConnect(b) \/ StartFinish(b)

\* The send of a goroutine that had to look the supervisor up first: it may have
\* retired, or exited, since the lookup.
Deliver(p) ==
  /\ p \in inFlight
  /\ Sends(p.to, p.msg)
  /\ inFlight' = inFlight \ {p}
  /\ UNCHANGED <<tableVars, supPc, retired, overrun, webrtcN, startVars, videoPeers, stopping,
                 streamerVars, chan, offerVars>>
=============================================================================

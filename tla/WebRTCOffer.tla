---------------------------- MODULE WebRTCOffer ----------------------------
(***************************************************************************)
(* The callers of the stream supervisor: CreateStream, the rest of the     *)
(* offer handler, finishScrcpyAttach, the connection callbacks that remove *)
(* a session, and the loss of the device                                   *)
(* (internal/streaming/webrtc.go). Composed with StreamSupervisor it is    *)
(* the whole life of one device's stream.                                  *)
(*                                                                         *)
(* Every access of an offer to one of the manager's sync.Maps is a step of *)
(* its own, so that other goroutines come between two of them as they do   *)
(* in the code.                                                            *)
(***************************************************************************)
EXTENDS StreamSupervisor

CONSTANT Budgets   (* bound: which offers come in one behaviour, how many times the *)
                   (* outside acts on them, and in what way                         *)

EventKinds == {"connEnds", "control", "deviceLost"}

ASSUME EnvAssumption ==
  Budgets \subseteq [offers : SUBSET Offers, events : Nat, kinds : SUBSET EventKinds]

VARIABLE budget

vars == <<svars, budget>>

Init ==
  /\ SInit
  /\ budget \in Budgets

-----------------------------------------------------------------------------
(* CreateStream.                                                            *)

Step(o, from, to) == pc[o] = from /\ pc' = [pc EXCEPT ![o] = to]

\* getOrCreateStreamer finds the shared streamer, or has to build one.
OfferLoadStreamer(o) ==
  /\ o \in budget.offers
  /\ \/ /\ linkedStreamer # None
        /\ Step(o, "idle", "resolved")
        /\ streamerOf' = [streamerOf EXCEPT ![o] = linkedStreamer]
     \/ /\ linkedStreamer = None
        /\ Step(o, "idle", "creating")
        /\ UNCHANGED streamerOf
  /\ UNCHANGED <<tableVars, supPc, retired, overrun, ctrl, webrtcN, startVars, videoPeers,
                 stopping, streamerVars, chan, supOf, waitOn, mapOf, pcClosed, inFlight,
                 budget>>

\* Building it fails, or LoadOrStore keeps the one that was stored first. The
\* loser is stopped, which does nothing to a streamer that never started.
OfferLinkStreamer(o) ==
  /\ \/ /\ Step(o, "creating", "failed")
        /\ UNCHANGED <<linkedStreamer, streamerOf>>
     \/ /\ Step(o, "creating", "resolved")
        /\ linkedStreamer' = IF linkedStreamer = None THEN o ELSE linkedStreamer
        /\ streamerOf' = [streamerOf EXCEPT ![o] = linkedStreamer']
  /\ UNCHANGED <<linkedSup, streams, sessIn, supPc, retired, overrun, ctrl, webrtcN, startVars,
                 videoPeers, stopping, streamerVars, chan, supOf, waitOn, mapOf, pcClosed,
                 inFlight, budget>>

\* supervisorFor, then webRTCReserve up to its send.
OfferFindSup(o) ==
  /\ Step(o, "resolved", "reserving")
  /\ \E g \in Sups :
       /\ SupervisorFor(g)
       /\ supOf' = [supOf EXCEPT ![o] = g]
       /\ inFlight' = inFlight \cup {Post(g, "offer", OfferMsg("reserve", o))}
  /\ UNCHANGED <<linkedStreamer, streams, sessIn, retired, overrun, ctrl, webrtcN, startVars,
                 videoPeers, stopping, streamerVars, chan, streamerOf, waitOn, mapOf, pcClosed,
                 budget>>

\* The PeerConnection, a track, the data channel or the adb device fails.
OfferFail(o) ==
  /\ Step(o, "reserved", "releasing")
  /\ UNCHANGED <<tableVars, supPc, retired, overrun, ctrl, webrtcN, startVars, videoPeers,
                 stopping, streamerVars, chan, streamerOf, supOf, waitOn, mapOf, pcClosed,
                 inFlight, budget>>

\* streams.LoadOrStore: the current session map, or a new one.
OfferLookupMap(o) ==
  /\ Step(o, "reserved", "storing")
  /\ streams' = IF streams = None THEN o ELSE streams
  /\ mapOf' = [mapOf EXCEPT ![o] = streams']
  /\ UNCHANGED <<linkedSup, linkedStreamer, sessIn, supPc, retired, overrun, ctrl, webrtcN,
                 startVars, videoPeers, stopping, streamerVars, chan, streamerOf, supOf,
                 waitOn, pcClosed, inFlight, budget>>

\* sessionsMap.Store; with a Start to wait for, the track is attached later.
OfferStore(o) ==
  /\ Step(o, "storing", IF waitOn[o] = None THEN "stored" ELSE "answering")
  /\ sessIn' = [sessIn EXCEPT ![o] = mapOf[o]]
  /\ UNCHANGED <<linkedSup, linkedStreamer, streams, supPc, retired, overrun, ctrl, webrtcN,
                 startVars, videoPeers, stopping, streamerVars, chan, streamerOf, supOf,
                 waitOn, mapOf, pcClosed, inFlight, budget>>

\* registerVideoPeer with activeStreamerOr, at the supervisor of the reservation.
OfferRegister(o) ==
  /\ Step(o, "stored", "registering")
  /\ LET s == IF linkedStreamer # None THEN linkedStreamer ELSE streamerOf[o] IN
     Sends(supOf[o], RegisterMsg(o, s))
  /\ UNCHANGED <<tableVars, supPc, retired, overrun, webrtcN, startVars, videoPeers, stopping,
                 streamerVars, chan, streamerOf, supOf, waitOn, mapOf, pcClosed, inFlight,
                 budget>>

\* The session is taken out again and the PeerConnection closed.
OfferUndo(o) ==
  /\ Step(o, "regFailed", "releasing")
  /\ sessIn' = [sessIn EXCEPT ![o] = None]
  /\ pcClosed' = [pcClosed EXCEPT ![o] = TRUE]
  /\ UNCHANGED <<linkedSup, linkedStreamer, streams, supPc, retired, overrun, ctrl, webrtcN,
                 startVars, videoPeers, stopping, streamerVars, chan, streamerOf, supOf,
                 waitOn, mapOf, inFlight, budget>>

\* Mutant: CreateStream returns its error without giving the reservation back.
OfferReleaseForgotten(o) ==
  /\ Step(o, "releasing", "failed")
  /\ UNCHANGED <<tableVars, supPc, retired, overrun, ctrl, webrtcN, startVars, videoPeers,
                 stopping, streamerVars, chan, streamerOf, supOf, waitOn, mapOf, pcClosed,
                 inFlight, budget>>

\* tryWebRTCRelease: nothing to send once the supervisor has retired. The select
\* that gives up when the supervisor exits first loses a message nobody reads.
OfferRelease(o) ==
  /\ Step(o, "releasing", "failed")
  /\ \/ supOf[o] \in retired /\ UNCHANGED ctrl
     \/ supOf[o] \notin retired /\ Sends(supOf[o], OfferMsg("release", o))
  /\ UNCHANGED <<tableVars, supPc, retired, overrun, webrtcN, startVars, videoPeers, stopping,
                 streamerVars, chan, streamerOf, supOf, waitOn, mapOf, pcClosed, inFlight,
                 budget>>

-----------------------------------------------------------------------------
(* The rest of the offer handler, and finishScrcpyAttach.                   *)

\* SetRemoteDescription, CreateAnswer or SetLocalDescription fails; or, with no
\* Start to wait for, StartReading fails: it does when the streamer has stopped.
OfferAnswer(o) ==
  /\ \/ Step(o, "answering", "removing")
     \/ Step(o, "answering", "attaching") /\ waitOn[o] # None
     \/ /\ Step(o, "answering", "served")
        /\ waitOn[o] = None /\ phase[streamerOf[o]] = "running"
  /\ UNCHANGED <<tableVars, supPc, retired, overrun, ctrl, webrtcN, startVars, videoPeers,
                 stopping, streamerVars, chan, streamerOf, supOf, waitOn, mapOf, pcClosed,
                 inFlight, budget>>

\* The waiter takes one result out of its channel.
AttachWake(o) ==
  /\ Step(o, "attaching", IF chan[waitOn[o]].ok THEN "attachReady" ELSE "removing")
  /\ chan[waitOn[o]].n > 0
  /\ chan' = [chan EXCEPT ![waitOn[o]].n = @ - 1]
  /\ UNCHANGED <<tableVars, supPc, retired, overrun, ctrl, webrtcN, startVars, videoPeers,
                 stopping, streamerVars, streamerOf, supOf, waitOn, mapOf, pcClosed, inFlight,
                 budget>>

\* GetStreamBySessionID: a session that has gone is given up. (Its two lookups give what they
\* would at once: at the second if the session goes in between, at the first if not.)
AttachFind(o) ==
  /\ Step(o, "attachReady", IF Visible(o) THEN "attachFound" ELSE "gone")
  /\ UNCHANGED <<tableVars, supPc, retired, overrun, ctrl, webrtcN, startVars, videoPeers,
                 stopping, streamerVars, chan, streamerOf, supOf, waitOn, mapOf, pcClosed,
                 inFlight, budget>>

\* The streamer of that moment; without one the session is removed.
AttachLoad(o) ==
  /\ \/ /\ linkedStreamer = None
        /\ Step(o, "attachFound", "removing")
        /\ UNCHANGED streamerOf
     \/ /\ linkedStreamer # None
        /\ Step(o, "attachFound", "attachLoaded")
        /\ streamerOf' = [streamerOf EXCEPT ![o] = linkedStreamer]
  /\ UNCHANGED <<tableVars, supPc, retired, overrun, ctrl, webrtcN, startVars, videoPeers,
                 stopping, streamerVars, chan, supOf, waitOn, mapOf, pcClosed, inFlight,
                 budget>>

AttachRegister(o) ==
  /\ Step(o, "attachLoaded", "attachReg")
  /\ \E g \in Sups :
       /\ SupervisorFor(g)
       /\ inFlight' = inFlight \cup {Post(g, "offer", RegisterMsg(o, streamerOf[o]))}
  /\ UNCHANGED <<linkedStreamer, streams, sessIn, retired, overrun, ctrl, webrtcN, startVars,
                 videoPeers, stopping, streamerVars, chan, streamerOf, supOf, waitOn, mapOf,
                 pcClosed, budget>>

\* removeStreamSession, called by the offer's own goroutines.
OfferRemove(o) ==
  /\ Step(o, "removing", "failed")
  /\ \E g \in Sups :
       /\ SupervisorFor(g)
       /\ inFlight' = inFlight \cup {Post(g, "offer", OfferMsg("peerClose", o))}
  /\ UNCHANGED <<linkedStreamer, streams, sessIn, retired, overrun, ctrl, webrtcN, startVars,
                 videoPeers, stopping, streamerVars, chan, streamerOf, supOf, waitOn, mapOf,
                 pcClosed, budget>>

OfferStep(o) ==
  \/ OfferLinkStreamer(o) \/ OfferFindSup(o) \/ OfferFail(o) \/ OfferLookupMap(o)
  \/ OfferStore(o) \/ OfferRegister(o) \/ OfferUndo(o) \/ OfferRelease(o) \/ OfferAnswer(o)
  \/ AttachWake(o) \/ AttachFind(o) \/ AttachLoad(o) \/ AttachRegister(o) \/ OfferRemove(o)

-----------------------------------------------------------------------------
(* What the outside does.                                                   *)

Event(kind) ==
  /\ kind \in budget.kinds /\ budget.events > 0
  /\ budget' = [budget EXCEPT !.events = @ - 1]

\* The browser can act on a session once the answer has been sent.
Answered == {"attaching", "attachReady", "attachFound", "attachLoaded", "attachReg",
             "removing", "served", "failed", "gone"}

Connected(o) == pc[o] \in Answered /\ (sessIn[o] # None \/ pcClosed[o])

\* The connection failed or closed, its video sink found the track closed, or
\* the browser asked for this session's end: removeStreamSession.
ConnEnds(o) ==
  /\ Event("connEnds")
  /\ pcClosed[o] \/ Connected(o)
  /\ \E g \in Sups :
       /\ SupervisorFor(g)
       /\ inFlight' = inFlight \cup {Post(g, "conn", OfferMsg("peerClose", o))}
  /\ UNCHANGED <<linkedStreamer, streams, sessIn, retired, overrun, ctrl, webrtcN, startVars,
                 videoPeers, stopping, streamerVars, chan, offerVars>>

\* handleControlMessage.
ControlArrives(o) ==
  /\ Event("control")
  /\ Connected(o)
  /\ \E g \in Sups :
       /\ SupervisorFor(g)
       /\ inFlight' = inFlight \cup {Post(g, "control", OfferMsg("control", o))}
  /\ UNCHANGED <<linkedStreamer, streams, sessIn, retired, overrun, ctrl, webrtcN, startVars,
                 videoPeers, stopping, streamerVars, chan, offerVars>>

\* handleDeviceDisconnect: a message to the supervisor when there is one.
DeviceLost ==
  /\ Event("deviceLost")
  /\ \/ /\ linkedSup # NoSup
        /\ inFlight' = inFlight \cup {Post(linkedSup, "device", DisconnectMsg)}
        /\ UNCHANGED <<linkedStreamer, streams, phase, cancelled, pcClosed>>
     \/ /\ linkedSup = NoSup
        /\ ~Locked(linkedStreamer)
        /\ linkedStreamer' = None
        /\ StopStreamer(linkedStreamer)
        /\ pcClosed' = [o \in Offers |-> pcClosed[o] \/ Visible(o)]
        /\ streams' = None
        /\ UNCHANGED inFlight
  /\ UNCHANGED <<linkedSup, sessIn, supPc, retired, overrun, ctrl, webrtcN, startVars,
                 videoPeers, stopping, starter, chan, pc, streamerOf, supOf, waitOn, mapOf>>

Server ==
  \/ \E g \in Sups : SupStep(g) /\ UNCHANGED budget
  \/ \E b \in Offers : StartStep(b) /\ UNCHANGED budget
  \/ \E p \in inFlight : Deliver(p) /\ UNCHANGED budget
  \/ \E o \in Offers : OfferStep(o)

Next ==
  \/ Server
  \/ \E o \in Offers : OfferLoadStreamer(o) \/ ConnEnds(o) \/ ControlArrives(o)
  \/ DeviceLost

Spec == Init /\ [][Next]_vars

\* The goroutines of the server are scheduled: a supervisor that has work, a
\* Start (its adb dials and reads have timeouts), a send into a mailbox with
\* room, an offer's next step. Browsers and devices owe nothing.
Fairness ==
  /\ \A g \in Sups : WF_vars(SupStep(g) /\ UNCHANGED budget)
  /\ \A b \in Offers : WF_vars(StartStep(b) /\ UNCHANGED budget)
  /\ WF_vars(\E p \in inFlight : Deliver(p) /\ UNCHANGED budget)
  /\ \A o \in Offers : WF_vars(OfferStep(o))

FairSpec == Spec /\ Fairness
-----------------------------------------------------------------------------
(* Properties.                                                              *)

\* Every variable holds a value of its kind (the state the module header names).
TypeOK ==
  /\ linkedSup \in Sups \cup {NoSup}
  /\ linkedStreamer \in Offers \cup {None}
  /\ streams \in Offers \cup {None}
  /\ sessIn \in [Offers -> Offers \cup {None}]
  /\ supPc \in [Sups -> SupPcs]
  /\ retired \in SUBSET Sups /\ overrun \in SUBSET Sups
  /\ ctrl \in [Sups -> Seq(Msg)]
  /\ webrtcN \in [Sups -> Nat]
  /\ fullyStarted \in [Sups -> BOOLEAN]
  /\ broadcast \in [Sups -> Offers \cup {None}]
  /\ pending \in [Sups -> Nat]
  /\ videoPeers \in [Sups -> SUBSET Offers]
  /\ stopping \in [Sups -> Offers \cup {None}]
  /\ phase \in [Offers -> Phases]
  /\ cancelled \in [Offers -> BOOLEAN]
  /\ starter \in [Offers -> Starters]
  /\ chan \in [Offers -> [n : Nat, ok : BOOLEAN]]
  /\ pc \in [Offers -> OfferPcs]
  /\ streamerOf \in [Offers -> Offers \cup {None}]
  /\ supOf \in [Offers -> Sups \cup {NoSup}]
  /\ waitOn \in [Offers -> Offers \cup {None}]
  /\ mapOf \in [Offers -> Offers \cup {None}]
  /\ pcClosed \in [Offers -> BOOLEAN]
  /\ inFlight \in SUBSET [to : Sups, by : Senders, msg : Msg]
  /\ budget \in [offers : SUBSET Offers, events : Nat, kinds : SUBSET EventKinds]

\* A message of this kind and offer is in the mailbox box, or anywhere on its way.
InBox(box, kind, o) ==
  \E i \in 1 .. Len(box) : box[i].kind = kind /\ box[i].offer = o

Mailed(kind, o) ==
  \/ \E p \in inFlight : p.msg.kind = kind /\ p.msg.offer = o
  \/ \E g \in Sups : InBox(ctrl[g], kind, o)

\* drainOneMsgRetired's promise that whatever carries a reply is answered
\* (stream_supervisor.go:174): a goroutine that waits for a reply still has its
\* message on the way or in a mailbox; no supervisor, live or retired, drops one.
ReplyOwed ==
  \A o \in Offers :
    /\ pc[o] = "reserving" => Mailed("reserve", o)
    /\ pc[o] \in {"registering", "attachReg"} => Mailed("register", o)

\* CompareAndDelete against LoadOrStore: two supervisors never both serve the
\* device. One that is not in the map has retired, and holds no count, no waiter
\* and no video peer while it drains, whatever its mailbox still brings.
OneSupervisor ==
  \A g \in Sups :
    /\ g \in retired \/ supPc[g] = "unborn" \/ linkedSup = g
    /\ g \in retired => /\ webrtcN[g] = 0 /\ pending[g] = 0
                        /\ broadcast[g] = None /\ videoPeers[g] = {}

\* No waiter is forgotten (msgScrcpyStartDone, abortScrcpyWaitBroadcast): as long
\* as an offer still needs a result from a broadcast channel, the channel holds
\* one for it or the supervisor that owns the channel still counts it, also when
\* other waiters of the batch have given up.
Waiters(b) == {o \in Offers : waitOn[o] = b /\
                 pc[o] \in {"reserved", "storing", "answering", "attaching"}}

NoForgottenWaiter ==
  \A b \in Offers :
    \/ Cardinality(Waiters(b)) <= chan[b].n
    \/ \E g \in Sups : broadcast[g] = b /\ Cardinality(Waiters(b)) <= pending[g]

\* Stop cancels first so that Start, ending later, cannot set running again
\* (android_stream.go:330): a streamer once stopped never runs.
StoppedStaysStopped == \A s \in Offers : cancelled[s] => phase[s] # "running"

\* What webrtcN of g should count: offers reserved at g that have not yet stored a
\* session, that have one in the map where a PeerClose will find it, or that owe g a
\* Release.
Holders(g) ==
  {o \in Offers : /\ supOf[o] = g
                  /\ \/ pc[o] \in {"reserved", "storing", "regFailed", "releasing"}
                     \/ Visible(o)
                     \/ Mailed("release", o)}

\* No phantom use: the count never exceeds the offers that will bring it down, so that
\* the device is not kept by an offer that failed or a session nobody can remove; unless
\* an earlier supervisor, draining, has deleted the session map of this one (below).
CountHasHolders == \A g \in Sups \ overrun : webrtcN[g] <= Cardinality(Holders(g))

\* A message whose supervisor has exited is never read.
Stranded(o) ==
  \E g \in Sups : /\ supPc[g] = "exited"
                  /\ \E k \in {"reserve", "register"} : InBox(ctrl[g], k, o)

Ended == {"served", "failed", "gone"}

\* Every offer comes to an end (served, failed or given up), through shared
\* starts, aborts and retirements, unless the supervisor it looked up exited
\* before its request was sent; the wait for a reply is the only place to hang.
OfferEnds ==
  \A o \in Offers : (pc[o] \notin Ended \cup {"idle"}) ~> (pc[o] \in Ended \/ Stranded(o))

\* A device without a consumer is not kept streaming (noConsumersLeft, then
\* teardownConsumersLocked): a linked streamer that starts or runs while no offer is in
\* progress and every viewer has left is stopped, unless a new offer comes.
Left(o) == sessIn[o] = None \/ pcClosed[o] \/ Mailed("peerClose", o)

Unused ==
  \A o \in Offers : \/ pc[o] = "idle"
                    \/ pc[o] \in Ended /\ Left(o)

UnusedStreamStops ==
  \A s \in Offers : (Unused /\ linkedStreamer = s /\ phase[s] # "idle")
                      ~> (phase[s] = "idle" \/ ~Unused)
-----------------------------------------------------------------------------
(* What the repository's comments say of the code, and what it does not do.  *)

\* stream_supervisor.go:174: what carries a reply must be answered, or the
\* caller stays blocked for ever.
NoReplyStranded == \A o \in Offers : ~Stranded(o)

\* stream_supervisor.go:206: the drain is there so that no decrement of webrtcN goes
\* missing. Once every offer has ended and nothing is under way, a supervisor counts the
\* sessions that are up.
AtRest ==
  /\ inFlight = {} /\ \A g \in Sups : ctrl[g] = <<>> /\ supPc[g] \in {"unborn", "loop", "exited"}
  /\ \A o \in Offers : pc[o] \in Ended \cup {"idle"} /\ starter[o] \in {"none", "done"}

CountsComeDown == \A g \in Sups : AtRest => webrtcN[g] <= Cardinality({o \in Offers : Visible(o)})
=============================================================================

------------------------- MODULE WebRTCOfferProofs -------------------------
(***************************************************************************)
(* Type correctness of one device's stream: every handler, step of a Start *)
(* and step of an offer keeps each variable in the set TypeOK gives it.    *)
(* Then its safety: a stopped streamer never runs again, two supervisors   *)
(* never both serve the device, no request that carries a reply is         *)
(* dropped, no waiter of a shared Start is forgotten, and the count of a   *)
(* supervisor never exceeds the offers that hold it. All of it for any     *)
(* number of offers, supervisor generations and outside events.            *)
(***************************************************************************)
EXTENDS WebRTCOffer, FiniteSetTheorems, TLAPS

USE StreamAssumption, EnvAssumption

\* A received message is well formed and leaves a well-formed mailbox.
LEMMA ReceivesType ==
  ASSUME TypeOK, NEW g \in Sups, NEW pcs, NEW kind, Receives(g, pcs, kind)
  PROVE  /\ Head(ctrl[g]) \in Msg
         /\ kind \in OfferKinds => Head(ctrl[g]).offer \in Offers
         /\ Head(ctrl[g]).streamer \in Offers \cup {None}
         /\ Head(ctrl[g]).ok \in BOOLEAN
         /\ ctrl' \in [Sups -> Seq(Msg)]
<1>1. ctrl[g] \in Seq(Msg) /\ ctrl[g] # <<>>
  BY DEF TypeOK, Receives
<1>2. Head(ctrl[g]) \in Msg /\ Tail(ctrl[g]) \in Seq(Msg)
  BY <1>1
<1>3. ctrl' \in [Sups -> Seq(Msg)]
  BY <1>2 DEF TypeOK, Receives
<1>4. Head(ctrl[g]).kind = kind
  BY DEF Receives
<1> QED
  BY <1>2, <1>3, <1>4 DEF Msg, OfferKinds, OtherKinds

\* So does a send; one to no supervisor changes no mailbox.
LEMMA SendsType ==
  ASSUME TypeOK, NEW g, NEW m \in Msg, Sends(g, m)
  PROVE  ctrl' \in [Sups -> Seq(Msg)]
<1>1. CASE g \in Sups
  <2>1. ctrl[g] \in Seq(Msg)
    BY <1>1 DEF TypeOK
  <2>2. Append(ctrl[g], m) \in Seq(Msg)
    BY <2>1
  <2> QED
    BY <2>2 DEF TypeOK, Sends
<1>2. CASE g \notin Sups
  <2>1. ctrl' = ctrl
    BY <1>2 DEF TypeOK, Sends
  <2> QED
    BY <2>1 DEF TypeOK
<1> QED
  BY <1>1, <1>2

\* The constructors build messages.
LEMMA MsgType ==
  ASSUME NEW o \in Offers
  PROVE  /\ \A k \in OfferKinds : OfferMsg(k, o) \in Msg
         /\ \A s \in Offers \cup {None} : RegisterMsg(o, s) \in Msg
         /\ \A ok \in BOOLEAN : StartDoneMsg(ok) \in Msg
         /\ DisconnectMsg \in Msg
  BY DEF OfferMsg, RegisterMsg, StartDoneMsg, DisconnectMsg, Msg, OfferKinds, OtherKinds

\* An offer's step leads to a program counter.
LEMMA StepType ==
  ASSUME TypeOK, NEW o \in Offers, NEW from, NEW to \in OfferPcs, Step(o, from, to)
  PROVE  pc' \in [Offers -> OfferPcs]
  BY DEF TypeOK, Step

\* abortScrcpyWaitBroadcast.
LEMMA AbortWaitersType ==
  ASSUME TypeOK, NEW g \in Sups, AbortWaiters(g)
  PROVE  /\ chan' \in [Offers -> [n : Nat, ok : BOOLEAN]]
         /\ pending' \in [Sups -> Nat]
         /\ broadcast' \in [Sups -> Offers \cup {None}]
         /\ fullyStarted' \in [Sups -> BOOLEAN]
  BY DEF TypeOK, AbortWaiters

\* The first part of a teardown.
LEMMA UnlinkType ==
  ASSUME TypeOK, NEW g \in Sups, NEW next \in SupPcs, Unlink(g, next)
  PROVE  /\ chan' \in [Offers -> [n : Nat, ok : BOOLEAN]]
         /\ pending' \in [Sups -> Nat]
         /\ broadcast' \in [Sups -> Offers \cup {None}]
         /\ fullyStarted' \in [Sups -> BOOLEAN]
         /\ videoPeers' \in [Sups -> SUBSET Offers]
         /\ stopping' \in [Sups -> Offers \cup {None}]
         /\ linkedStreamer' \in Offers \cup {None}
         /\ supPc' \in [Sups -> SupPcs]
<1>1. AbortWaiters(g)
  BY DEF Unlink
<1> QED
  BY <1>1, AbortWaitersType DEF TypeOK, Unlink

\* The teardown that a removal may cause.
LEMMA TeardownType ==
  ASSUME TypeOK, NEW g \in Sups, NEW n \in Nat, NEW left, NEW peers \in SUBSET Offers,
         TeardownIfIdle(g, n, left, peers)
  PROVE  /\ chan' \in [Offers -> [n : Nat, ok : BOOLEAN]]
         /\ pending' \in [Sups -> Nat]
         /\ broadcast' \in [Sups -> Offers \cup {None}]
         /\ fullyStarted' \in [Sups -> BOOLEAN]
         /\ videoPeers' \in [Sups -> SUBSET Offers]
         /\ stopping' \in [Sups -> Offers \cup {None}]
         /\ linkedStreamer' \in Offers \cup {None}
         /\ supPc' \in [Sups -> SupPcs]
         /\ webrtcN' \in [Sups -> Nat]
<1>1. webrtcN' \in [Sups -> Nat]
  BY DEF TypeOK, TeardownIfIdle
<1>2. CASE Unlink(g, "stopTeardown")
  BY <1>1, <1>2, UnlinkType DEF SupPcs
<1>3. CASE /\ videoPeers' = [videoPeers EXCEPT ![g] = peers]
           /\ UNCHANGED <<chan, startVars, stopping, linkedStreamer, supPc>>
  BY <1>1, <1>3 DEF TypeOK, startVars
<1> QED
  BY <1>2, <1>3 DEF TeardownIfIdle

\* AndroidStreamer.Stop.
LEMMA StopStreamerType ==
  ASSUME TypeOK, NEW s, StopStreamer(s)
  PROVE  phase' \in [Offers -> Phases] /\ cancelled' \in [Offers -> BOOLEAN]
  BY DEF TypeOK, StopStreamer, Phases

\* The corrected count is a natural number: this is what the correction is for.
LEMMA FloorType ==
  ASSUME TypeOK, NEW g \in Sups
  PROVE  Floor(webrtcN[g]) \in Nat
  BY DEF TypeOK, Floor

\* Where the answer to a registration leads.
LEMMA AfterRegisterType ==
  ASSUME TypeOK, NEW o \in Offers, NEW ok \in BOOLEAN
  PROVE  AfterRegister(o, ok) \in OfferPcs
  BY DEF TypeOK, AfterRegister, OfferPcs

\* supervisorFor.
LEMMA SupervisorForType ==
  ASSUME TypeOK, NEW g \in Sups, SupervisorFor(g)
  PROVE  linkedSup' \in Sups \cup {NoSup} /\ supPc' \in [Sups -> SupPcs]
  BY DEF TypeOK, SupervisorFor, SupPcs

\* What a lookup leaves on its way.
LEMMA PostType ==
  ASSUME TypeOK, NEW g \in Sups, NEW by \in Senders, NEW m \in Msg,
         inFlight' = inFlight \cup {Post(g, by, m)}
  PROVE  inFlight' \in SUBSET [to : Sups, by : Senders, msg : Msg]
  BY DEF TypeOK, Post

\* The handler SupReserve.
LEMMA SupReserveType ==
  ASSUME TypeOK, NEW g \in Sups, SupReserve(g), UNCHANGED budget
  PROVE  TypeOK'
<1>1. /\ Head(ctrl[g]).offer \in Offers
      /\ Head(ctrl[g]).ok \in BOOLEAN
      /\ ctrl' \in [Sups -> Seq(Msg)]
  BY ReceivesType DEF SupReserve, OfferKinds
<1> DEFINE o == Head(ctrl[g]).offer
<1>2. pc' \in [Offers -> OfferPcs] /\ webrtcN' \in [Sups -> Nat]
  <2>1. /\ pc' = [pc EXCEPT ![o] = "reserved"]
        /\ webrtcN' = [webrtcN EXCEPT ![g] = @ + 1]
    BY DEF SupReserve
  <2>2. "reserved" \in OfferPcs /\ webrtcN[g] + 1 \in Nat
    BY DEF TypeOK, OfferPcs
  <2> HIDE DEF o
  <2> QED
    BY <2>1, <2>2 DEF TypeOK
<1>3. /\ waitOn' \in [Offers -> Offers \cup {None}]
      /\ broadcast' \in [Sups -> Offers \cup {None}]
      /\ pending' \in [Sups -> Nat]
      /\ starter' \in [Offers -> Starters]
  <2>1. CASE UNCHANGED <<waitOn, broadcast, pending, starter>>
    BY <2>1 DEF TypeOK
  <2>2. CASE /\ broadcast' = [broadcast EXCEPT ![g] = o]
             /\ pending' = [pending EXCEPT ![g] = 1]
             /\ starter' = [starter EXCEPT ![o] = "spawned"]
             /\ waitOn' = [waitOn EXCEPT ![o] = o]
    BY <1>1, <2>2 DEF TypeOK, Starters
  <2>3. CASE /\ pending' = [pending EXCEPT ![g] = @ + 1]
             /\ waitOn' = [waitOn EXCEPT ![o] = broadcast[g]]
             /\ UNCHANGED <<broadcast, starter>>
    <3>1. broadcast[g] \in Offers \cup {None} /\ pending[g] + 1 \in Nat
      BY DEF TypeOK
    <3> QED
      BY <1>1, <2>3, <3>1 DEF TypeOK
  <2> QED
    BY <2>1, <2>2, <2>3 DEF SupReserve
<1> QED
  BY <1>1, <1>2, <1>3 DEF TypeOK, SupReserve, tableVars, startVars, streamerVars, offerVars

\* The handler SupStartDone.
LEMMA SupStartDoneType ==
  ASSUME TypeOK, NEW g \in Sups, SupStartDone(g), UNCHANGED budget
  PROVE  TypeOK'
<1>1. /\ Head(ctrl[g]).ok \in BOOLEAN
      /\ ctrl' \in [Sups -> Seq(Msg)]
  BY ReceivesType DEF SupStartDone
<1>2. /\ chan' \in [Offers -> [n : Nat, ok : BOOLEAN]]
      /\ pending' \in [Sups -> Nat]
      /\ broadcast' \in [Sups -> Offers \cup {None}]
      /\ fullyStarted' \in [Sups -> BOOLEAN]
  <2>1. CASE UNCHANGED <<chan, startVars>>
    BY <2>1 DEF TypeOK, startVars
  <2>2. CASE /\ chan' = [chan EXCEPT ![broadcast[g]] = [n |-> pending[g], ok |-> Head(ctrl[g]).ok]]
             /\ pending' = [pending EXCEPT ![g] = 0]
             /\ broadcast' = [broadcast EXCEPT ![g] = None]
             /\ fullyStarted' = [fullyStarted EXCEPT ![g] = Head(ctrl[g]).ok]
    BY <1>1, <2>2 DEF TypeOK
  <2> QED
    BY <2>1, <2>2 DEF SupStartDone
<1> QED
  BY <1>1, <1>2 DEF TypeOK, SupStartDone, tableVars, startVars, streamerVars, offerVars

\* The handler DrainReserve.
LEMMA DrainReserveType ==
  ASSUME TypeOK, NEW g \in Sups, DrainReserve(g), UNCHANGED budget
  PROVE  TypeOK'
<1>1. /\ Head(ctrl[g]).offer \in Offers
      /\ Head(ctrl[g]).ok \in BOOLEAN
      /\ ctrl' \in [Sups -> Seq(Msg)]
  BY ReceivesType DEF DrainReserve, OfferKinds
<1> QED
  BY <1>1 DEF TypeOK, DrainReserve, OfferPcs, tableVars, startVars, streamerVars, offerVars

\* The handler DrainDrop.
LEMMA DrainDropType ==
  ASSUME TypeOK, NEW g \in Sups, DrainDrop(g), UNCHANGED budget
  PROVE  TypeOK'
<1>1. /\ Head(ctrl[g]).ok \in BOOLEAN
      /\ ctrl' \in [Sups -> Seq(Msg)]
  BY ReceivesType DEF DrainDrop
<1> QED
  BY <1>1 DEF TypeOK, DrainDrop, tableVars, startVars, streamerVars, offerVars

\* The handler SupControl.
LEMMA SupControlType ==
  ASSUME TypeOK, NEW g \in Sups, SupControl(g), UNCHANGED budget
  PROVE  TypeOK'
<1>1. /\ Head(ctrl[g]).ok \in BOOLEAN
      /\ ctrl' \in [Sups -> Seq(Msg)]
  BY ReceivesType DEF SupControl
<1>2. inFlight' \in SUBSET [to : Sups, by : Senders, msg : Msg]
  <2>1. DisconnectMsg \in Msg /\ "control" \in Senders
    BY DEF DisconnectMsg, Msg, OtherKinds, Senders
  <2> QED
    BY <2>1, PostType DEF TypeOK, SupControl
<1> QED
  BY <1>1, <1>2 DEF TypeOK, SupControl, tableVars, startVars, streamerVars, offerVars

\* The handler SupRelease.
LEMMA SupReleaseType ==
  ASSUME TypeOK, NEW g \in Sups, SupRelease(g), UNCHANGED budget
  PROVE  TypeOK'
<1>1. /\ Head(ctrl[g]).ok \in BOOLEAN
      /\ ctrl' \in [Sups -> Seq(Msg)]
  BY ReceivesType DEF SupRelease
<1>2. TeardownIfIdle(g, Floor(webrtcN[g]), Sessions, videoPeers[g])
  BY DEF SupRelease
<1> QED
  BY <1>1, <1>2, FloorType, TeardownType DEF TypeOK, SupRelease, tableVars, startVars,
     streamerVars, offerVars

\* The handler SupPeerClose.
LEMMA SupPeerCloseType ==
  ASSUME TypeOK, NEW g \in Sups, SupPeerClose(g), UNCHANGED budget
  PROVE  TypeOK'
<1> DEFINE o == Head(ctrl[g]).offer
<1>1. o \in Offers /\ ctrl' \in [Sups -> Seq(Msg)]
  BY ReceivesType DEF SupPeerClose, OfferKinds
<1>2. CASE UNCHANGED <<linkedStreamer, sessIn, supPc, webrtcN, startVars, videoPeers,
                       stopping, chan, pcClosed>>
  BY <1>1, <1>2 DEF TypeOK, SupPeerClose, tableVars, startVars, streamerVars, offerVars
<1>3. CASE /\ sessIn' = [sessIn EXCEPT ![o] = None]
           /\ pcClosed' = [pcClosed EXCEPT ![o] = TRUE]
           /\ TeardownIfIdle(g, Floor(webrtcN[g]), Sessions \ {o}, videoPeers[g] \ {o})
  <2>1. videoPeers[g] \ {o} \in SUBSET Offers
    BY DEF TypeOK
  <2>2. /\ chan' \in [Offers -> [n : Nat, ok : BOOLEAN]]
        /\ pending' \in [Sups -> Nat]
        /\ broadcast' \in [Sups -> Offers \cup {None}]
        /\ fullyStarted' \in [Sups -> BOOLEAN]
        /\ videoPeers' \in [Sups -> SUBSET Offers]
        /\ stopping' \in [Sups -> Offers \cup {None}]
        /\ linkedStreamer' \in Offers \cup {None}
        /\ supPc' \in [Sups -> SupPcs]
        /\ webrtcN' \in [Sups -> Nat]
    BY <1>3, <2>1, FloorType, TeardownType
  <2>3. /\ sessIn' \in [Offers -> Offers \cup {None}]
        /\ pcClosed' \in [Offers -> BOOLEAN]
    BY <1>3 DEF TypeOK
  <2> QED
    BY <1>1, <2>2, <2>3 DEF TypeOK, SupPeerClose, tableVars, startVars, streamerVars, offerVars
<1> QED
  BY <1>2, <1>3 DEF SupPeerClose

\* The handler SupRegister.
LEMMA SupRegisterType ==
  ASSUME TypeOK, NEW g \in Sups, SupRegister(g), UNCHANGED budget
  PROVE  TypeOK'
<1>1. Head(ctrl[g]).offer \in Offers /\ ctrl' \in [Sups -> Seq(Msg)]
  BY ReceivesType DEF SupRegister, OfferKinds
<1>2. pc' \in [Offers -> OfferPcs]
  BY <1>1, AfterRegisterType DEF TypeOK, SupRegister
<1>3. videoPeers' \in [Sups -> SUBSET Offers]
  <2> DEFINE o == Head(ctrl[g]).offer
  <2>1. CASE videoPeers' = videoPeers
    BY <2>1 DEF TypeOK
  <2>2. CASE videoPeers' = [videoPeers EXCEPT ![g] = @ \cup {o}] /\ o \in Offers
    BY <2>2 DEF TypeOK
  <2> QED
    BY <1>1, <2>1, <2>2 DEF SupRegister
<1> QED
  BY <1>1, <1>2, <1>3 DEF TypeOK, SupRegister, tableVars, startVars, streamerVars, offerVars

\* The handler DrainRegister.
LEMMA DrainRegisterType ==
  ASSUME TypeOK, NEW g \in Sups, DrainRegister(g), UNCHANGED budget
  PROVE  TypeOK'
<1>1. Head(ctrl[g]).offer \in Offers /\ ctrl' \in [Sups -> Seq(Msg)]
  BY ReceivesType DEF DrainRegister, OfferKinds
<1>2. pc' \in [Offers -> OfferPcs]
  BY <1>1, AfterRegisterType DEF TypeOK, DrainRegister
<1> QED
  BY <1>1, <1>2 DEF TypeOK, DrainRegister, tableVars, startVars, streamerVars, offerVars

\* The handler SupDisconnect.
LEMMA SupDisconnectType ==
  ASSUME TypeOK, NEW g \in Sups, SupDisconnect(g), UNCHANGED budget
  PROVE  TypeOK'
<1>1. ctrl' \in [Sups -> Seq(Msg)]
  BY ReceivesType DEF SupDisconnect
<1>2. Unlink(g, "stopDisconnect") /\ "stopDisconnect" \in SupPcs
  BY DEF SupDisconnect, SupPcs
<1>3. pcClosed' \in [Offers -> BOOLEAN]
  BY DEF TypeOK, SupDisconnect, Visible
<1> QED
  BY <1>1, <1>2, <1>3, UnlinkType DEF TypeOK, SupDisconnect, tableVars, startVars, streamerVars,
     offerVars

\* The handler SupStop.
LEMMA SupStopType ==
  ASSUME TypeOK, NEW g \in Sups, SupStop(g), UNCHANGED budget
  PROVE  TypeOK'
<1>1. phase' \in [Offers -> Phases] /\ cancelled' \in [Offers -> BOOLEAN]
  BY StopStreamerType DEF SupStop
<1> QED
  BY <1>1 DEF TypeOK, SupStop, SupPcs, tableVars, startVars, streamerVars, offerVars

\* The handler SupExit.
LEMMA SupExitType ==
  ASSUME TypeOK, NEW g \in Sups, SupExit(g), UNCHANGED budget
  PROVE  TypeOK'
  BY DEF TypeOK, SupExit, SupPcs, tableVars, startVars, streamerVars, offerVars

\* The goroutine that runs Start.
LEMMA StartStepType ==
  ASSUME TypeOK, NEW b \in Offers, StartStep(b), UNCHANGED budget
  PROVE  TypeOK'
<1>1. \A ok \in BOOLEAN : StartReturns(b, ok) =>
         ctrl' \in [Sups -> Seq(Msg)] /\ starter' \in [Offers -> Starters]
  <2> SUFFICES ASSUME NEW ok \in BOOLEAN, StartReturns(b, ok)
               PROVE  ctrl' \in [Sups -> Seq(Msg)] /\ starter' \in [Offers -> Starters]
    OBVIOUS
  <2>1. Sends(supOf[b], StartDoneMsg(ok)) /\ StartDoneMsg(ok) \in Msg
    BY MsgType DEF StartReturns
  <2>2. ctrl' \in [Sups -> Seq(Msg)]
    BY <2>1, SendsType
  <2> QED
    BY <2>2 DEF TypeOK, StartReturns, Starters
<1>2. CASE StartBegin(b)
  <2>1. ctrl' \in [Sups -> Seq(Msg)] /\ starter' \in [Offers -> Starters]
    <3>1. CASE StartReturns(b, FALSE)
      BY <1>1, <3>1
    <3>2. CASE starter' = [starter EXCEPT ![b] = "locked"] /\ UNCHANGED ctrl
      BY <3>2 DEF TypeOK, Starters
    <3> QED
      BY <1>2, <3>1, <3>2 DEF StartBegin
  <2>2. phase' \in [Offers -> Phases]
    <3>1. \/ UNCHANGED phase
          \/ phase' = [phase EXCEPT ![streamerOf[b]] = "starting"]
      BY <1>2 DEF StartBegin
    <3> QED
      BY <3>1 DEF TypeOK, Phases
  <2> QED
    BY <1>2, <2>1, <2>2 DEF TypeOK, StartBegin, tableVars, startVars, streamerVars, offerVars
<1>3. CASE StartConnect(b)
  <2>1. ctrl' \in [Sups -> Seq(Msg)] /\ starter' \in [Offers -> Starters]
    BY <1>1, <1>3 DEF TypeOK, StartConnect, Starters
  <2>2. phase' \in [Offers -> Phases]
    BY <1>3 DEF TypeOK, StartConnect, Phases
  <2> QED
    BY <1>3, <2>1, <2>2 DEF TypeOK, StartConnect, tableVars, startVars, streamerVars, offerVars
<1>4. CASE StartFinish(b)
  <2>1. ctrl' \in [Sups -> Seq(Msg)] /\ starter' \in [Offers -> Starters]
    <3>1. \E ok \in BOOLEAN : StartReturns(b, ok)
      BY <1>4 DEF StartFinish
    <3> QED
      BY <1>1, <3>1
  <2>2. phase' \in [Offers -> Phases]
    <3>1. phase \in [Offers -> Phases]
      BY DEF TypeOK
    <3> QED
      BY <1>4, <3>1 DEF StartFinish, Phases
  <2>3. UNCHANGED <<tableVars, supPc, retired, overrun, webrtcN, startVars, videoPeers, stopping,
                    cancelled, chan, offerVars, inFlight>>
    BY <1>4 DEF StartFinish
  <2> QED
    BY <2>1, <2>2, <2>3 DEF TypeOK, tableVars, startVars, offerVars
<1> QED
  BY <1>2, <1>3, <1>4 DEF StartStep

\* The send that follows a lookup.
LEMMA DeliverType ==
  ASSUME TypeOK, NEW p \in inFlight, Deliver(p), UNCHANGED budget
  PROVE  TypeOK'
<1>1. p.msg \in Msg
  BY DEF TypeOK
<1>2. ctrl' \in [Sups -> Seq(Msg)]
  BY <1>1, SendsType DEF Deliver
<1> QED
  BY <1>2 DEF TypeOK, Deliver, tableVars, startVars, streamerVars, offerVars

\* CreateStream, the offer handler and finishScrcpyAttach.
LEMMA OfferStepType ==
  ASSUME TypeOK, NEW o \in Offers, OfferStep(o) \/ OfferLoadStreamer(o)
  PROVE  TypeOK'
<1> USE DEF tableVars, startVars, streamerVars, offerVars
<1>1. CASE OfferLoadStreamer(o)
  <2>1. pc' \in [Offers -> OfferPcs]
    BY <1>1, StepType DEF OfferLoadStreamer, OfferPcs
  <2>2. streamerOf' \in [Offers -> Offers \cup {None}]
    BY <1>1 DEF TypeOK, OfferLoadStreamer
  <2> QED
    BY <1>1, <2>1, <2>2 DEF TypeOK, OfferLoadStreamer
<1>2. CASE OfferLinkStreamer(o)
  <2>1. pc' \in [Offers -> OfferPcs]
    BY <1>2, StepType DEF OfferLinkStreamer, OfferPcs
  <2>2. linkedStreamer' \in Offers \cup {None}
    BY <1>2 DEF TypeOK, OfferLinkStreamer
  <2>3. streamerOf' \in [Offers -> Offers \cup {None}]
    BY <1>2, <2>2 DEF TypeOK, OfferLinkStreamer
  <2> QED
    BY <1>2, <2>1, <2>2, <2>3 DEF TypeOK, OfferLinkStreamer
<1>3. CASE OfferFail(o)
  BY <1>3 DEF TypeOK, OfferFail, Step, OfferPcs
<1>4. CASE OfferLookupMap(o)
  BY <1>4 DEF TypeOK, OfferLookupMap, Step, OfferPcs
<1>5. CASE OfferStore(o)
  BY <1>5 DEF TypeOK, OfferStore, Step, OfferPcs
<1>6. CASE OfferUndo(o)
  BY <1>6 DEF TypeOK, OfferUndo, Step, OfferPcs
<1>7. CASE OfferAnswer(o)
  <2>1. pc' \in [Offers -> OfferPcs]
    BY <1>7, StepType DEF OfferAnswer, OfferPcs
  <2> QED
    BY <1>7, <2>1 DEF TypeOK, OfferAnswer
<1>8. CASE AttachWake(o)
  <2>1. pc' \in [Offers -> OfferPcs]
    BY <1>8, StepType DEF AttachWake, OfferPcs
  <2>2. chan' \in [Offers -> [n : Nat, ok : BOOLEAN]]
    <3>1. /\ chan' = [chan EXCEPT ![waitOn[o]].n = @ - 1]
          /\ chan[waitOn[o]].n > 0
      BY <1>8 DEF AttachWake
    <3>2. CASE waitOn[o] = None
      BY <3>1, <3>2 DEF TypeOK
    <3>3. CASE waitOn[o] \in Offers
      <4>1. chan[waitOn[o]].n - 1 \in Nat
        BY <3>1, <3>3 DEF TypeOK
      <4>2. chan[waitOn[o]] \in [n : Nat, ok : BOOLEAN]
        BY <3>3 DEF TypeOK
      <4>3. [chan[waitOn[o]] EXCEPT !.n = @ - 1] \in [n : Nat, ok : BOOLEAN]
        BY <4>1, <4>2
      <4>4. chan' = [chan EXCEPT ![waitOn[o]] = [chan[waitOn[o]] EXCEPT !.n = @ - 1]]
        BY <3>1
      <4> QED
        BY <3>3, <4>3, <4>4 DEF TypeOK
    <3> QED
      BY <3>2, <3>3 DEF TypeOK
  <2> QED
    BY <1>8, <2>1, <2>2 DEF TypeOK, AttachWake
<1>9. CASE AttachFind(o)
  <2>1. pc' \in [Offers -> OfferPcs]
    BY <1>9, StepType DEF AttachFind, OfferPcs
  <2> QED
    BY <1>9, <2>1 DEF TypeOK, AttachFind
<1>15. CASE AttachLoad(o)
  <2>1. pc' \in [Offers -> OfferPcs]
    BY <1>15, StepType DEF AttachLoad, OfferPcs
  <2>2. streamerOf' \in [Offers -> Offers \cup {None}]
    BY <1>15 DEF TypeOK, AttachLoad
  <2> QED
    BY <1>15, <2>1, <2>2 DEF TypeOK, AttachLoad
<1>10. CASE OfferFindSup(o)
  <2>1. PICK g \in Sups : /\ SupervisorFor(g)
                         /\ inFlight' = inFlight \cup {Post(g, "offer", OfferMsg("reserve", o))}
    BY <1>10 DEF OfferFindSup
  <2>2. OfferMsg("reserve", o) \in Msg /\ "offer" \in Senders
    BY MsgType DEF TypeOK, Senders, OfferKinds
  <2>3. inFlight' \in SUBSET [to : Sups, by : Senders, msg : Msg]
    BY <2>1, <2>2, PostType
  <2>4. linkedSup' \in Sups \cup {NoSup} /\ supPc' \in [Sups -> SupPcs]
    BY <2>1, SupervisorForType
  <2>5. pc' \in [Offers -> OfferPcs]
    BY <1>10, StepType DEF OfferFindSup, OfferPcs
  <2>6. supOf' \in [Offers -> Sups \cup {NoSup}]
    BY <1>10, <2>1 DEF TypeOK, OfferFindSup
  <2> QED
    BY <1>10, <2>3, <2>4, <2>5, <2>6 DEF TypeOK, OfferFindSup
<1>11. CASE AttachRegister(o)
  <2>1. PICK g \in Sups : /\ SupervisorFor(g)
                         /\ inFlight' = inFlight \cup {Post(g, "offer", RegisterMsg(o, streamerOf[o]))}
    BY <1>11 DEF AttachRegister
  <2>2. RegisterMsg(o, streamerOf[o]) \in Msg /\ "offer" \in Senders
    BY MsgType DEF TypeOK, Senders, OfferKinds
  <2>3. inFlight' \in SUBSET [to : Sups, by : Senders, msg : Msg]
    BY <2>1, <2>2, PostType
  <2>4. linkedSup' \in Sups \cup {NoSup} /\ supPc' \in [Sups -> SupPcs]
    BY <2>1, SupervisorForType
  <2>5. pc' \in [Offers -> OfferPcs]
    BY <1>11, StepType DEF AttachRegister, OfferPcs
  <2> QED
    BY <1>11, <2>3, <2>4, <2>5 DEF TypeOK, AttachRegister
<1>12. CASE OfferRemove(o)
  <2>1. PICK g \in Sups : /\ SupervisorFor(g)
                         /\ inFlight' = inFlight \cup {Post(g, "offer", OfferMsg("peerClose", o))}
    BY <1>12 DEF OfferRemove
  <2>2. OfferMsg("peerClose", o) \in Msg /\ "offer" \in Senders
    BY MsgType DEF TypeOK, Senders, OfferKinds
  <2>3. inFlight' \in SUBSET [to : Sups, by : Senders, msg : Msg]
    BY <2>1, <2>2, PostType
  <2>4. linkedSup' \in Sups \cup {NoSup} /\ supPc' \in [Sups -> SupPcs]
    BY <2>1, SupervisorForType
  <2>5. pc' \in [Offers -> OfferPcs]
    BY <1>12, StepType DEF OfferRemove, OfferPcs
  <2> QED
    BY <1>12, <2>3, <2>4, <2>5 DEF TypeOK, OfferRemove
<1>13. CASE OfferRegister(o)
  <2> DEFINE s == IF linkedStreamer # None THEN linkedStreamer ELSE streamerOf[o]
  <2>1. s \in Offers \cup {None}
    BY DEF TypeOK
  <2>2. RegisterMsg(o, s) \in Msg
    BY <2>1, MsgType
  <2>3. ctrl' \in [Sups -> Seq(Msg)]
    BY <1>13, <2>2, SendsType DEF OfferRegister
  <2>5. pc' \in [Offers -> OfferPcs]
    BY <1>13, StepType DEF OfferRegister, OfferPcs
  <2> QED
    BY <1>13, <2>3, <2>5 DEF TypeOK, OfferRegister
<1>14. CASE OfferRelease(o)
  <2>1. OfferMsg("release", o) \in Msg
    BY MsgType DEF OfferKinds
  <2>2. ctrl' \in [Sups -> Seq(Msg)]
    BY <1>14, <2>1, SendsType DEF OfferRelease, TypeOK
  <2>5. pc' \in [Offers -> OfferPcs]
    BY <1>14, StepType DEF OfferRelease, OfferPcs
  <2> QED
    BY <1>14, <2>2, <2>5 DEF TypeOK, OfferRelease
<1> QED
  BY <1>1, <1>2, <1>3, <1>4, <1>5, <1>6, <1>7, <1>8, <1>9, <1>10, <1>11, <1>12, <1>13, <1>14,
     <1>15 DEF OfferStep

\* An event of the outside takes one from the budget.
LEMMA EventType ==
  ASSUME TypeOK, NEW kind, Event(kind)
  PROVE  budget' \in [offers : SUBSET Offers, events : Nat, kinds : SUBSET EventKinds]
<1>1. /\ budget \in [offers : SUBSET Offers, events : Nat, kinds : SUBSET EventKinds]
      /\ budget.events - 1 \in Nat
  BY DEF TypeOK, Event
<1> QED
  BY <1>1 DEF Event

\* What the outside does.
LEMMA EnvType ==
  ASSUME TypeOK, DeviceLost \/ \E o \in Offers : ConnEnds(o) \/ ControlArrives(o)
  PROVE  TypeOK'
<1> USE DEF tableVars, startVars, streamerVars, offerVars
<1>0. "conn" \in Senders /\ "control" \in Senders /\ "device" \in Senders
  BY DEF Senders
<1>1. ASSUME NEW o \in Offers, ConnEnds(o) PROVE TypeOK'
  <2>1. PICK g \in Sups : /\ SupervisorFor(g)
                         /\ inFlight' = inFlight \cup {Post(g, "conn", OfferMsg("peerClose", o))}
    BY <1>1 DEF ConnEnds
  <2>2. OfferMsg("peerClose", o) \in Msg
    BY MsgType DEF OfferKinds
  <2>3. inFlight' \in SUBSET [to : Sups, by : Senders, msg : Msg]
    BY <1>0, <2>1, <2>2, PostType
  <2>4. linkedSup' \in Sups \cup {NoSup} /\ supPc' \in [Sups -> SupPcs]
    BY <2>1, SupervisorForType
  <2>5. budget' \in [offers : SUBSET Offers, events : Nat, kinds : SUBSET EventKinds]
    BY <1>1, EventType DEF ConnEnds
  <2> QED
    BY <1>1, <2>3, <2>4, <2>5 DEF TypeOK, ConnEnds
<1>2. ASSUME NEW o \in Offers, ControlArrives(o) PROVE TypeOK'
  <2>1. PICK g \in Sups : /\ SupervisorFor(g)
                         /\ inFlight' = inFlight \cup {Post(g, "control", OfferMsg("control", o))}
    BY <1>2 DEF ControlArrives
  <2>2. OfferMsg("control", o) \in Msg
    BY MsgType DEF OfferKinds
  <2>3. inFlight' \in SUBSET [to : Sups, by : Senders, msg : Msg]
    BY <1>0, <2>1, <2>2, PostType
  <2>4. linkedSup' \in Sups \cup {NoSup} /\ supPc' \in [Sups -> SupPcs]
    BY <2>1, SupervisorForType
  <2>5. budget' \in [offers : SUBSET Offers, events : Nat, kinds : SUBSET EventKinds]
    BY <1>2, EventType DEF ControlArrives
  <2> QED
    BY <1>2, <2>3, <2>4, <2>5 DEF TypeOK, ControlArrives
<1>3. CASE DeviceLost
  <2>1. budget' \in [offers : SUBSET Offers, events : Nat, kinds : SUBSET EventKinds]
    BY <1>3, EventType DEF DeviceLost
  <2>2. inFlight' \in SUBSET [to : Sups, by : Senders, msg : Msg]
    <3>1. DisconnectMsg \in Msg
      BY DEF DisconnectMsg, Msg, OtherKinds
    <3> QED
      BY <1>3, <1>0, <3>1, PostType DEF TypeOK, DeviceLost
  <2>3. phase' \in [Offers -> Phases] /\ cancelled' \in [Offers -> BOOLEAN]
    BY <1>3, StopStreamerType DEF TypeOK, DeviceLost
  <2>4. /\ pcClosed' \in [Offers -> BOOLEAN]
        /\ linkedStreamer' \in Offers \cup {None}
        /\ streams' \in Offers \cup {None}
    BY <1>3 DEF TypeOK, DeviceLost, Visible
  <2> QED
    BY <1>3, <2>1, <2>2, <2>3, <2>4 DEF TypeOK, DeviceLost
<1> QED
  BY <1>1, <1>2, <1>3

\* The types are an inductive invariant.
LEMMA NextType == TypeOK /\ [Next]_vars => TypeOK'
<1> SUFFICES ASSUME TypeOK, [Next]_vars PROVE TypeOK'
  OBVIOUS
<1>1. ASSUME NEW g \in Sups, SupStep(g), UNCHANGED budget PROVE TypeOK'
  BY <1>1, SupReserveType, SupStartDoneType, SupReleaseType, SupPeerCloseType, SupRegisterType,
     SupDisconnectType, SupControlType, SupStopType, DrainReserveType, DrainRegisterType,
     DrainDropType, SupExitType DEF SupStep
<1>2. ASSUME NEW b \in Offers, StartStep(b), UNCHANGED budget PROVE TypeOK'
  BY <1>2, StartStepType
<1>3. ASSUME NEW p \in inFlight, Deliver(p), UNCHANGED budget PROVE TypeOK'
  BY <1>3, DeliverType
<1>4. ASSUME NEW o \in Offers, OfferStep(o) \/ OfferLoadStreamer(o) PROVE TypeOK'
  BY <1>4, OfferStepType
<1>5. CASE DeviceLost \/ \E o \in Offers : ConnEnds(o) \/ ControlArrives(o)
  BY <1>5, EnvType
<1>6. CASE UNCHANGED vars
  BY <1>6 DEF TypeOK, vars, svars, tableVars, startVars, streamerVars, offerVars
<1> QED
  BY <1>1, <1>2, <1>3, <1>4, <1>5, <1>6 DEF Next, Server

\* Each variable of the device's stream holds a value of its kind, in particular
\* webrtcN and the pending count never go below 0 (stream_supervisor.go:267).
THEOREM TypeCorrect == Spec => []TypeOK
<1>1. Init => TypeOK
  BY DEF Init, SInit, TypeOK, Sups, NoSup, SupPcs, Phases, Starters, OfferPcs, Msg, OfferKinds,
     OtherKinds
<1> QED
  BY <1>1, NextType, PTL DEF Spec

-----------------------------------------------------------------------------
(* StoppedStaysStopped. It is inductive once the types are known: only Stop *)
(* cancels, and it leaves the streamer idle; only StartFinish sets running, *)
(* under the streamer's mutex and after a look at the context.              *)

\* Stop leaves a streamer that it cancels idle.
LEMMA StopStreamerStops ==
  ASSUME TypeOK, StoppedStaysStopped, NEW s, StopStreamer(s)
  PROVE  StoppedStaysStopped'
<1>1. phase \in [Offers -> Phases] /\ cancelled \in [Offers -> BOOLEAN]
  BY DEF TypeOK
<1> QED
  BY <1>1 DEF StoppedStaysStopped, StopStreamer

\* No step of a Start sets running on a cancelled streamer.
LEMMA StartKeepsStopped ==
  ASSUME TypeOK, StoppedStaysStopped, NEW b \in Offers, StartStep(b)
  PROVE  StoppedStaysStopped'
<1>1. UNCHANGED cancelled
  BY DEF StartStep, StartBegin, StartConnect, StartFinish
<1>2. \/ UNCHANGED phase
      \/ phase' = [phase EXCEPT ![streamerOf[b]] = "starting"]
      \/ phase' = [phase EXCEPT ![streamerOf[b]] = "idle"]
      \/ /\ ~cancelled[streamerOf[b]]
         /\ phase' = [phase EXCEPT ![streamerOf[b]] = "running"]
      \/ phase' = [phase EXCEPT ![streamerOf[b]] = IF @ = "starting" THEN "idle" ELSE @]
  BY DEF StartStep, StartBegin, StartConnect, StartFinish
<1> QED
  BY <1>1, <1>2 DEF TypeOK, StoppedStaysStopped

\* The supervisor's other steps, and the offers', leave the streamers alone.
LEMMA StreamerFrame ==
  ASSUME NEW g \in Sups, SupStep(g)
  PROVE  SupStop(g) \/ UNCHANGED <<phase, cancelled>>
  BY DEF SupStep, SupReserve, SupStartDone, SupRelease, SupPeerClose, SupRegister,
         SupDisconnect, SupControl, DrainReserve, DrainRegister, DrainDrop, SupExit, streamerVars

\* A streamer that Stop has cancelled never runs, however Stop and Start interleave
\* (android_stream.go:330).
THEOREM StoppedStreamersStayStopped == Spec => []StoppedStaysStopped
<1>1. Init => StoppedStaysStopped
  BY DEF Init, SInit, StoppedStaysStopped
<1>2. TypeOK /\ StoppedStaysStopped /\ [Next]_vars => StoppedStaysStopped'
  <2> SUFFICES ASSUME TypeOK, StoppedStaysStopped, [Next]_vars
               PROVE  StoppedStaysStopped'
    OBVIOUS
  <2>0. UNCHANGED <<phase, cancelled>> => StoppedStaysStopped'
    BY DEF StoppedStaysStopped
  <2>1. ASSUME NEW g \in Sups, SupStep(g) PROVE StoppedStaysStopped'
    <3>1. CASE SupStop(g)
      BY <3>1, StopStreamerStops DEF SupStop
    <3>2. CASE UNCHANGED <<phase, cancelled>>
      BY <2>0, <3>2
    <3> QED
      BY <2>1, <3>1, <3>2, StreamerFrame
  <2>2. ASSUME NEW b \in Offers, StartStep(b) PROVE StoppedStaysStopped'
    BY <2>2, StartKeepsStopped
  <2>3. ASSUME NEW p \in inFlight, Deliver(p) PROVE StoppedStaysStopped'
    BY <2>0, <2>3 DEF Deliver, streamerVars
  <2>4. ASSUME NEW o \in Offers,
               OfferStep(o) \/ OfferLoadStreamer(o) \/ ConnEnds(o) \/ ControlArrives(o)
        PROVE  StoppedStaysStopped'
    BY <2>0, <2>4 DEF OfferStep, OfferLoadStreamer, OfferLinkStreamer, OfferFindSup, OfferFail,
       OfferLookupMap, OfferStore, OfferRegister, OfferUndo, OfferRelease, OfferAnswer,
       AttachWake, AttachFind, AttachLoad, AttachRegister, OfferRemove, ConnEnds, ControlArrives,
       streamerVars
  <2>5. CASE DeviceLost
    <3>1. CASE UNCHANGED <<phase, cancelled>>
      BY <2>0, <3>1
    <3>2. CASE StopStreamer(linkedStreamer)
      BY <3>2, StopStreamerStops
    <3> QED
      BY <2>5, <3>1, <3>2 DEF DeviceLost
  <2>6. CASE UNCHANGED vars
    BY <2>0, <2>6 DEF vars, svars, streamerVars
  <2> QED
    BY <2>1, <2>2, <2>3, <2>4, <2>5, <2>6 DEF Next, Server
<1> QED
  BY <1>1, <1>2, TypeCorrect, PTL DEF Spec

-----------------------------------------------------------------------------
(* OneSupervisor. It is not inductive alone: that a supervisor holds nothing *)
(* once it retires follows from what a teardown clears before it calls Stop, *)
(* so the invariant also follows the goroutine through the teardown.         *)

Leaving == {"stopTeardown", "stopDisconnect", "drain", "exited"}

SupInv ==
  /\ \A g \in Sups : supPc[g] \in {"unborn", "loop"} => g \notin retired
  /\ \A g \in Sups : supPc[g] \in Leaving =>
       pending[g] = 0 /\ broadcast[g] = None /\ videoPeers[g] = {}
  /\ OneSupervisor

supInvVars == <<linkedSup, supPc, retired, webrtcN, broadcast, pending, videoPeers>>

\* Looking a supervisor up creates one only when none is in the map.
LEMMA SupervisorForKeeps ==
  ASSUME TypeOK, SupInv, NEW g \in Sups, SupervisorFor(g),
         UNCHANGED <<retired, webrtcN, broadcast, pending, videoPeers>>
  PROVE  SupInv'
<1>1. CASE UNCHANGED <<linkedSup, supPc>>
  BY <1>1 DEF SupInv, OneSupervisor
<1>2. CASE /\ linkedSup = NoSup /\ supPc[g] = "unborn"
           /\ linkedSup' = g
           /\ supPc' = [supPc EXCEPT ![g] = "loop"]
  <2>1. \A h \in Sups : supPc'[h] = IF h = g THEN "loop" ELSE supPc[h]
    BY <1>2 DEF TypeOK
  <2>2. \A h \in Sups : h # NoSup
    BY DEF Sups, NoSup
  <2> QED
    BY <1>2, <2>1, <2>2 DEF SupInv, OneSupervisor, Leaving
<1> QED
  BY <1>1, <1>2 DEF SupervisorFor

\* A handler of the loop belongs to a supervisor that has not retired, so it may
\* count, wait and register.
LEMMA LoopKeeps ==
  ASSUME TypeOK, SupInv, NEW g \in Sups, supPc[g] = "loop",
         UNCHANGED <<linkedSup, supPc, retired>>,
         \A h \in Sups \ {g} : /\ webrtcN'[h] = webrtcN[h] /\ pending'[h] = pending[h]
                               /\ broadcast'[h] = broadcast[h]
                               /\ videoPeers'[h] = videoPeers[h]
  PROVE  SupInv'
  BY DEF SupInv, OneSupervisor, Leaving

\* The teardown clears what the supervisor holds, before or after it retires.
LEMMA UnlinkKeeps ==
  ASSUME TypeOK, SupInv, NEW g \in Sups, NEW next \in {"stopTeardown", "stopDisconnect"},
         supPc[g] \in {"loop", "drain"}, Unlink(g, next),
         webrtcN' = [webrtcN EXCEPT ![g] = 0], UNCHANGED <<linkedSup, retired>>
  PROVE  SupInv'
<1>1. /\ \A h \in Sups : supPc'[h] = IF h = g THEN next ELSE supPc[h]
      /\ \A h \in Sups : pending'[h] = IF h = g THEN 0 ELSE pending[h]
      /\ \A h \in Sups : broadcast'[h] = IF h = g THEN None ELSE broadcast[h]
      /\ \A h \in Sups : videoPeers'[h] = IF h = g THEN {} ELSE videoPeers[h]
      /\ \A h \in Sups : webrtcN'[h] = IF h = g THEN 0 ELSE webrtcN[h]
  BY DEF TypeOK, Unlink, AbortWaiters
<1> QED
  BY <1>1 DEF SupInv, OneSupervisor, Leaving

\* Release and PeerClose, which a retired supervisor still handles, leave it empty.
LEMMA TeardownKeeps ==
  ASSUME TypeOK, SupInv, NEW g \in Sups, supPc[g] \in {"loop", "drain"},
         NEW left, NEW peers, peers \subseteq videoPeers[g],
         TeardownIfIdle(g, Floor(webrtcN[g]), left, peers), UNCHANGED <<linkedSup, retired>>
  PROVE  SupInv'
<1>1. CASE Floor(webrtcN[g]) = 0 /\ Unlink(g, "stopTeardown")
  <2>1. webrtcN' = [webrtcN EXCEPT ![g] = 0]
    BY <1>1 DEF TeardownIfIdle
  <2> QED
    BY <1>1, <2>1, UnlinkKeeps
<1>2. CASE /\ videoPeers' = [videoPeers EXCEPT ![g] = peers]
           /\ UNCHANGED <<chan, startVars, stopping, linkedStreamer, supPc>>
  <2>1. /\ \A h \in Sups : videoPeers'[h] = IF h = g THEN peers ELSE videoPeers[h]
        /\ \A h \in Sups : webrtcN'[h] = IF h = g THEN Floor(webrtcN[g]) ELSE webrtcN[h]
        /\ UNCHANGED <<supPc, pending, broadcast>>
    BY <1>2 DEF TypeOK, TeardownIfIdle, startVars
  <2>2. g \in retired => Floor(webrtcN[g]) = 0 /\ peers = {}
    BY DEF SupInv, OneSupervisor, Floor
  <2>3. supPc[g] = "drain" => peers = {}
    BY DEF SupInv, Leaving
  <2> QED
    BY <2>1, <2>2, <2>3 DEF SupInv, OneSupervisor, Leaving
<1> QED
  BY <1>1, <1>2 DEF TeardownIfIdle

\* retireSupervisor takes this supervisor, and no other, out of the map.
LEMMA SupStopKeeps ==
  ASSUME TypeOK, SupInv, NEW g \in Sups, SupStop(g)
  PROVE  SupInv'
<1>1. /\ supPc[g] \in {"stopTeardown", "stopDisconnect"}
      /\ \A h \in Sups : supPc'[h] = IF h = g THEN "drain" ELSE supPc[h]
      /\ \A h \in Sups : webrtcN'[h] = IF h = g THEN 0 ELSE webrtcN[h]
      /\ retired' = retired \cup {g}
      /\ linkedSup' = IF linkedSup = g THEN NoSup ELSE linkedSup
      /\ UNCHANGED <<pending, broadcast, videoPeers>>
  BY DEF TypeOK, SupStop, startVars
<1> QED
  BY <1>1 DEF SupInv, OneSupervisor, Leaving

\* Every message a supervisor handles, and every step of its retirement.
LEMMA SupStepKeeps ==
  ASSUME TypeOK, SupInv, NEW g \in Sups, SupStep(g)
  PROVE  SupInv'
<1>1. CASE SupReserve(g)
  <2>1. supPc[g] = "loop" /\ UNCHANGED <<linkedSup, supPc, retired, videoPeers>>
    BY <1>1 DEF SupReserve, Receives, tableVars
  <2>2. \A h \in Sups \ {g} : /\ webrtcN'[h] = webrtcN[h] /\ pending'[h] = pending[h]
                              /\ broadcast'[h] = broadcast[h]
    BY <1>1 DEF SupReserve, TypeOK
  <2> QED
    BY <2>1, <2>2, LoopKeeps
<1>2. CASE SupStartDone(g)
  <2>1. supPc[g] = "loop" /\ UNCHANGED <<linkedSup, supPc, retired, webrtcN, videoPeers>>
    BY <1>2 DEF SupStartDone, Receives, tableVars
  <2>2. \A h \in Sups \ {g} : pending'[h] = pending[h] /\ broadcast'[h] = broadcast[h]
    BY <1>2 DEF SupStartDone, TypeOK, startVars
  <2> QED
    BY <2>1, <2>2, LoopKeeps
<1>3. CASE SupRelease(g)
  <2>1. /\ supPc[g] \in {"loop", "drain"} /\ UNCHANGED <<linkedSup, retired>>
        /\ TeardownIfIdle(g, Floor(webrtcN[g]), Sessions, videoPeers[g])
    BY <1>3 DEF SupRelease, Receives
  <2> QED
    BY <2>1, TeardownKeeps
<1>4. CASE SupPeerClose(g)
  <2> DEFINE o == Head(ctrl[g]).offer
  <2>1. supPc[g] \in {"loop", "drain"} /\ UNCHANGED <<linkedSup, retired>>
    BY <1>4 DEF SupPeerClose, Receives
  <2>2. CASE UNCHANGED <<linkedStreamer, sessIn, supPc, webrtcN, startVars, videoPeers,
                         stopping, chan, pcClosed>>
    BY <2>1, <2>2 DEF SupInv, OneSupervisor, startVars
  <2>3. CASE TeardownIfIdle(g, Floor(webrtcN[g]), Sessions \ {o}, videoPeers[g] \ {o})
    BY <2>1, <2>3, TeardownKeeps
  <2> QED
    BY <1>4, <2>2, <2>3 DEF SupPeerClose
<1>5. CASE SupRegister(g)
  <2>1. /\ supPc[g] = "loop"
        /\ UNCHANGED <<linkedSup, supPc, retired, webrtcN, pending, broadcast>>
    BY <1>5 DEF SupRegister, Receives, tableVars, startVars
  <2>2. \A h \in Sups \ {g} : videoPeers'[h] = videoPeers[h]
    BY <1>5 DEF SupRegister, TypeOK
  <2> QED
    BY <2>1, <2>2, LoopKeeps
<1>6. CASE SupDisconnect(g)
  <2>1. /\ supPc[g] = "loop" /\ Unlink(g, "stopDisconnect")
        /\ webrtcN' = [webrtcN EXCEPT ![g] = 0] /\ UNCHANGED <<linkedSup, retired>>
    BY <1>6 DEF SupDisconnect, Receives
  <2> QED
    BY <2>1, UnlinkKeeps
<1>7. CASE SupStop(g)
  BY <1>7, SupStopKeeps
<1>8. CASE SupControl(g) \/ DrainReserve(g) \/ DrainRegister(g) \/ DrainDrop(g)
  <2>1. UNCHANGED supInvVars
    BY <1>8 DEF SupControl, DrainReserve, DrainRegister, DrainDrop, supInvVars, tableVars, startVars
  <2> QED
    BY <2>1 DEF SupInv, OneSupervisor, supInvVars
<1>9. CASE SupExit(g)
  <2>1. /\ supPc[g] = "drain"
        /\ \A h \in Sups : supPc'[h] = IF h = g THEN "exited" ELSE supPc[h]
        /\ UNCHANGED <<linkedSup, retired, webrtcN, broadcast, pending, videoPeers>>
    BY <1>9 DEF SupExit, TypeOK, tableVars, startVars
  <2> QED
    BY <2>1 DEF SupInv, OneSupervisor, Leaving
<1> QED
  BY <1>1, <1>2, <1>3, <1>4, <1>5, <1>6, <1>7, <1>8, <1>9 DEF SupStep

\* The offers and the outside touch supervisors only by looking one up.
LEMMA OfferStepKeeps ==
  ASSUME TypeOK, SupInv, NEW o \in Offers,
         OfferStep(o) \/ OfferLoadStreamer(o) \/ ConnEnds(o) \/ ControlArrives(o)
  PROVE  SupInv'
<1>1. CASE OfferFindSup(o) \/ AttachRegister(o) \/ OfferRemove(o) \/ ConnEnds(o) \/ ControlArrives(o)
  <2>1. /\ \E g \in Sups : SupervisorFor(g)
        /\ UNCHANGED <<retired, webrtcN, broadcast, pending, videoPeers>>
    BY <1>1 DEF OfferFindSup, AttachRegister, OfferRemove, ConnEnds, ControlArrives, startVars
  <2> QED
    BY <2>1, SupervisorForKeeps
<1>2. CASE \/ OfferLinkStreamer(o) \/ OfferFail(o) \/ OfferLookupMap(o) \/ OfferStore(o)
           \/ OfferRegister(o) \/ OfferUndo(o) \/ OfferRelease(o) \/ OfferAnswer(o)
           \/ AttachWake(o) \/ AttachFind(o) \/ AttachLoad(o) \/ OfferLoadStreamer(o)
  <2>1. UNCHANGED supInvVars
    BY <1>2 DEF OfferLinkStreamer, OfferFail, OfferLookupMap, OfferStore, OfferRegister, OfferUndo,
       OfferRelease, OfferAnswer, AttachWake, AttachFind, AttachLoad, OfferLoadStreamer, supInvVars,
       tableVars, startVars
  <2> QED
    BY <2>1 DEF SupInv, OneSupervisor, supInvVars
<1> QED
  BY <1>1, <1>2 DEF OfferStep

\* Every action keeps the invariant.
LEMMA SupInvariant == Spec => []SupInv
<1>1. Init => SupInv
  BY DEF Init, SInit, SupInv, OneSupervisor, Leaving
<1>2. TypeOK /\ SupInv /\ [Next]_vars => SupInv'
  <2> SUFFICES ASSUME TypeOK, SupInv, [Next]_vars PROVE SupInv'
    OBVIOUS
  <2>0. UNCHANGED supInvVars => SupInv'
    BY DEF SupInv, OneSupervisor, supInvVars
  <2>1. ASSUME NEW g \in Sups, SupStep(g) PROVE SupInv'
    BY <2>1, SupStepKeeps
  <2>2. ASSUME NEW b \in Offers, StartStep(b) PROVE SupInv'
    BY <2>0, <2>2 DEF StartStep, StartBegin, StartConnect, StartFinish, supInvVars, tableVars,
       startVars
  <2>3. ASSUME NEW p \in inFlight, Deliver(p) PROVE SupInv'
    BY <2>0, <2>3 DEF Deliver, supInvVars, tableVars, startVars
  <2>4. ASSUME NEW o \in Offers,
               OfferStep(o) \/ OfferLoadStreamer(o) \/ ConnEnds(o) \/ ControlArrives(o)
        PROVE  SupInv'
    BY <2>4, OfferStepKeeps
  <2>5. CASE DeviceLost
    BY <2>0, <2>5 DEF DeviceLost, supInvVars, startVars
  <2>6. CASE UNCHANGED vars
    BY <2>0, <2>6 DEF vars, svars, supInvVars, tableVars, startVars
  <2> QED
    BY <2>1, <2>2, <2>3, <2>4, <2>5, <2>6 DEF Next, Server
<1> QED
  BY <1>1, <1>2, TypeCorrect, PTL DEF Spec

\* At most one supervisor serves the device; one that has left the map holds no
\* count, no waiter and no peer (retireSupervisor, drainOneMsgRetired).
THEOREM OnlyOneSupervisor == Spec => []OneSupervisor
<1>1. SupInv => OneSupervisor
  BY DEF SupInv
<1> QED
  BY <1>1, SupInvariant, PTL

-----------------------------------------------------------------------------
(* ReplyOwed. A mailbox changes by a message at its end or the loss of its   *)
(* head; the invariant needs to know too that an offer past its lookup holds *)
(* a supervisor, so that what it sends arrives in a mailbox.                 *)

\* Append adds one message and loses none.
LEMMA InBoxAppend ==
  ASSUME NEW box \in Seq(Msg), NEW m \in Msg, NEW k, NEW o
  PROVE  InBox(Append(box, m), k, o) <=> InBox(box, k, o) \/ (m.kind = k /\ m.offer = o)
<1>1. /\ Len(Append(box, m)) = Len(box) + 1
      /\ Append(box, m)[Len(box) + 1] = m
      /\ \A i \in 1 .. Len(box) : Append(box, m)[i] = box[i]
      /\ Len(box) \in Nat
  OBVIOUS
<1> DEFINE long == Append(box, m)
<1>2. /\ Len(long) = Len(box) + 1 /\ long[Len(box) + 1] = m
      /\ \A i \in 1 .. Len(box) : long[i] = box[i]
  BY <1>1
<1> HIDE DEF long
<1>3. ASSUME InBox(long, k, o) PROVE InBox(box, k, o) \/ (m.kind = k /\ m.offer = o)
  <2>1. PICK i \in 1 .. Len(box) + 1 : long[i].kind = k /\ long[i].offer = o
    BY <1>2, <1>3 DEF InBox
  <2> QED
    BY <1>1, <1>2, <2>1 DEF InBox
<1>4. ASSUME InBox(box, k, o) PROVE InBox(long, k, o)
  BY <1>1, <1>2, <1>4 DEF InBox
<1>5. ASSUME m.kind = k /\ m.offer = o PROVE InBox(long, k, o)
  BY <1>1, <1>2, <1>5 DEF InBox
<1> QED
  BY <1>3, <1>4, <1>5 DEF long

\* Taking the head loses nothing but the head.
LEMMA InBoxTail ==
  ASSUME NEW box \in Seq(Msg), box # <<>>, NEW k, NEW o
  PROVE  /\ InBox(Tail(box), k, o) => InBox(box, k, o)
         /\ InBox(box, k, o) => \/ InBox(Tail(box), k, o)
                                \/ Head(box).kind = k /\ Head(box).offer = o
<1> DEFINE rest == Tail(box)
<1>1. /\ Len(box) \in Nat \ {0} /\ Len(rest) = Len(box) - 1
      /\ \A i \in 1 .. Len(rest) : rest[i] = box[i + 1]
      /\ Head(box) = box[1]
  OBVIOUS
<1> HIDE DEF rest
<1>2. ASSUME InBox(rest, k, o) PROVE InBox(box, k, o)
  <2>1. PICK i \in 1 .. Len(rest) : rest[i].kind = k /\ rest[i].offer = o
    BY <1>2 DEF InBox
  <2>2. i + 1 \in 1 .. Len(box) /\ box[i + 1] = rest[i]
    BY <1>1, <2>1
  <2> QED
    BY <2>1, <2>2 DEF InBox
<1>3. ASSUME InBox(box, k, o)
      PROVE  InBox(rest, k, o) \/ (Head(box).kind = k /\ Head(box).offer = o)
  <2>1. PICK i \in 1 .. Len(box) : box[i].kind = k /\ box[i].offer = o
    BY <1>3 DEF InBox
  <2>2. CASE i = 1
    BY <1>1, <2>1, <2>2
  <2>3. CASE i # 1
    <3>1. i - 1 \in 1 .. Len(rest) /\ rest[i - 1] = box[i]
      BY <1>1, <2>1, <2>3
    <3> QED
      BY <2>1, <3>1 DEF InBox
  <2> QED
    BY <2>2, <2>3
<1> QED
  BY <1>2, <1>3 DEF rest

\* A send adds its message to what is on the way.
LEMMA MailedSends ==
  ASSUME TypeOK, NEW g, NEW m \in Msg, Sends(g, m), UNCHANGED inFlight, NEW k, NEW o
  PROVE  Mailed(k, o)' <=> Mailed(k, o) \/ (g \in Sups /\ m.kind = k /\ m.offer = o)
<1>1. CASE g \in Sups
  <2>1. ctrl[g] \in Seq(Msg)
    BY <1>1 DEF TypeOK
  <2>2. \A h \in Sups : ctrl'[h] = IF h = g THEN Append(ctrl[g], m) ELSE ctrl[h]
    BY <1>1 DEF TypeOK, Sends
  <2>3. InBox(Append(ctrl[g], m), k, o) <=> InBox(ctrl[g], k, o) \/ (m.kind = k /\ m.offer = o)
    BY <2>1, InBoxAppend
  <2> QED
    BY <1>1, <2>2, <2>3 DEF Mailed
<1>2. CASE g \notin Sups
  BY <1>2 DEF TypeOK, Sends, Mailed
<1> QED
  BY <1>1, <1>2

\* A handled message is the only one that is gone.
LEMMA MailedReceives ==
  ASSUME TypeOK, NEW g \in Sups, NEW pcs, NEW kind, Receives(g, pcs, kind), NEW k, NEW o,
         \A p \in inFlight' \ inFlight : p.msg.offer = None, inFlight \subseteq inFlight',
         o \in Offers
  PROVE  /\ Mailed(k, o)' => Mailed(k, o)
         /\ Mailed(k, o) => \/ Mailed(k, o)'
                            \/ kind = k /\ Head(ctrl[g]).offer = o
<1>1. ctrl[g] \in Seq(Msg) /\ ctrl[g] # <<>> /\ Head(ctrl[g]).kind = kind
  BY DEF TypeOK, Receives
<1>2. \A h \in Sups : ctrl'[h] = IF h = g THEN Tail(ctrl[g]) ELSE ctrl[h]
  BY DEF TypeOK, Receives
<1>3. /\ InBox(Tail(ctrl[g]), k, o) => InBox(ctrl[g], k, o)
      /\ InBox(ctrl[g], k, o) => \/ InBox(Tail(ctrl[g]), k, o)
                                 \/ Head(ctrl[g]).kind = k /\ Head(ctrl[g]).offer = o
  BY <1>1, InBoxTail
<1>4. o # None
  BY StreamAssumption
<1> QED
  BY <1>1, <1>2, <1>3, <1>4 DEF Mailed

\* A delivery moves its message into a mailbox.
LEMMA MailedDeliver ==
  ASSUME TypeOK, NEW p \in inFlight, Deliver(p), NEW k, NEW o
  PROVE  Mailed(k, o)' <=> Mailed(k, o)
<1>1. p.to \in Sups /\ p.msg \in Msg /\ ctrl[p.to] \in Seq(Msg)
  BY DEF TypeOK
<1>2. \A h \in Sups : ctrl'[h] = IF h = p.to THEN Append(ctrl[p.to], p.msg) ELSE ctrl[h]
  BY <1>1 DEF TypeOK, Deliver, Sends
<1>3. InBox(Append(ctrl[p.to], p.msg), k, o)
        <=> InBox(ctrl[p.to], k, o) \/ (p.msg.kind = k /\ p.msg.offer = o)
  BY <1>1, InBoxAppend
<1>4. inFlight' = inFlight \ {p}
  BY DEF Deliver
<1> QED
  BY <1>1, <1>2, <1>3, <1>4 DEF Mailed

NoSupPcs == {"idle", "creating", "resolved", "failed"}

ReplyInv ==
  /\ ReplyOwed
  /\ \A o \in Offers : pc[o] \notin NoSupPcs \/ Mailed("reserve", o) => supOf[o] \in Sups

\* The invariant survives a step that leaves every offer where it is and loses no
\* request.
LEMMA ReplyFrame ==
  ASSUME ReplyInv, UNCHANGED <<pc, supOf>>,
         \A o \in Offers : /\ Mailed("reserve", o)' <=> Mailed("reserve", o)
                           /\ Mailed("register", o) => Mailed("register", o)'
  PROVE  ReplyInv'
  BY DEF ReplyInv, ReplyOwed

\* The same for a step of one offer that neither begins to wait nor posts a request.
LEMMA ReplyStep ==
  ASSUME TypeOK, ReplyInv, NEW o \in Offers, NEW from, NEW to \in OfferPcs,
         Step(o, from, to), from \notin NoSupPcs \/ to \in NoSupPcs,
         to \notin {"reserving", "registering", "attachReg"}, UNCHANGED supOf,
         \A x \in Offers : /\ Mailed("reserve", x)' <=> Mailed("reserve", x)
                           /\ Mailed("register", x) => Mailed("register", x)'
  PROVE  ReplyInv'
<1>1. \A x \in Offers : pc'[x] = IF x = o THEN to ELSE pc[x]
  BY DEF TypeOK, Step
<1>2. pc[o] = from
  BY DEF Step
<1> QED
  BY <1>1, <1>2 DEF ReplyInv, ReplyOwed

\* A lookup's message is on its way.
LEMMA MailedPost ==
  ASSUME NEW g, NEW by, NEW m, NEW k, NEW o, UNCHANGED ctrl,
         inFlight' = inFlight \cup {Post(g, by, m)}
  PROVE  Mailed(k, o)' <=> Mailed(k, o) \/ (m.kind = k /\ m.offer = o)
<1>1. Post(g, by, m).msg = m
  BY DEF Post
<1> QED
  BY <1>1 DEF Mailed

\* What a supervisor receives was in the mail.
LEMMA MailedHead ==
  ASSUME TypeOK, NEW g \in Sups, NEW pcs, NEW kind, Receives(g, pcs, kind)
  PROVE  Mailed(kind, Head(ctrl[g]).offer)
<1>1. /\ ctrl[g] \in Seq(Msg) /\ ctrl[g] # <<>> /\ Head(ctrl[g]).kind = kind
  BY DEF TypeOK, Receives
<1>2. 1 \in 1 .. Len(ctrl[g]) /\ ctrl[g][1] = Head(ctrl[g])
  BY <1>1
<1> QED
  BY <1>1, <1>2 DEF Mailed, InBox

\* The answer to a reservation, by a live or a draining supervisor.
LEMMA ReserveAnswered ==
  ASSUME TypeOK, ReplyInv, NEW g \in Sups, NEW pcs, Receives(g, pcs, "reserve"),
         pc' = [pc EXCEPT ![Head(ctrl[g]).offer] = "reserved"], UNCHANGED <<supOf, inFlight>>
  PROVE  ReplyInv'
<1> DEFINE o == Head(ctrl[g]).offer
<1>1. o \in Offers
  BY ReceivesType DEF OfferKinds
<1>2. supOf[o] \in Sups
  BY <1>1, MailedHead DEF ReplyInv
<1>3. \A x \in Offers : /\ Mailed("reserve", x)' => Mailed("reserve", x)
                        /\ Mailed("reserve", x) => Mailed("reserve", x)' \/ x = o
                        /\ Mailed("register", x) => Mailed("register", x)'
  BY MailedReceives
<1>4. \A x \in Offers : pc'[x] = IF x = o THEN "reserved" ELSE pc[x]
  BY DEF TypeOK
<1> QED
  BY <1>2, <1>3, <1>4 DEF ReplyInv, ReplyOwed, NoSupPcs

\* The answer to a registration.
LEMMA RegisterAnswered ==
  ASSUME TypeOK, ReplyInv, NEW g \in Sups, NEW pcs, Receives(g, pcs, "register"),
         NEW ok \in BOOLEAN,
         pc' = [pc EXCEPT ![Head(ctrl[g]).offer] = AfterRegister(Head(ctrl[g]).offer, ok)],
         UNCHANGED <<supOf, inFlight>>
  PROVE  ReplyInv'
<1> DEFINE o == Head(ctrl[g]).offer
<1>1. \A x \in Offers : /\ Mailed("reserve", x)' <=> Mailed("reserve", x)
                        /\ Mailed("register", x) => Mailed("register", x)' \/ x = o
  BY MailedReceives
<1>2. \A x \in Offers : pc'[x] = IF x = o THEN AfterRegister(o, ok) ELSE pc[x]
  BY DEF TypeOK
<1>3. \/ AfterRegister(o, ok) = pc[o] /\ pc[o] \notin {"registering", "attachReg"}
      \/ /\ pc[o] \in {"registering", "attachReg"}
         /\ AfterRegister(o, ok) \in {"answering", "regFailed", "served", "removing"}
  BY DEF AfterRegister
<1> HIDE DEF o
<1> QED
  BY <1>1, <1>2, <1>3 DEF ReplyInv, ReplyOwed, NoSupPcs

\* No other message a supervisor handles concerns a reply.
LEMMA OtherReceived ==
  ASSUME TypeOK, ReplyInv, NEW g \in Sups, NEW pcs, NEW kind, kind \notin {"reserve", "register"},
         Receives(g, pcs, kind), UNCHANGED <<pc, supOf>>,
         inFlight \subseteq inFlight', \A p \in inFlight' \ inFlight : p.msg.offer = None
  PROVE  ReplyInv'
  BY MailedReceives, ReplyFrame

\* Supervisors, live or retired.
LEMMA SupStepReplies ==
  ASSUME TypeOK, ReplyInv, NEW g \in Sups, SupStep(g)
  PROVE  ReplyInv'
<1>1. CASE SupReserve(g) \/ DrainReserve(g)
  BY <1>1, ReserveAnswered DEF SupReserve, DrainReserve
<1>2. CASE SupRegister(g)
  <2> DEFINE s == Head(ctrl[g]).streamer
             ok == s # None /\ phase[s] = "running"
  <2>1. /\ Receives(g, {"loop"}, "register") /\ UNCHANGED <<supOf, inFlight>>
        /\ pc' = [pc EXCEPT ![Head(ctrl[g]).offer] = AfterRegister(Head(ctrl[g]).offer, ok)]
    BY <1>2 DEF SupRegister
  <2>2. ok \in BOOLEAN
    OBVIOUS
  <2> HIDE DEF ok
  <2> QED
    BY <2>1, <2>2, RegisterAnswered
<1>3. CASE DrainRegister(g)
  BY <1>3, RegisterAnswered DEF DrainRegister
<1>4. CASE SupStartDone(g) \/ SupRelease(g) \/ SupPeerClose(g) \/ SupDisconnect(g) \/ DrainDrop(g)
  <2>1. /\ \E kind \in {"startDone", "release", "peerClose", "disconnect", "control"} : \E pcs :
             Receives(g, pcs, kind)
        /\ UNCHANGED <<pc, supOf, inFlight>>
    BY <1>4 DEF SupStartDone, SupRelease, SupPeerClose, SupDisconnect, DrainDrop, offerVars
  <2> QED
    BY <2>1, OtherReceived
<1>5. CASE SupControl(g)
  <2>1. /\ Receives(g, {"loop"}, "control") /\ UNCHANGED <<pc, supOf>>
        /\ inFlight \subseteq inFlight' /\ \A p \in inFlight' \ inFlight : p.msg.offer = None
    BY <1>5 DEF SupControl, offerVars, Post, DisconnectMsg
  <2> QED
    BY <2>1, OtherReceived
<1>6. CASE SupStop(g) \/ SupExit(g)
  <2>1. UNCHANGED <<pc, supOf, ctrl, inFlight>>
    BY <1>6 DEF SupStop, SupExit, offerVars
  <2> QED
    BY <2>1, ReplyFrame DEF Mailed
<1> QED
  BY <1>1, <1>2, <1>3, <1>4, <1>5, <1>6 DEF SupStep

\* The goroutine of a Start posts nothing but its result.
LEMMA StartStepReplies ==
  ASSUME TypeOK, ReplyInv, NEW b \in Offers, StartStep(b)
  PROVE  ReplyInv'
<1>1. /\ UNCHANGED <<pc, supOf, inFlight>>
      /\ UNCHANGED ctrl \/ \E ok \in BOOLEAN : Sends(supOf[b], StartDoneMsg(ok))
  BY DEF StartStep, StartBegin, StartConnect, StartFinish, StartReturns, offerVars
<1>2. CASE UNCHANGED ctrl
  BY <1>1, <1>2, ReplyFrame DEF Mailed
<1>3. ASSUME NEW ok \in BOOLEAN, Sends(supOf[b], StartDoneMsg(ok)) PROVE ReplyInv'
  <2>1. StartDoneMsg(ok) \in Msg /\ StartDoneMsg(ok).kind = "startDone"
    BY MsgType DEF StartDoneMsg
  <2> QED
    BY <1>1, <1>3, <2>1, MailedSends, ReplyFrame
<1> QED
  BY <1>1, <1>2, <1>3

\* An offer waits only after it has posted, and posts to a supervisor it holds.
LEMMA OfferStepReplies ==
  ASSUME TypeOK, ReplyInv, NEW o \in Offers, OfferStep(o) \/ OfferLoadStreamer(o)
  PROVE  ReplyInv'
<1> DEFINE quiet == \A x \in Offers : /\ Mailed("reserve", x)' <=> Mailed("reserve", x)
                                      /\ Mailed("register", x) => Mailed("register", x)'
<1>1. CASE \/ OfferLoadStreamer(o) \/ OfferLinkStreamer(o) \/ OfferFail(o) \/ OfferLookupMap(o)
           \/ OfferStore(o) \/ OfferUndo(o) \/ OfferAnswer(o) \/ AttachWake(o) \/ AttachFind(o)
           \/ AttachLoad(o)
  <2>1. quiet /\ UNCHANGED supOf
    BY <1>1 DEF OfferLoadStreamer, OfferLinkStreamer, OfferFail, OfferLookupMap, OfferStore,
       OfferUndo, OfferAnswer, AttachWake, AttachFind, AttachLoad, Mailed
  <2> DEFINE fine(from, to) == /\ from \notin NoSupPcs \/ to \in NoSupPcs
                               /\ to \in OfferPcs \ {"reserving", "registering", "attachReg"}
  <2>2. \E from, to : Step(o, from, to) /\ fine(from, to)
    <3>1. CASE OfferLoadStreamer(o)
      BY <3>1 DEF OfferLoadStreamer, OfferPcs, NoSupPcs
    <3>2. CASE OfferLinkStreamer(o)
      BY <3>2 DEF OfferLinkStreamer, OfferPcs, NoSupPcs
    <3>3. CASE OfferFail(o)
      BY <3>3 DEF OfferFail, OfferPcs, NoSupPcs
    <3>4. CASE OfferLookupMap(o)
      BY <3>4 DEF OfferLookupMap, OfferPcs, NoSupPcs
    <3>5. CASE OfferStore(o)
      BY <3>5 DEF OfferStore, OfferPcs, NoSupPcs
    <3>6. CASE OfferUndo(o)
      BY <3>6 DEF OfferUndo, OfferPcs, NoSupPcs
    <3>7. CASE OfferAnswer(o)
      BY <3>7 DEF OfferAnswer, OfferPcs, NoSupPcs
    <3>8. CASE AttachWake(o)
      BY <3>8 DEF AttachWake, OfferPcs, NoSupPcs
    <3>9. CASE AttachFind(o) \/ AttachLoad(o)
      BY <3>9 DEF AttachFind, AttachLoad, OfferPcs, NoSupPcs
    <3> QED
      BY <1>1, <3>1, <3>2, <3>3, <3>4, <3>5, <3>6, <3>7, <3>8, <3>9
  <2> QED
    BY <2>1, <2>2, ReplyStep
<1>2. CASE OfferRelease(o)
  <2>1. OfferMsg("release", o) \in Msg /\ OfferMsg("release", o).kind = "release"
    BY MsgType DEF OfferKinds, OfferMsg
  <2>2. quiet /\ UNCHANGED supOf
    <3>1. CASE UNCHANGED ctrl
      BY <1>2, <3>1 DEF OfferRelease, Mailed
    <3>2. CASE Sends(supOf[o], OfferMsg("release", o))
      BY <1>2, <2>1, <3>2, MailedSends DEF OfferRelease
    <3> QED
      BY <1>2, <3>1, <3>2 DEF OfferRelease
  <2> QED
    BY <1>2, <2>2, ReplyStep DEF OfferRelease, OfferPcs, NoSupPcs
<1>3. CASE OfferRemove(o)
  <2>1. OfferMsg("peerClose", o).kind = "peerClose"
    BY DEF OfferMsg
  <2>2. /\ \E g \in Sups : inFlight' = inFlight \cup {Post(g, "offer", OfferMsg("peerClose", o))}
        /\ Step(o, "removing", "failed") /\ UNCHANGED <<ctrl, supOf>>
    BY <1>3 DEF OfferRemove
  <2>3. quiet
    BY <2>1, <2>2, MailedPost
  <2> QED
    BY <2>2, <2>3, ReplyStep DEF OfferPcs, NoSupPcs
<1>4. CASE OfferFindSup(o)
  <2>1. PICK g \in Sups : /\ supOf' = [supOf EXCEPT ![o] = g]
                          /\ inFlight' = inFlight \cup {Post(g, "offer", OfferMsg("reserve", o))}
    BY <1>4 DEF OfferFindSup
  <2>2. OfferMsg("reserve", o).kind = "reserve" /\ OfferMsg("reserve", o).offer = o
    BY DEF OfferMsg
  <2>3. \A x \in Offers : /\ Mailed("reserve", x)' <=> Mailed("reserve", x) \/ x = o
                          /\ Mailed("register", x)' <=> Mailed("register", x)
    BY <1>4, <2>1, <2>2, MailedPost DEF OfferFindSup
  <2>4. /\ \A x \in Offers : pc'[x] = IF x = o THEN "reserving" ELSE pc[x]
        /\ \A x \in Offers : supOf'[x] = IF x = o THEN g ELSE supOf[x]
    BY <1>4, <2>1 DEF OfferFindSup, Step, TypeOK
  <2> QED
    BY <2>3, <2>4 DEF ReplyInv, ReplyOwed
<1>5. CASE AttachRegister(o)
  <2>1. PICK g \in Sups :
          inFlight' = inFlight \cup {Post(g, "offer", RegisterMsg(o, streamerOf[o]))}
    BY <1>5 DEF AttachRegister
  <2>2. RegisterMsg(o, streamerOf[o]).kind = "register" /\ RegisterMsg(o, streamerOf[o]).offer = o
    BY DEF RegisterMsg
  <2>3. \A x \in Offers : /\ Mailed("reserve", x)' <=> Mailed("reserve", x)
                          /\ Mailed("register", x)' <=> Mailed("register", x) \/ x = o
    BY <1>5, <2>1, <2>2, MailedPost DEF AttachRegister
  <2>4. /\ \A x \in Offers : pc'[x] = IF x = o THEN "attachReg" ELSE pc[x]
        /\ pc[o] = "attachLoaded" /\ UNCHANGED supOf
    BY <1>5 DEF AttachRegister, Step, TypeOK
  <2> QED
    BY <2>3, <2>4 DEF ReplyInv, ReplyOwed, NoSupPcs
<1>6. CASE OfferRegister(o)
  <2> DEFINE s == IF linkedStreamer # None THEN linkedStreamer ELSE streamerOf[o]
  <2>1. /\ Step(o, "stored", "registering") /\ Sends(supOf[o], RegisterMsg(o, s))
        /\ UNCHANGED <<supOf, inFlight>>
    BY <1>6 DEF OfferRegister
  <2>2. s \in Offers \cup {None}
    BY DEF TypeOK
  <2>3. /\ RegisterMsg(o, s) \in Msg /\ RegisterMsg(o, s).kind = "register"
        /\ RegisterMsg(o, s).offer = o
    BY <2>2, MsgType DEF RegisterMsg
  <2>4. supOf[o] \in Sups
    BY <2>1 DEF ReplyInv, NoSupPcs, Step
  <2>5. \A x \in Offers : /\ Mailed("reserve", x)' <=> Mailed("reserve", x)
                          /\ Mailed("register", x)' <=> Mailed("register", x) \/ x = o
    BY <2>1, <2>3, <2>4, MailedSends
  <2>6. /\ \A x \in Offers : pc'[x] = IF x = o THEN "registering" ELSE pc[x]
        /\ pc[o] = "stored"
    BY <2>1 DEF Step, TypeOK
  <2> QED
    BY <2>1, <2>5, <2>6 DEF ReplyInv, ReplyOwed, NoSupPcs
<1> QED
  BY <1>1, <1>2, <1>3, <1>4, <1>5, <1>6 DEF OfferStep

\* Browsers and devices post no request that carries a reply.
LEMMA EnvReplies ==
  ASSUME TypeOK, ReplyInv,
         DeviceLost \/ \E o \in Offers : ConnEnds(o) \/ ControlArrives(o)
  PROVE  ReplyInv'
<1>1. /\ UNCHANGED <<ctrl, pc, supOf>>
      /\ \/ UNCHANGED inFlight
         \/ \E g, by, m : /\ inFlight' = inFlight \cup {Post(g, by, m)}
                          /\ m.kind \notin {"reserve", "register"}
  <2>1. DisconnectMsg.kind = "disconnect"
    BY DEF DisconnectMsg
  <2>2. \A o \in Offers : /\ OfferMsg("peerClose", o).kind = "peerClose"
                          /\ OfferMsg("control", o).kind = "control"
    BY DEF OfferMsg
  <2>3. CASE DeviceLost
    BY <2>1, <2>3 DEF DeviceLost
  <2>4. ASSUME NEW o \in Offers, ConnEnds(o) \/ ControlArrives(o)
        PROVE  /\ UNCHANGED <<ctrl, pc, supOf>>
               /\ \E g, by, m : /\ inFlight' = inFlight \cup {Post(g, by, m)}
                                /\ m.kind \notin {"reserve", "register"}
    BY <2>2, <2>4 DEF ConnEnds, ControlArrives, offerVars
  <2> QED
    BY <2>3, <2>4
<1>2. CASE UNCHANGED inFlight
  BY <1>1, <1>2, ReplyFrame DEF Mailed
<1>3. ASSUME NEW g, NEW by, NEW m, inFlight' = inFlight \cup {Post(g, by, m)},
             m.kind \notin {"reserve", "register"}
      PROVE  ReplyInv'
  BY <1>1, <1>3, MailedPost, ReplyFrame
<1> QED
  BY <1>1, <1>2, <1>3

\* ReplyInv is an invariant.
LEMMA RepliesInvariant == Spec => []ReplyInv
<1>1. Init => ReplyInv
  BY DEF Init, SInit, ReplyInv, ReplyOwed, NoSupPcs, Mailed, InBox
<1>2. TypeOK /\ ReplyInv /\ [Next]_vars => ReplyInv'
  <2> SUFFICES ASSUME TypeOK, ReplyInv, [Next]_vars PROVE ReplyInv'
    OBVIOUS
  <2>1. ASSUME NEW g \in Sups, SupStep(g) PROVE ReplyInv'
    BY <2>1, SupStepReplies
  <2>2. ASSUME NEW b \in Offers, StartStep(b) PROVE ReplyInv'
    BY <2>2, StartStepReplies
  <2>3. ASSUME NEW p \in inFlight, Deliver(p) PROVE ReplyInv'
    BY <2>3, MailedDeliver, ReplyFrame DEF Deliver, offerVars
  <2>4. ASSUME NEW o \in Offers, OfferStep(o) \/ OfferLoadStreamer(o) PROVE ReplyInv'
    BY <2>4, OfferStepReplies
  <2>5. CASE DeviceLost \/ \E o \in Offers : ConnEnds(o) \/ ControlArrives(o)
    BY <2>5, EnvReplies
  <2>6. CASE UNCHANGED vars
    BY <2>6, ReplyFrame DEF vars, svars, offerVars, Mailed
  <2> QED
    BY <2>1, <2>2, <2>3, <2>4, <2>5, <2>6 DEF Next, Server
<1> QED
  BY <1>1, <1>2, TypeCorrect, PTL DEF Spec

\* Whoever waits for a reply has its request on the way or in a mailbox: no
\* supervisor drops one, while it serves or while it drains
\* (stream_supervisor.go:174).
THEOREM RepliesStayOwed == Spec => []ReplyOwed
<1>1. ReplyInv => ReplyOwed
  BY DEF ReplyInv
<1> QED
  BY <1>1, RepliesInvariant, PTL

-----------------------------------------------------------------------------
(* NoForgottenWaiter and CountHasHolders count offers, so they need to know  *)
(* that an offer reserves once: its request is in one place until the answer *)
(* makes it "reserved", and nothing belongs to it before. MailInv says so.   *)

Asks(m, k, o) == m.kind = k /\ m.offer = o

\* The message is in the mailbox of g, or on the way to it.
MailedTo(g, k, o) ==
  \/ \E p \in inFlight : p.to = g /\ Asks(p.msg, k, o)
  \/ InBox(ctrl[g], k, o)

BoxOnce(box, o) ==
  \A i, j \in 1 .. Len(box) : Asks(box[i], "reserve", o) /\ Asks(box[j], "reserve", o) => i = j

ReserveOnce(o) ==
  /\ \A p, q \in inFlight : Asks(p.msg, "reserve", o) /\ Asks(q.msg, "reserve", o) => p = q
  /\ \A p \in inFlight : Asks(p.msg, "reserve", o) =>
       \A g \in Sups : ~InBox(ctrl[g], "reserve", o)
  /\ \A g \in Sups : BoxOnce(ctrl[g], o)

Unreserved == {"idle", "creating", "resolved", "reserving"}

MailInv ==
  \A o \in Offers :
    /\ Mailed("reserve", o) => pc[o] = "reserving"
    /\ ReserveOnce(o)
    /\ pc[o] \in Unreserved => /\ sessIn[o] = None /\ ~pcClosed[o]
                               /\ ~Mailed("release", o) /\ ~Mailed("peerClose", o)
    /\ \A g \in Sups : MailedTo(g, "reserve", o) \/ MailedTo(g, "release", o) => supOf[o] = g

\* What is mailed is mailed to a supervisor.
LEMMA MailedSomewhere ==
  ASSUME TypeOK, NEW k, NEW o
  PROVE  Mailed(k, o) <=> \E g \in Sups : MailedTo(g, k, o)
<1>1. \A p \in inFlight : p.to \in Sups
  BY DEF TypeOK
<1> QED
  BY <1>1 DEF Mailed, MailedTo, Asks

LEMMA BoxOnceAppend ==
  ASSUME NEW box \in Seq(Msg), NEW m \in Msg, NEW o, BoxOnce(box, o),
         Asks(m, "reserve", o) => ~InBox(box, "reserve", o)
  PROVE  BoxOnce(Append(box, m), o)
<1> DEFINE long == Append(box, m)
<1>1. /\ Len(long) = Len(box) + 1 /\ long[Len(box) + 1] = m /\ Len(box) \in Nat
      /\ \A i \in 1 .. Len(box) : long[i] = box[i]
  OBVIOUS
<1> HIDE DEF long
<1>2. SUFFICES ASSUME NEW i \in 1 .. Len(long), NEW j \in 1 .. Len(long),
                      Asks(long[i], "reserve", o), Asks(long[j], "reserve", o)
               PROVE  i = j
  BY DEF BoxOnce, long
<1>3. CASE i \in 1 .. Len(box) /\ j \in 1 .. Len(box)
  BY <1>1, <1>2, <1>3 DEF BoxOnce
<1>4. CASE i = Len(box) + 1 /\ j = Len(box) + 1
  BY <1>4
<1>5. CASE i \in 1 .. Len(box) /\ j = Len(box) + 1
  BY <1>1, <1>2, <1>5 DEF InBox, Asks
<1>6. CASE i = Len(box) + 1 /\ j \in 1 .. Len(box)
  BY <1>1, <1>2, <1>6 DEF InBox, Asks
<1>7. \A n \in 1 .. Len(long) : n \in 1 .. Len(box) \/ n = Len(box) + 1
  BY <1>1
<1> QED
  BY <1>2, <1>3, <1>4, <1>5, <1>6, <1>7

\* Taken from its mailbox, the only request of an offer is gone.
LEMMA BoxOnceTail ==
  ASSUME NEW box \in Seq(Msg), box # <<>>, NEW o, BoxOnce(box, o)
  PROVE  /\ BoxOnce(Tail(box), o)
         /\ Asks(Head(box), "reserve", o) => ~InBox(Tail(box), "reserve", o)
<1> DEFINE rest == Tail(box)
<1>1. /\ Len(box) \in Nat \ {0} /\ Len(rest) = Len(box) - 1
      /\ \A i \in 1 .. Len(rest) : rest[i] = box[i + 1]
      /\ Head(box) = box[1]
  OBVIOUS
<1> HIDE DEF rest
<1>2. \A i \in 1 .. Len(rest) : i + 1 \in 1 .. Len(box) /\ i + 1 # 1
  BY <1>1
<1>3. ASSUME NEW i \in 1 .. Len(rest), NEW j \in 1 .. Len(rest),
             Asks(rest[i], "reserve", o), Asks(rest[j], "reserve", o)
      PROVE  i = j
  <2>1. i + 1 = j + 1
    BY <1>1, <1>2, <1>3 DEF BoxOnce
  <2> QED
    BY <2>1
<1>4. ASSUME Asks(Head(box), "reserve", o), InBox(rest, "reserve", o) PROVE FALSE
  <2>1. PICK i \in 1 .. Len(rest) : Asks(rest[i], "reserve", o)
    BY <1>4 DEF InBox, Asks
  <2>2. 1 \in 1 .. Len(box) /\ i + 1 \in 1 .. Len(box)
    BY <1>1, <1>2
  <2>3. i + 1 = 1
    BY <1>1, <1>4, <2>1, <2>2 DEF BoxOnce
  <2> QED
    BY <1>2, <2>3
<1>5. BoxOnce(rest, o)
  BY <1>3 DEF BoxOnce
<1> QED
  BY <1>4, <1>5 DEF rest

\* A handled message is gone from its mailbox, and if it was a request to reserve, it
\* is nowhere else.
LEMMA NewsOfReceives ==
  ASSUME TypeOK, MailInv, NEW g \in Sups, NEW pcs, NEW kind, Receives(g, pcs, kind),
         \A p \in inFlight' \ inFlight : p.msg.offer = None, inFlight \subseteq inFlight',
         NEW x \in Offers
  PROVE  /\ ReserveOnce(x)'
         /\ kind = "reserve" /\ Head(ctrl[g]).offer = x => ~Mailed("reserve", x)'
         /\ \A h \in Sups : \A k : MailedTo(h, k, x)' => MailedTo(h, k, x)
<1>1. ctrl[g] \in Seq(Msg) /\ ctrl[g] # <<>> /\ Head(ctrl[g]).kind = kind
  BY DEF TypeOK, Receives
<1>2. \A h \in Sups : ctrl'[h] = IF h = g THEN Tail(ctrl[g]) ELSE ctrl[h]
  BY DEF TypeOK, Receives
<1>3. \A k : InBox(Tail(ctrl[g]), k, x) => InBox(ctrl[g], k, x)
  BY <1>1, InBoxTail
<1>4. \A p \in inFlight' : \A k : Asks(p.msg, k, x) => p \in inFlight
  BY StreamAssumption DEF Asks
<1>5. \A h \in Sups : \A k : InBox(ctrl[h], k, x)' => InBox(ctrl[h], k, x)
  BY <1>2, <1>3
<1>6. ReserveOnce(x)
  BY DEF MailInv
<1>7. /\ BoxOnce(Tail(ctrl[g]), x)
      /\ Asks(Head(ctrl[g]), "reserve", x) => ~InBox(Tail(ctrl[g]), "reserve", x)
  BY <1>1, <1>6, BoxOnceTail DEF ReserveOnce
<1>8. ReserveOnce(x)'
  <2>1. \A h \in Sups : BoxOnce(ctrl[h], x)'
    BY <1>2, <1>6, <1>7 DEF ReserveOnce
  <2> QED
    BY <1>4, <1>5, <1>6, <2>1 DEF ReserveOnce
<1>9. ASSUME kind = "reserve", Head(ctrl[g]).offer = x PROVE ~Mailed("reserve", x)'
  <2>1. Asks(Head(ctrl[g]), "reserve", x) /\ InBox(ctrl[g], "reserve", x)
    BY <1>1, <1>9 DEF Asks, InBox
  <2>2. supOf[x] = g /\ \A h \in Sups : InBox(ctrl[h], "reserve", x) => supOf[x] = h
    BY <2>1 DEF MailInv, MailedTo
  <2>3. \A h \in Sups : ~InBox(ctrl[h], "reserve", x)'
    BY <1>2, <1>5, <1>7, <2>1, <2>2
  <2>4. \A p \in inFlight : ~Asks(p.msg, "reserve", x)
    BY <1>6, <2>1 DEF ReserveOnce
  <2> QED
    BY <1>4, <2>3, <2>4 DEF Mailed, Asks
<1> QED
  BY <1>4, <1>5, <1>8, <1>9 DEF MailedTo

\* A send puts its message into one mailbox.
LEMMA NewsOfSends ==
  ASSUME TypeOK, MailInv, NEW g, NEW m \in Msg, Sends(g, m), UNCHANGED inFlight,
         m.kind # "reserve", NEW x \in Offers
  PROVE  /\ ReserveOnce(x)'
         /\ \A h \in Sups : \A k :
              MailedTo(h, k, x)' => MailedTo(h, k, x) \/ (h = g /\ Asks(m, k, x))
<1>1. \A h \in Sups : /\ h # g => ctrl'[h] = ctrl[h]
                      /\ h = g => /\ ctrl[h] \in Seq(Msg)
                                  /\ ctrl'[h] = Append(ctrl[h], m)
  BY DEF TypeOK, Sends
<1>2. \A h \in Sups : \A k :
        InBox(ctrl[h], k, x)' => InBox(ctrl[h], k, x) \/ (h = g /\ Asks(m, k, x))
  <2> SUFFICES ASSUME NEW h \in Sups, NEW k, InBox(ctrl'[h], k, x)
               PROVE  InBox(ctrl[h], k, x) \/ (h = g /\ Asks(m, k, x))
    OBVIOUS
  <2>1. CASE h = g
    <3>1. ctrl[h] \in Seq(Msg) /\ ctrl'[h] = Append(ctrl[h], m)
      BY <1>1, <2>1
    <3>2. InBox(Append(ctrl[h], m), k, x) <=> InBox(ctrl[h], k, x) \/ (m.kind = k /\ m.offer = x)
      BY <3>1, InBoxAppend
    <3> QED
      BY <2>1, <3>1, <3>2 DEF Asks
  <2>2. CASE h # g
    BY <1>1, <2>2
  <2> QED
    BY <2>1, <2>2
<1>3. ReserveOnce(x)
  BY DEF MailInv
<1>4. \A h \in Sups : BoxOnce(ctrl'[h], x)
  <2> SUFFICES ASSUME NEW h \in Sups PROVE BoxOnce(ctrl'[h], x)
    OBVIOUS
  <2>1. BoxOnce(ctrl[h], x)
    BY <1>3 DEF ReserveOnce
  <2>2. CASE h = g
    <3>1. ctrl[h] \in Seq(Msg) /\ ctrl'[h] = Append(ctrl[h], m)
      BY <1>1, <2>2
    <3>2. BoxOnce(Append(ctrl[h], m), x)
      BY <2>1, <3>1, BoxOnceAppend DEF Asks
    <3> QED
      BY <3>1, <3>2
  <2>3. CASE h # g
    BY <1>1, <2>1, <2>3
  <2> QED
    BY <2>2, <2>3
<1>5. ~Asks(m, "reserve", x)
  BY DEF Asks
<1>6. ReserveOnce(x)'
  BY <1>2, <1>3, <1>4, <1>5 DEF ReserveOnce
<1> QED
  BY <1>2, <1>6 DEF MailedTo

\* A delivery moves its message.
LEMMA NewsOfDeliver ==
  ASSUME TypeOK, MailInv, NEW d \in inFlight, Deliver(d), NEW x \in Offers
  PROVE  /\ ReserveOnce(x)'
         /\ \A h \in Sups : \A k : MailedTo(h, k, x)' => MailedTo(h, k, x)
<1>1. d.to \in Sups /\ d.msg \in Msg /\ ctrl[d.to] \in Seq(Msg)
  BY DEF TypeOK
<1>2. \A h \in Sups : ctrl'[h] = IF h = d.to THEN Append(ctrl[d.to], d.msg) ELSE ctrl[h]
  BY <1>1 DEF TypeOK, Deliver, Sends
<1>3. inFlight' = inFlight \ {d}
  BY DEF Deliver
<1>4. \A k : InBox(Append(ctrl[d.to], d.msg), k, x)
               <=> InBox(ctrl[d.to], k, x) \/ Asks(d.msg, k, x)
  BY <1>1, InBoxAppend DEF Asks
<1>5. ReserveOnce(x)
  BY DEF MailInv
<1>6. Asks(d.msg, "reserve", x) => ~InBox(ctrl[d.to], "reserve", x)
  BY <1>1, <1>5 DEF ReserveOnce
<1>7. BoxOnce(Append(ctrl[d.to], d.msg), x)
  BY <1>1, <1>5, <1>6, BoxOnceAppend DEF ReserveOnce
<1>8. \A h \in Sups : BoxOnce(ctrl'[h], x)
  BY <1>2, <1>5, <1>7 DEF ReserveOnce
<1>9. \A h \in Sups :
        InBox(ctrl'[h], "reserve", x)
          => InBox(ctrl[h], "reserve", x) \/ Asks(d.msg, "reserve", x)
  BY <1>2, <1>4
<1>10. ReserveOnce(x)'
  BY <1>3, <1>5, <1>8, <1>9 DEF ReserveOnce
<1> QED
  BY <1>1, <1>2, <1>3, <1>4, <1>10 DEF MailedTo

\* A lookup puts its message on the way.
LEMMA NewsOfPost ==
  ASSUME TypeOK, MailInv, NEW g \in Sups, NEW by, NEW m, UNCHANGED ctrl,
         inFlight' = inFlight \cup {Post(g, by, m)}, NEW x \in Offers,
         Asks(m, "reserve", x) => ~Mailed("reserve", x)
  PROVE  /\ ReserveOnce(x)'
         /\ \A h \in Sups : \A k :
              MailedTo(h, k, x)' => MailedTo(h, k, x) \/ (h = g /\ Asks(m, k, x))
<1>1. Post(g, by, m).msg = m /\ Post(g, by, m).to = g
  BY DEF Post
<1>2. ReserveOnce(x)
  BY DEF MailInv
<1>3. Asks(m, "reserve", x) => /\ \A p \in inFlight : ~Asks(p.msg, "reserve", x)
                               /\ \A h \in Sups : ~InBox(ctrl[h], "reserve", x)
  BY DEF Mailed, Asks
<1>4. ReserveOnce(x)'
  BY <1>1, <1>2, <1>3 DEF ReserveOnce
<1> QED
  BY <1>1, <1>4 DEF MailedTo

\* The step posts nothing of x, and keeps its request in one place.
OldMail(x) ==
  /\ ReserveOnce(x)'
  /\ \A h \in Sups : \A k : MailedTo(h, k, x)' => MailedTo(h, k, x)

LEMMA MailStays ==
  ASSUME MailInv, UNCHANGED <<ctrl, inFlight>>, NEW x \in Offers
  PROVE  OldMail(x)
<1>1. ReserveOnce(x)
  BY DEF MailInv
<1> QED
  BY <1>1 DEF OldMail, ReserveOnce, MailedTo, BoxOnce

\* A supervisor posts nothing for an offer.
LEMMA SupStepMail ==
  ASSUME TypeOK, MailInv, NEW g \in Sups, SupStep(g), NEW x \in Offers
  PROVE  OldMail(x)
<1>1. CASE SupStop(g) \/ SupExit(g)
  <2>1. UNCHANGED <<ctrl, inFlight>>
    BY <1>1 DEF SupStop, SupExit
  <2> QED
    BY <2>1, MailStays
<1>2. CASE \/ SupReserve(g) \/ SupStartDone(g) \/ SupRelease(g) \/ SupPeerClose(g)
           \/ SupRegister(g) \/ SupDisconnect(g) \/ SupControl(g)
           \/ DrainReserve(g) \/ DrainRegister(g) \/ DrainDrop(g)
  <2>1. /\ \E pcs, kind : Receives(g, pcs, kind)
        /\ \/ UNCHANGED inFlight
           \/ inFlight' = inFlight \cup {Post(g, "control", DisconnectMsg)}
    BY <1>2 DEF SupReserve, SupStartDone, SupRelease, SupPeerClose, SupRegister, SupDisconnect,
       SupControl, DrainReserve, DrainRegister, DrainDrop
  <2>2. \A p \in inFlight' \ inFlight : p.msg.offer = None
    BY <2>1 DEF Post, DisconnectMsg
  <2>3. inFlight \subseteq inFlight'
    BY <2>1
  <2> QED
    BY <2>1, <2>2, <2>3, NewsOfReceives DEF OldMail
<1> QED
  BY <1>1, <1>2 DEF SupStep

\* Who posts what: a request to reserve by its offer's lookup, a Release by its
\* offer's failure, a PeerClose by the offer's or the connection's removal of the
\* session. Requests stay in one place.
LEMMA NewsOfStep ==
  ASSUME TypeOK, MailInv, [Next]_vars, NEW x \in Offers
  PROVE  /\ ReserveOnce(x)'
         /\ \A h \in Sups :
              MailedTo(h, "reserve", x)' =>
                MailedTo(h, "reserve", x) \/ (OfferFindSup(x) /\ h = supOf'[x])
         /\ \A h \in Sups :
              MailedTo(h, "release", x)' =>
                MailedTo(h, "release", x) \/ (OfferRelease(x) /\ h = supOf[x])
         /\ \A h \in Sups :
              MailedTo(h, "peerClose", x)' =>
                MailedTo(h, "peerClose", x)
                  \/ ((OfferRemove(x) \/ ConnEnds(x)) /\ SupervisorFor(h))
<1> DEFINE News == /\ ReserveOnce(x)'
                   /\ \A h \in Sups :
                        MailedTo(h, "reserve", x)' =>
                          MailedTo(h, "reserve", x) \/ (OfferFindSup(x) /\ h = supOf'[x])
                   /\ \A h \in Sups :
                        MailedTo(h, "release", x)' =>
                          MailedTo(h, "release", x) \/ (OfferRelease(x) /\ h = supOf[x])
                   /\ \A h \in Sups :
                        MailedTo(h, "peerClose", x)' =>
                          MailedTo(h, "peerClose", x)
                            \/ ((OfferRemove(x) \/ ConnEnds(x)) /\ SupervisorFor(h))
<1>0. OldMail(x) => News
  BY DEF OldMail
<1>1. ASSUME NEW g \in Sups, SupStep(g) PROVE News
  BY <1>0, <1>1, SupStepMail
<1>2. ASSUME NEW b \in Offers, StartStep(b) PROVE News
  <2>1. /\ UNCHANGED inFlight
        /\ UNCHANGED ctrl \/ \E ok \in BOOLEAN : Sends(supOf[b], StartDoneMsg(ok))
    BY <1>2 DEF StartStep, StartBegin, StartConnect, StartFinish, StartReturns
  <2>2. CASE UNCHANGED ctrl
    BY <1>0, <2>1, <2>2, MailStays
  <2>3. ASSUME NEW ok \in BOOLEAN, Sends(supOf[b], StartDoneMsg(ok)) PROVE OldMail(x)
    <3>1. StartDoneMsg(ok) \in Msg
      BY MsgType
    <3>2. StartDoneMsg(ok).kind = "startDone" /\ StartDoneMsg(ok).offer = None
      BY DEF StartDoneMsg
    <3>3. \A k : ~Asks(StartDoneMsg(ok), k, x)
      BY <3>2, StreamAssumption DEF Asks
    <3> QED
      BY <2>1, <2>3, <3>1, <3>2, <3>3, NewsOfSends DEF OldMail
  <2> QED
    BY <1>0, <2>1, <2>2, <2>3
<1>3. ASSUME NEW p \in inFlight, Deliver(p) PROVE News
  BY <1>0, <1>3, NewsOfDeliver DEF OldMail
<1>4. ASSUME NEW o \in Offers,
             \/ OfferLoadStreamer(o) \/ OfferLinkStreamer(o) \/ OfferFail(o) \/ OfferLookupMap(o)
             \/ OfferStore(o) \/ OfferUndo(o) \/ OfferAnswer(o) \/ AttachWake(o) \/ AttachFind(o)
             \/ AttachLoad(o)
      PROVE  News
  <2>1. UNCHANGED <<ctrl, inFlight>>
    BY <1>4 DEF OfferLoadStreamer, OfferLinkStreamer, OfferFail, OfferLookupMap, OfferStore,
       OfferUndo, OfferAnswer, AttachWake, AttachFind, AttachLoad
  <2> QED
    BY <1>0, <2>1, MailStays
<1>5. ASSUME NEW o \in Offers, OfferFindSup(o) PROVE News
  <2>1. PICK g \in Sups : /\ supOf' = [supOf EXCEPT ![o] = g]
                          /\ inFlight' = inFlight \cup {Post(g, "offer", OfferMsg("reserve", o))}
    BY <1>5 DEF OfferFindSup
  <2>2. \A k : Asks(OfferMsg("reserve", o), k, x) <=> k = "reserve" /\ o = x
    BY DEF Asks, OfferMsg
  <2>3. pc[o] = "resolved" /\ UNCHANGED ctrl /\ supOf'[o] = g
    BY <1>5, <2>1 DEF OfferFindSup, Step, TypeOK
  <2>4. ~Mailed("reserve", o)
    BY <2>3 DEF MailInv
  <2>5. /\ ReserveOnce(x)'
        /\ \A h \in Sups : \A k : MailedTo(h, k, x)' =>
              MailedTo(h, k, x) \/ (h = g /\ k = "reserve" /\ o = x)
    BY <2>1, <2>2, <2>3, <2>4, NewsOfPost
  <2> QED
    BY <1>5, <2>3, <2>5
<1>6. ASSUME NEW o \in Offers, AttachRegister(o) PROVE News
  <2>1. PICK g \in Sups :
          inFlight' = inFlight \cup {Post(g, "offer", RegisterMsg(o, streamerOf[o]))}
    BY <1>6 DEF AttachRegister
  <2>2. \A k : Asks(RegisterMsg(o, streamerOf[o]), k, x) => k = "register"
    BY DEF Asks, RegisterMsg
  <2>3. UNCHANGED ctrl
    BY <1>6 DEF AttachRegister
  <2>5. /\ ReserveOnce(x)'
        /\ \A h \in Sups : \A k : MailedTo(h, k, x)' => MailedTo(h, k, x) \/ k = "register"
    BY <2>1, <2>2, <2>3, NewsOfPost
  <2> QED
    BY <2>5
<1>7. ASSUME NEW o \in Offers, OfferRemove(o) \/ ConnEnds(o) PROVE News
  <2>1. PICK g \in Sups, by \in Senders :
          /\ SupervisorFor(g)
          /\ inFlight' = inFlight \cup {Post(g, by, OfferMsg("peerClose", o))}
    BY <1>7 DEF OfferRemove, ConnEnds, Senders
  <2>2. \A k : Asks(OfferMsg("peerClose", o), k, x) <=> k = "peerClose" /\ o = x
    BY DEF Asks, OfferMsg
  <2>3. UNCHANGED ctrl
    BY <1>7 DEF OfferRemove, ConnEnds
  <2>5. /\ ReserveOnce(x)'
        /\ \A h \in Sups : \A k : MailedTo(h, k, x)' =>
              MailedTo(h, k, x) \/ (h = g /\ k = "peerClose" /\ o = x)
    BY <2>1, <2>2, <2>3, NewsOfPost
  <2> QED
    BY <1>7, <2>1, <2>5
<1>8. ASSUME NEW o \in Offers, ControlArrives(o) PROVE News
  <2>1. PICK g \in Sups :
          inFlight' = inFlight \cup {Post(g, "control", OfferMsg("control", o))}
    BY <1>8 DEF ControlArrives
  <2>2. \A k : Asks(OfferMsg("control", o), k, x) => k = "control"
    BY DEF Asks, OfferMsg
  <2>3. UNCHANGED ctrl
    BY <1>8 DEF ControlArrives
  <2>5. /\ ReserveOnce(x)'
        /\ \A h \in Sups : \A k : MailedTo(h, k, x)' => MailedTo(h, k, x) \/ k = "control"
    BY <2>1, <2>2, <2>3, NewsOfPost
  <2> QED
    BY <2>5
<1>9. ASSUME NEW o \in Offers, OfferRegister(o) PROVE News
  <2> DEFINE s == IF linkedStreamer # None THEN linkedStreamer ELSE streamerOf[o]
  <2>1. Sends(supOf[o], RegisterMsg(o, s)) /\ UNCHANGED inFlight
    BY <1>9 DEF OfferRegister
  <2>2. s \in Offers \cup {None}
    BY DEF TypeOK
  <2>3. RegisterMsg(o, s) \in Msg /\ RegisterMsg(o, s).kind = "register"
    BY <2>2, MsgType DEF RegisterMsg
  <2> DEFINE m == RegisterMsg(o, s)
  <2>4. m \in Msg /\ m.kind = "register" /\ Sends(supOf[o], m)
    BY <2>1, <2>3
  <2> HIDE DEF m
  <2>5. /\ ReserveOnce(x)'
        /\ \A h \in Sups : \A k : MailedTo(h, k, x)' => MailedTo(h, k, x) \/ k = "register"
    BY <2>1, <2>4, NewsOfSends DEF Asks
  <2> QED
    BY <2>5
<1>10. ASSUME NEW o \in Offers, OfferRelease(o) PROVE News
  <2>1. UNCHANGED inFlight /\ (UNCHANGED ctrl \/ Sends(supOf[o], OfferMsg("release", o)))
    BY <1>10 DEF OfferRelease
  <2>2. CASE UNCHANGED ctrl
    BY <1>0, <2>1, <2>2, MailStays
  <2>3. CASE Sends(supOf[o], OfferMsg("release", o))
    <3>1. OfferMsg("release", o) \in Msg /\ OfferMsg("release", o).kind # "reserve"
      BY MsgType DEF OfferKinds, OfferMsg
    <3>2. \A k : Asks(OfferMsg("release", o), k, x) <=> k = "release" /\ o = x
      BY DEF Asks, OfferMsg
    <3>3. /\ ReserveOnce(x)'
          /\ \A h \in Sups : \A k : MailedTo(h, k, x)' =>
                MailedTo(h, k, x) \/ (h = supOf[o] /\ k = "release" /\ o = x)
      BY <2>1, <2>3, <3>1, <3>2, NewsOfSends
    <3> QED
      BY <1>10, <3>3
  <2> QED
    BY <2>1, <2>2, <2>3
<1>11. ASSUME DeviceLost PROVE News
  <2>1. /\ UNCHANGED ctrl
        /\ \/ UNCHANGED inFlight
           \/ /\ linkedSup # NoSup
              /\ inFlight' = inFlight \cup {Post(linkedSup, "device", DisconnectMsg)}
    BY <1>11 DEF DeviceLost
  <2>2. CASE UNCHANGED inFlight
    BY <1>0, <2>1, <2>2, MailStays
  <2>3. CASE /\ linkedSup # NoSup
             /\ inFlight' = inFlight \cup {Post(linkedSup, "device", DisconnectMsg)}
    <3>1. linkedSup \in Sups
      BY <2>3 DEF TypeOK
    <3>2. \A k : ~Asks(DisconnectMsg, k, x)
      BY StreamAssumption DEF Asks, DisconnectMsg
    <3>3. OldMail(x)
      BY <2>1, <2>3, <3>1, <3>2, NewsOfPost DEF OldMail
    <3> QED
      BY <1>0, <3>3
  <2> QED
    BY <2>1, <2>2, <2>3
<1>12. ASSUME UNCHANGED vars PROVE News
  BY <1>0, <1>12, MailStays DEF vars, svars
<1> HIDE DEF News
<1>13. ASSUME NEW o \in Offers,
              OfferStep(o) \/ OfferLoadStreamer(o) \/ ConnEnds(o) \/ ControlArrives(o)
       PROVE  News
  BY <1>4, <1>5, <1>6, <1>7, <1>8, <1>9, <1>10, <1>13 DEF OfferStep
<1>14. News
  BY <1>1, <1>2, <1>3, <1>11, <1>12, <1>13 DEF Next, Server
<1> QED
  BY <1>14 DEF News

\* What a step may do to an offer: it moves only itself past its reservation, and a
\* supervisor moves it there once its request is gone from every mailbox.
OfferMoves(x) ==
  /\ \/ pc'[x] = pc[x]
     \/ pc[x] \notin Unreserved /\ pc'[x] \notin Unreserved
     \/ pc[x] \in {"idle", "creating", "resolved"} /\ pc'[x] \in {"creating", "resolved", "failed"}
     \/ OfferFindSup(x)
     \/ pc[x] = "reserving" /\ pc'[x] = "reserved" /\ ~Mailed("reserve", x)'
  /\ sessIn'[x] = sessIn[x] \/ pc[x] \notin Unreserved
  /\ pcClosed'[x] = pcClosed[x] \/ pc[x] \notin Unreserved
  /\ supOf'[x] = supOf[x] \/ OfferFindSup(x)

\* Only what has a session is found by a lookup, and what has one has reserved.
LEMMA VisibleReserved ==
  ASSUME MailInv, NEW o \in Offers, Visible(o)
  PROVE  pc[o] \notin Unreserved
  BY DEF MailInv, Visible

LEMMA SupMovesOffers ==
  ASSUME TypeOK, MailInv, NEW g \in Sups, SupStep(g), NEW x \in Offers
  PROVE  OfferMoves(x)
<1>1. CASE SupReserve(g) \/ DrainReserve(g)
  <2> DEFINE o == Head(ctrl[g]).offer
  <2>1. /\ \E pcs : Receives(g, pcs, "reserve")
        /\ pc' = [pc EXCEPT ![o] = "reserved"]
        /\ UNCHANGED <<sessIn, pcClosed, supOf, inFlight>>
    BY <1>1 DEF SupReserve, DrainReserve, tableVars
  <2>2. o = x => Mailed("reserve", x) /\ ~Mailed("reserve", x)'
    BY <2>1, MailedHead, NewsOfReceives
  <2>3. o = x => pc[x] = "reserving" /\ pc'[x] = "reserved"
    BY <2>1, <2>2 DEF MailInv, TypeOK
  <2>4. o # x => pc'[x] = pc[x]
    BY <2>1 DEF TypeOK
  <2> QED
    BY <2>1, <2>2, <2>3, <2>4 DEF OfferMoves
<1>2. CASE SupRegister(g) \/ DrainRegister(g)
  <2>1. PICK ok \in BOOLEAN :
          pc' = [pc EXCEPT ![Head(ctrl[g]).offer] = AfterRegister(Head(ctrl[g]).offer, ok)]
    <3>1. CASE SupRegister(g)
      <4> DEFINE s == Head(ctrl[g]).streamer
                 ok == s # None /\ phase[s] = "running"
      <4>1. pc' = [pc EXCEPT ![Head(ctrl[g]).offer] = AfterRegister(Head(ctrl[g]).offer, ok)]
        BY <3>1 DEF SupRegister
      <4>2. ok \in BOOLEAN
        OBVIOUS
      <4> HIDE DEF ok
      <4> QED
        BY <4>1, <4>2
    <3>2. CASE DrainRegister(g)
      BY <3>2 DEF DrainRegister
    <3> QED
      BY <1>2, <3>1, <3>2
  <2>2. UNCHANGED <<sessIn, pcClosed, supOf>>
    BY <1>2 DEF SupRegister, DrainRegister, tableVars
  <2>3. /\ x = Head(ctrl[g]).offer => pc'[x] = AfterRegister(x, ok)
        /\ x # Head(ctrl[g]).offer => pc'[x] = pc[x]
    BY <2>1 DEF TypeOK
  <2>4. \/ AfterRegister(x, ok) = pc[x]
        \/ pc[x] \notin Unreserved /\ AfterRegister(x, ok) \notin Unreserved
    BY DEF AfterRegister, Unreserved
  <2> QED
    BY <2>2, <2>3, <2>4 DEF OfferMoves
<1>3. CASE \/ SupStartDone(g) \/ SupRelease(g) \/ SupControl(g) \/ SupStop(g) \/ DrainDrop(g)
           \/ SupExit(g)
  <2>1. UNCHANGED <<pc, sessIn, pcClosed, supOf>>
    BY <1>3 DEF SupStartDone, SupRelease, SupControl, SupStop, DrainDrop, SupExit, tableVars,
       offerVars
  <2> QED
    BY <2>1 DEF OfferMoves
<1>4. CASE SupPeerClose(g)
  <2> DEFINE o == Head(ctrl[g]).offer
  <2>1. /\ UNCHANGED <<pc, supOf>>
        /\ \/ UNCHANGED <<sessIn, pcClosed>>
           \/ /\ Visible(o)
              /\ sessIn' = [sessIn EXCEPT ![o] = None]
              /\ pcClosed' = [pcClosed EXCEPT ![o] = TRUE]
    BY <1>4 DEF SupPeerClose
  <2>2. o = x /\ Visible(o) => pc[x] \notin Unreserved
    BY VisibleReserved
  <2>3. \/ sessIn'[x] = sessIn[x] /\ pcClosed'[x] = pcClosed[x]
        \/ o = x /\ Visible(o)
    BY <2>1 DEF TypeOK
  <2> QED
    BY <2>1, <2>2, <2>3 DEF OfferMoves
<1>5. CASE SupDisconnect(g)
  <2>1. /\ UNCHANGED <<pc, supOf, sessIn>>
        /\ pcClosed'[x] = (pcClosed[x] \/ Visible(x))
    BY <1>5 DEF SupDisconnect
  <2>2. pcClosed'[x] = pcClosed[x] \/ Visible(x)
    BY <2>1 DEF TypeOK
  <2> QED
    BY <2>1, <2>2, VisibleReserved DEF OfferMoves
<1> QED
  BY <1>1, <1>2, <1>3, <1>4, <1>5 DEF SupStep

LEMMA OfferMovesItself ==
  ASSUME TypeOK, NEW o \in Offers, OfferStep(o) \/ OfferLoadStreamer(o), NEW x \in Offers
  PROVE  OfferMoves(x)
<1>1. CASE OfferFindSup(o)
  <2>1. UNCHANGED <<sessIn, pcClosed>> /\ (o # x => pc'[x] = pc[x] /\ supOf'[x] = supOf[x])
    BY <1>1 DEF OfferFindSup, Step, TypeOK
  <2> QED
    BY <1>1, <2>1 DEF OfferMoves
<1>2. CASE OfferLoadStreamer(o) \/ OfferLinkStreamer(o)
  <2>1. /\ UNCHANGED <<sessIn, pcClosed, supOf>>
        /\ o # x => pc'[x] = pc[x]
        /\ o = x => /\ pc[x] \in {"idle", "creating"}
                    /\ pc'[x] \in {"creating", "resolved", "failed"}
    <3>1. UNCHANGED <<sessIn, pcClosed, supOf>>
      BY <1>2 DEF OfferLoadStreamer, OfferLinkStreamer, tableVars
    <3>2. \E from \in {"idle", "creating"}, to \in {"creating", "resolved", "failed"} :
            Step(o, from, to)
      BY <1>2 DEF OfferLoadStreamer, OfferLinkStreamer
    <3> QED
      BY <3>1, <3>2 DEF Step, TypeOK
  <2> QED
    BY <2>1 DEF OfferMoves
<1>3. CASE \/ OfferFail(o) \/ OfferLookupMap(o) \/ OfferRegister(o) \/ OfferRelease(o)
           \/ OfferAnswer(o) \/ AttachWake(o) \/ AttachFind(o) \/ AttachLoad(o) \/ AttachRegister(o)
           \/ OfferRemove(o)
  <2>1. UNCHANGED <<sessIn, pcClosed, supOf>>
    BY <1>3 DEF OfferFail, OfferLookupMap, OfferRegister, OfferRelease, OfferAnswer, AttachWake,
       AttachFind, AttachLoad, AttachRegister, OfferRemove, tableVars
  <2>2. \E from, to : Step(o, from, to) /\ from \notin Unreserved /\ to \notin Unreserved
    BY <1>3 DEF OfferFail, OfferLookupMap, OfferRegister, OfferRelease, OfferAnswer, AttachWake,
       AttachFind, AttachLoad, AttachRegister, OfferRemove, Unreserved
  <2>3. pc'[x] = pc[x] \/ (pc[x] \notin Unreserved /\ pc'[x] \notin Unreserved)
    BY <2>2 DEF Step, TypeOK
  <2> QED
    BY <2>1, <2>3 DEF OfferMoves
<1>4. CASE OfferStore(o) \/ OfferUndo(o)
  <2>1. \E from, to : Step(o, from, to) /\ from \notin Unreserved /\ to \notin Unreserved
    BY <1>4 DEF OfferStore, OfferUndo, Unreserved
  <2>2. UNCHANGED supOf /\ (o # x => sessIn'[x] = sessIn[x] /\ pcClosed'[x] = pcClosed[x])
    BY <1>4 DEF OfferStore, OfferUndo, TypeOK
  <2>3. /\ o # x => pc'[x] = pc[x]
        /\ o = x => pc[x] \notin Unreserved /\ pc'[x] \notin Unreserved
    BY <2>1 DEF Step, TypeOK
  <2> QED
    BY <2>2, <2>3 DEF OfferMoves
<1> QED
  BY <1>1, <1>2, <1>3, <1>4 DEF OfferStep

LEMMA StepMoves ==
  ASSUME TypeOK, MailInv, [Next]_vars, NEW x \in Offers
  PROVE  OfferMoves(x)
<1>0. UNCHANGED <<pc, sessIn, pcClosed, supOf>> => OfferMoves(x)
  BY DEF OfferMoves
<1>1. ASSUME NEW g \in Sups, SupStep(g) PROVE OfferMoves(x)
  BY <1>1, SupMovesOffers
<1>2. ASSUME NEW b \in Offers, StartStep(b) PROVE OfferMoves(x)
  BY <1>0, <1>2 DEF StartStep, StartBegin, StartConnect, StartFinish, offerVars, tableVars
<1>3. ASSUME NEW p \in inFlight, Deliver(p) PROVE OfferMoves(x)
  BY <1>0, <1>3 DEF Deliver, offerVars, tableVars
<1>4. ASSUME NEW o \in Offers, OfferStep(o) \/ OfferLoadStreamer(o) PROVE OfferMoves(x)
  BY <1>4, OfferMovesItself
<1>5. ASSUME NEW o \in Offers, ConnEnds(o) \/ ControlArrives(o) PROVE OfferMoves(x)
  BY <1>0, <1>5 DEF ConnEnds, ControlArrives, offerVars
<1>6. CASE DeviceLost
  <2>1. UNCHANGED <<pc, supOf, sessIn>>
    BY <1>6 DEF DeviceLost
  <2>2. UNCHANGED pcClosed \/ pcClosed'[x] = (pcClosed[x] \/ Visible(x))
    BY <1>6 DEF DeviceLost
  <2>3. pcClosed'[x] = pcClosed[x] \/ Visible(x)
    BY <2>2 DEF TypeOK
  <2> QED
    BY <2>1, <2>3, VisibleReserved DEF OfferMoves
<1>7. CASE UNCHANGED vars
  BY <1>0, <1>7 DEF vars, svars, offerVars, tableVars
<1> QED
  BY <1>1, <1>2, <1>3, <1>4, <1>5, <1>6, <1>7 DEF Next, Server

\* An offer reserves once.
LEMMA MailKept ==
  ASSUME TypeOK, MailInv, [Next]_vars
  PROVE  MailInv'
<1> SUFFICES ASSUME NEW o \in Offers
             PROVE  /\ Mailed("reserve", o)' => pc'[o] = "reserving"
                    /\ ReserveOnce(o)'
                    /\ pc'[o] \in Unreserved =>
                         /\ sessIn'[o] = None /\ ~pcClosed'[o]
                         /\ ~Mailed("release", o)' /\ ~Mailed("peerClose", o)'
                    /\ \A g \in Sups : MailedTo(g, "reserve", o)' \/ MailedTo(g, "release", o)'
                                         => supOf'[o] = g
  BY DEF MailInv
<1>1. OfferMoves(o)
  BY StepMoves
<1>2. /\ OfferFindSup(o) => pc[o] = "resolved" /\ pc'[o] = "reserving"
      /\ OfferRelease(o) => pc[o] = "releasing" /\ pc'[o] = "failed" /\ UNCHANGED supOf
      /\ OfferRemove(o) => pc[o] = "removing" /\ pc'[o] = "failed"
      /\ ConnEnds(o) => /\ pcClosed[o] \/ pc[o] \in Answered
                        /\ UNCHANGED pc
  BY DEF OfferFindSup, OfferRelease, OfferRemove, ConnEnds, Connected, Step, TypeOK, offerVars
<1>3. /\ Mailed("reserve", o)' <=> \E g \in Sups : MailedTo(g, "reserve", o)'
      /\ Mailed("release", o)' <=> \E g \in Sups : MailedTo(g, "release", o)'
      /\ Mailed("peerClose", o)' <=> \E g \in Sups : MailedTo(g, "peerClose", o)'
  <2>1. TypeOK'
    BY NextType
  <2>2. \A p \in inFlight' : p.to \in Sups
    BY <2>1 DEF TypeOK
  <2> QED
    BY <2>2 DEF Mailed, MailedTo, Asks
<1>4. /\ Mailed("reserve", o) <=> \E g \in Sups : MailedTo(g, "reserve", o)
      /\ Mailed("release", o) <=> \E g \in Sups : MailedTo(g, "release", o)
      /\ Mailed("peerClose", o) <=> \E g \in Sups : MailedTo(g, "peerClose", o)
  BY MailedSomewhere
<1>5. /\ Mailed("reserve", o) => pc[o] = "reserving"
      /\ pc[o] \in Unreserved => /\ sessIn[o] = None /\ ~pcClosed[o]
                                 /\ ~Mailed("release", o) /\ ~Mailed("peerClose", o)
      /\ \A g \in Sups : MailedTo(g, "reserve", o) \/ MailedTo(g, "release", o) => supOf[o] = g
  BY DEF MailInv
<1>6. /\ ReserveOnce(o)'
      /\ \A g \in Sups : MailedTo(g, "reserve", o)' =>
                           MailedTo(g, "reserve", o) \/ (OfferFindSup(o) /\ g = supOf'[o])
      /\ \A g \in Sups : MailedTo(g, "release", o)' =>
                           MailedTo(g, "release", o) \/ (OfferRelease(o) /\ g = supOf[o])
      /\ \A g \in Sups : MailedTo(g, "peerClose", o)' =>
                           MailedTo(g, "peerClose", o) \/ OfferRemove(o) \/ ConnEnds(o)
  BY NewsOfStep
<1>7. Mailed("reserve", o)' => pc'[o] = "reserving"
  <2>1. CASE OfferFindSup(o)
    BY <1>2, <2>1
  <2>2. CASE ~OfferFindSup(o) /\ Mailed("reserve", o)'
    <3>1. pc[o] = "reserving"
      BY <1>3, <1>4, <1>5, <1>6, <2>2
    <3> QED
      BY <1>1, <2>2, <3>1 DEF OfferMoves, Unreserved
  <2> QED
    BY <2>1, <2>2
<1>8. ASSUME pc'[o] \in Unreserved
      PROVE  /\ sessIn'[o] = None /\ ~pcClosed'[o]
             /\ ~Mailed("release", o)' /\ ~Mailed("peerClose", o)'
  <2>1. pc[o] \in Unreserved
    BY <1>1, <1>2, <1>8 DEF OfferMoves, Unreserved
  <2>2. sessIn'[o] = None /\ ~pcClosed'[o]
    BY <1>1, <1>5, <2>1 DEF OfferMoves
  <2>3. ~OfferRelease(o) /\ ~OfferRemove(o) /\ ~ConnEnds(o)
    BY <1>2, <1>5, <2>1 DEF Unreserved, Answered
  <2>4. ~Mailed("release", o)'
    BY <1>3, <1>4, <1>5, <1>6, <2>1, <2>3
  <2>5. ~Mailed("peerClose", o)'
    BY <1>3, <1>4, <1>5, <1>6, <2>1, <2>3
  <2> QED
    BY <2>2, <2>4, <2>5
<1>9. ASSUME NEW g \in Sups, MailedTo(g, "reserve", o)' \/ MailedTo(g, "release", o)'
      PROVE  supOf'[o] = g
  <2>1. CASE OfferFindSup(o)
    <3>1. ~Mailed("release", o) /\ ~Mailed("reserve", o) /\ ~OfferRelease(o)
      BY <1>2, <1>5, <2>1 DEF Unreserved
    <3> QED
      BY <1>4, <1>6, <1>9, <3>1
  <2>2. CASE ~OfferFindSup(o)
    BY <1>1, <1>5, <1>6, <1>9, <2>2 DEF OfferMoves
  <2> QED
    BY <2>1, <2>2
<1> QED
  BY <1>6, <1>7, <1>8, <1>9

LEMMA MailInvariant == Spec => []MailInv
<1>1. Init => MailInv
  BY DEF Init, SInit, MailInv, ReserveOnce, BoxOnce, Mailed, MailedTo, InBox
<1> QED
  BY <1>1, MailKept, TypeCorrect, PTL DEF Spec

-----------------------------------------------------------------------------
(* NoForgottenWaiter. A broadcast channel is named by the offer whose        *)
(* reservation began the batch, and that offer reserves once, so nobody else *)
(* waits on it before, and only one supervisor ever owns it. While it owns   *)
(* it, pending counts its waiters; once the batch is closed, the channel     *)
(* holds a result for each of them, and nobody joins any more.               *)

Awaiting == {"reserved", "storing", "answering", "attaching"}

WaitInv ==
  /\ \A o \in Offers : pc[o] \in Unreserved =>
       /\ waitOn[o] = None
       /\ \A x \in Offers : waitOn[x] # o
       /\ \A g \in Sups : broadcast[g] # o
  /\ \A o \in Offers : pc[o] \in {"stored", "registering"} => waitOn[o] = None
  /\ \A o \in Offers, g \in Sups : broadcast[g] = o => supOf[o] = g
  /\ \A b \in Offers : IsFiniteSet(Waiters(b))
  /\ \A b \in Offers, g \in Sups : broadcast[g] = b => Cardinality(Waiters(b)) <= pending[g]
  /\ \A b \in Offers : (\A g \in Sups : broadcast[g] # b) => Cardinality(Waiters(b)) <= chan[b].n

\* Cardinalities of sets that differ by one element at most.
LEMMA CardFewer ==
  ASSUME NEW T, IsFiniteSet(T), NEW S, S \subseteq T
  PROVE  /\ IsFiniteSet(S) /\ Cardinality(S) \in Nat /\ Cardinality(T) \in Nat
         /\ Cardinality(S) <= Cardinality(T)
<1>1. IsFiniteSet(S) /\ Cardinality(S) <= Cardinality(T)
  BY FS_Subset
<1> QED
  BY <1>1, FS_CardinalityType

LEMMA CardOneMore ==
  ASSUME NEW T, IsFiniteSet(T), NEW x, NEW S, S \subseteq T \cup {x}
  PROVE  /\ IsFiniteSet(S) /\ Cardinality(S) \in Nat /\ Cardinality(T) \in Nat
         /\ Cardinality(S) <= Cardinality(T) + 1
<1>1. Cardinality(T) \in Nat
  BY FS_CardinalityType
<1>2. IsFiniteSet(T \cup {x}) /\ Cardinality(T \cup {x}) <= Cardinality(T) + 1
  <2>1. /\ IsFiniteSet(T \cup {x})
        /\ Cardinality(T \cup {x}) = IF x \in T THEN Cardinality(T) ELSE Cardinality(T) + 1
    BY FS_AddElement
  <2> QED
    BY <1>1, <2>1
<1>3. /\ IsFiniteSet(S) /\ Cardinality(S) \in Nat /\ Cardinality(T \cup {x}) \in Nat
      /\ Cardinality(S) <= Cardinality(T \cup {x})
  BY <1>2, CardFewer
<1> QED
  BY <1>1, <1>2, <1>3

LEMMA CardOneLess ==
  ASSUME NEW T, IsFiniteSet(T), NEW x \in T, NEW S, S \subseteq T \ {x}
  PROVE  /\ IsFiniteSet(S) /\ Cardinality(S) \in Nat /\ Cardinality(T) \in Nat
         /\ Cardinality(S) <= Cardinality(T) - 1
<1>1. Cardinality(T) \in Nat
  BY FS_CardinalityType
<1>2. IsFiniteSet(T \ {x}) /\ Cardinality(T \ {x}) = Cardinality(T) - 1
  BY FS_RemoveElement
<1>3. IsFiniteSet(S) /\ Cardinality(S) \in Nat /\ Cardinality(S) <= Cardinality(T \ {x})
  BY <1>2, CardFewer
<1> QED
  BY <1>1, <1>2, <1>3

\* What every step keeps of WaitInv, whatever it does to the batches: before it
\* reserves, nothing is an offer's.
LEMMA StaysReserved ==
  ASSUME TypeOK, MailInv, WaitInv, [Next]_vars, NEW x \in Offers
  PROVE  /\ pc'[x] \in Unreserved => pc[x] \in Unreserved
         /\ \A g \in Sups : broadcast[g] = x => supOf'[x] = supOf[x]
<1>1. OfferMoves(x)
  BY StepMoves
<1>2. OfferFindSup(x) => pc[x] = "resolved"
  BY DEF OfferFindSup, Step
<1>3. OfferFindSup(x) => \A g \in Sups : broadcast[g] # x
  BY <1>2 DEF WaitInv, Unreserved
<1> QED
  BY <1>1, <1>2, <1>3 DEF OfferMoves, Unreserved

\* A step that leaves the batches alone, in which nobody begins to wait.
LEMMA WaitFrame ==
  ASSUME TypeOK, MailInv, WaitInv, [Next]_vars, UNCHANGED <<waitOn, broadcast, pending, chan>>,
         \A x \in Offers : /\ pc'[x] \in Awaiting => pc[x] \in Awaiting \/ waitOn[x] = None
                           /\ pc'[x] \in {"stored", "registering"} =>
                                pc[x] \in {"stored", "registering"} \/ waitOn[x] = None
  PROVE  WaitInv'
<1>1. \A x \in Offers : /\ pc'[x] \in Unreserved => pc[x] \in Unreserved
                        /\ \A g \in Sups : broadcast[g] = x => supOf'[x] = supOf[x]
  BY StaysReserved
<1>2. \A b \in Offers : Waiters(b)' \subseteq Waiters(b)
  BY StreamAssumption DEF Waiters, Awaiting
<1>3. \A b \in Offers : IsFiniteSet(Waiters(b))
  BY DEF WaitInv
<1>4. \A b \in Offers : /\ IsFiniteSet(Waiters(b)') /\ Cardinality(Waiters(b)') \in Nat
                        /\ Cardinality(Waiters(b)) \in Nat
                        /\ Cardinality(Waiters(b)') <= Cardinality(Waiters(b))
  BY <1>2, <1>3, CardFewer
<1>5. (\A g \in Sups : pending[g] \in Nat) /\ (\A b \in Offers : chan[b].n \in Nat)
  BY DEF TypeOK
<1>6. \A b \in Offers, g \in Sups : broadcast'[g] = b => Cardinality(Waiters(b)') <= pending'[g]
  BY <1>4, <1>5 DEF WaitInv
<1>7. \A b \in Offers : (\A g \in Sups : broadcast'[g] # b)
                          => Cardinality(Waiters(b)') <= chan'[b].n
  BY <1>4, <1>5 DEF WaitInv
<1>8. /\ \A o \in Offers : pc'[o] \in Unreserved =>
           /\ waitOn'[o] = None
           /\ \A x \in Offers : waitOn'[x] # o
           /\ \A g \in Sups : broadcast'[g] # o
      /\ \A o \in Offers, g \in Sups : broadcast'[g] = o => supOf'[o] = g
  BY <1>1 DEF WaitInv
<1>9. \A o \in Offers : pc'[o] \in {"stored", "registering"} => waitOn'[o] = None
  BY DEF WaitInv
<1> QED
  BY <1>4, <1>6, <1>7, <1>8, <1>9 DEF WaitInv

\* The end of a batch, with a result or with an error for each of its waiters.
LEMMA BatchCloses ==
  ASSUME TypeOK, WaitInv, NEW g \in Sups, UNCHANGED <<pc, waitOn, supOf>>,
         pending' = [pending EXCEPT ![g] = 0], broadcast' = [broadcast EXCEPT ![g] = None],
         NEW ok,
         \/ chan' = [chan EXCEPT ![broadcast[g]] = [n |-> pending[g], ok |-> ok]]
         \/ UNCHANGED chan /\ (pending[g] = 0 \/ broadcast[g] = None)
  PROVE  WaitInv'
<1>1. \A b \in Offers : Waiters(b)' = Waiters(b)
  BY DEF Waiters
<1>2. /\ \A h \in Sups : pending'[h] = IF h = g THEN 0 ELSE pending[h]
      /\ \A h \in Sups : broadcast'[h] = IF h = g THEN None ELSE broadcast[h]
  BY DEF TypeOK
<1>3. \A b \in Offers : b # broadcast[g] => chan'[b] = chan[b]
  BY DEF TypeOK
<1>4. \A b \in Offers : b = broadcast[g] =>
         chan'[b].n = pending[g] \/ (pending[g] = 0 /\ chan' = chan)
  BY StreamAssumption DEF TypeOK
<1>5. pending[g] \in Nat /\ \A b \in Offers : chan[b].n \in Nat
  BY DEF TypeOK
<1>6. \A b \in Offers : Cardinality(Waiters(b)) \in Nat
  BY FS_CardinalityType DEF WaitInv
<1>7. ASSUME NEW b \in Offers, \A h \in Sups : broadcast'[h] # b
      PROVE  Cardinality(Waiters(b)) <= chan'[b].n
  <2>1. CASE broadcast[g] = b
    <3>1. Cardinality(Waiters(b)) <= pending[g]
      BY <2>1 DEF WaitInv
    <3> QED
      BY <1>4, <1>5, <1>6, <2>1, <3>1
  <2>2. CASE broadcast[g] # b
    <3>1. \A h \in Sups : broadcast[h] # b
      BY <1>2, <1>7, <2>2
    <3> QED
      BY <1>3, <2>2, <3>1 DEF WaitInv
  <2> QED
    BY <2>1, <2>2
<1>8. \A b \in Offers, h \in Sups : broadcast'[h] = b => Cardinality(Waiters(b)) <= pending'[h]
  BY <1>2, StreamAssumption DEF WaitInv
<1>9. /\ \A o \in Offers : pc[o] \in Unreserved =>
           /\ waitOn[o] = None
           /\ \A x \in Offers : waitOn[x] # o
           /\ \A h \in Sups : broadcast'[h] # o
      /\ \A o \in Offers, h \in Sups : broadcast'[h] = o => supOf[o] = h
  BY <1>2, StreamAssumption DEF WaitInv
<1>10. /\ \A b \in Offers : IsFiniteSet(Waiters(b))
       /\ \A o \in Offers : pc[o] \in {"stored", "registering"} => waitOn[o] = None
  BY DEF WaitInv
<1> QED
  BY <1>1, <1>7, <1>8, <1>9, <1>10 DEF WaitInv

\* What a supervisor is about to handle.
LEMMA HeadMailedTo ==
  ASSUME TypeOK, NEW g \in Sups, NEW pcs, NEW kind, Receives(g, pcs, kind)
  PROVE  MailedTo(g, kind, Head(ctrl[g]).offer)
<1>1. /\ ctrl[g] \in Seq(Msg) /\ ctrl[g] # <<>> /\ Head(ctrl[g]).kind = kind
  BY DEF TypeOK, Receives
<1>2. 1 \in 1 .. Len(ctrl[g]) /\ ctrl[g][1] = Head(ctrl[g])
  BY <1>1
<1> QED
  BY <1>1, <1>2 DEF MailedTo, InBox

\* The offer that a request to reserve comes from: it waits for the answer, at this
\* supervisor, and nobody waits on its channel.
LEMMA Reserving ==
  ASSUME TypeOK, MailInv, WaitInv, NEW g \in Sups, NEW pcs, Receives(g, pcs, "reserve")
  PROVE  LET o == Head(ctrl[g]).offer IN
         /\ o \in Offers /\ pc[o] = "reserving" /\ supOf[o] = g /\ waitOn[o] = None
         /\ \A x \in Offers : waitOn[x] # o
         /\ \A h \in Sups : broadcast[h] # o
<1> DEFINE o == Head(ctrl[g]).offer
<1>1. o \in Offers
  BY ReceivesType DEF OfferKinds
<1>2. pc[o] = "reserving" /\ supOf[o] = g
  BY <1>1, MailedHead, HeadMailedTo DEF MailInv
<1>3. pc[o] \in Unreserved
  BY <1>2 DEF Unreserved
<1> HIDE DEF o
<1>4. waitOn[o] = None /\ (\A x \in Offers : waitOn[x] # o) /\ \A h \in Sups : broadcast[h] # o
  BY <1>1, <1>3 DEF WaitInv
<1> QED
  BY <1>1, <1>2, <1>4 DEF o

\* The answer to o makes it wait on the channel b, and nobody else: the waiters of b
\* gain o, those of other channels nobody.
LEMMA WaiterJoins ==
  ASSUME TypeOK, WaitInv, NEW o \in Offers, NEW b \in Offers,
         pc' = [pc EXCEPT ![o] = "reserved"], waitOn' = [waitOn EXCEPT ![o] = b],
         NEW c \in Offers
  PROVE  /\ IsFiniteSet(Waiters(c)') /\ Cardinality(Waiters(c)') \in Nat
         /\ Cardinality(Waiters(c)) \in Nat
         /\ c # b => Cardinality(Waiters(c)') <= Cardinality(Waiters(c))
         /\ Cardinality(Waiters(c)') <= Cardinality(Waiters(c)) + 1
<1>1. \A x \in Offers : /\ pc'[x] = IF x = o THEN "reserved" ELSE pc[x]
                        /\ waitOn'[x] = IF x = o THEN b ELSE waitOn[x]
  BY DEF TypeOK
<1>2. /\ Waiters(c)' \subseteq Waiters(c) \cup {o}
      /\ c # b => Waiters(c)' \subseteq Waiters(c)
  BY <1>1 DEF Waiters
<1>3. IsFiniteSet(Waiters(c))
  BY DEF WaitInv
<1>4. /\ IsFiniteSet(Waiters(c)') /\ Cardinality(Waiters(c)') \in Nat
      /\ Cardinality(Waiters(c)) \in Nat
      /\ Cardinality(Waiters(c)') <= Cardinality(Waiters(c)) + 1
  BY <1>2, <1>3, CardOneMore
<1>5. c # b => Cardinality(Waiters(c)') <= Cardinality(Waiters(c))
  BY <1>2, <1>3, CardFewer
<1> QED
  BY <1>4, <1>5

\* A channel nobody waits on has no waiter.
LEMMA NoWaiters ==
  ASSUME NEW b \in Offers, \A x \in Offers : waitOn[x] # b
  PROVE  Cardinality(Waiters(b)) = 0
<1>1. Waiters(b) = {}
  BY DEF Waiters
<1> QED
  BY <1>1, FS_EmptySet

LEMMA SupReserveWaits ==
  ASSUME TypeOK, MailInv, WaitInv, [Next]_vars, NEW g \in Sups, SupReserve(g)
  PROVE  WaitInv'
<1> DEFINE o == Head(ctrl[g]).offer
<1>1. /\ o \in Offers /\ pc[o] = "reserving" /\ supOf[o] = g /\ waitOn[o] = None
      /\ \A x \in Offers : waitOn[x] # o
      /\ \A h \in Sups : broadcast[h] # o
  BY Reserving DEF SupReserve
<1>2. /\ pc' = [pc EXCEPT ![o] = "reserved"] /\ UNCHANGED <<chan, supOf>>
      /\ \/ UNCHANGED <<waitOn, broadcast, pending>>
         \/ /\ broadcast[g] = None
            /\ broadcast' = [broadcast EXCEPT ![g] = o]
            /\ pending' = [pending EXCEPT ![g] = 1]
            /\ waitOn' = [waitOn EXCEPT ![o] = o]
         \/ /\ broadcast[g] # None
            /\ pending' = [pending EXCEPT ![g] = @ + 1]
            /\ waitOn' = [waitOn EXCEPT ![o] = broadcast[g]]
            /\ UNCHANGED broadcast
  BY DEF SupReserve
<1> HIDE DEF o
<1>3. \A x \in Offers : pc'[x] = IF x = o THEN "reserved" ELSE pc[x]
  BY <1>2 DEF TypeOK
<1>4. /\ \A x \in Offers : pc'[x] \in Unreserved => pc[x] \in Unreserved /\ x # o
      /\ \A x \in Offers : pc'[x] \in {"stored", "registering"} => waitOn'[x] = None
  BY <1>2, <1>3 DEF Unreserved, WaitInv, TypeOK
<1>5. \A h \in Sups : pending[h] \in Nat
  BY DEF TypeOK
<1>6. CASE UNCHANGED <<waitOn, broadcast, pending>>
  BY <1>1, <1>2, <1>3, <1>6, WaitFrame
<1>7. CASE /\ broadcast[g] = None
           /\ broadcast' = [broadcast EXCEPT ![g] = o]
           /\ pending' = [pending EXCEPT ![g] = 1]
           /\ waitOn' = [waitOn EXCEPT ![o] = o]
  <2>1. /\ \A h \in Sups : broadcast'[h] = IF h = g THEN o ELSE broadcast[h]
        /\ \A h \in Sups : pending'[h] = IF h = g THEN 1 ELSE pending[h]
        /\ \A x \in Offers : waitOn'[x] = IF x = o THEN o ELSE waitOn[x]
    BY <1>7 DEF TypeOK
  <2>2. \A c \in Offers : /\ IsFiniteSet(Waiters(c)') /\ Cardinality(Waiters(c)') \in Nat
                          /\ Cardinality(Waiters(c)) \in Nat
                          /\ c # o => Cardinality(Waiters(c)') <= Cardinality(Waiters(c))
                          /\ Cardinality(Waiters(c)') <= Cardinality(Waiters(c)) + 1
    BY <1>1, <1>2, <1>7, WaiterJoins
  <2>3. Cardinality(Waiters(o)) = 0
    BY <1>1, NoWaiters
  <2>4. ASSUME NEW b \in Offers, NEW h \in Sups, broadcast'[h] = b
        PROVE  Cardinality(Waiters(b)') <= pending'[h]
    <3>1. CASE h = g
      <4>1. b = o /\ pending'[h] = 1
        BY <2>1, <2>4, <3>1
      <4>2. Cardinality(Waiters(b)) = 0
        BY <2>3, <4>1
      <4> QED
        BY <2>2, <4>1, <4>2
    <3>2. CASE h # g
      <4>1. broadcast[h] = b /\ pending'[h] = pending[h] /\ b # o
        BY <1>1, <2>1, <2>4, <3>2
      <4>2. Cardinality(Waiters(b)) <= pending[h] /\ Cardinality(Waiters(b)') <= Cardinality(Waiters(b))
        BY <2>2, <4>1 DEF WaitInv
      <4> QED
        BY <1>5, <2>2, <4>1, <4>2
    <3> QED
      BY <3>1, <3>2
  <2>5. ASSUME NEW b \in Offers, \A h \in Sups : broadcast'[h] # b
        PROVE  Cardinality(Waiters(b)') <= chan'[b].n
    <3>1. b # o
      BY <2>1, <2>5
    <3>2. \A h \in Sups : broadcast[h] # b
      BY <1>7, <2>1, <2>5, StreamAssumption
    <3>3. Cardinality(Waiters(b)) <= chan[b].n /\ Cardinality(Waiters(b)') <= Cardinality(Waiters(b))
      BY <2>2, <3>1, <3>2 DEF WaitInv
    <3>4. chan[b].n \in Nat
      BY DEF TypeOK
    <3> QED
      BY <1>2, <2>2, <3>3, <3>4
  <2>6. \A x \in Offers : pc'[x] \in Unreserved =>
          /\ waitOn'[x] = None
          /\ \A y \in Offers : waitOn'[y] # x
          /\ \A h \in Sups : broadcast'[h] # x
    BY <1>4, <2>1 DEF WaitInv
  <2>7. \A x \in Offers, h \in Sups : broadcast'[h] = x => supOf'[x] = h
    BY <1>1, <1>2, <2>1 DEF WaitInv
  <2> QED
    BY <1>4, <2>2, <2>4, <2>5, <2>6, <2>7 DEF WaitInv
<1>8. CASE /\ broadcast[g] # None
           /\ pending' = [pending EXCEPT ![g] = @ + 1]
           /\ waitOn' = [waitOn EXCEPT ![o] = broadcast[g]]
           /\ UNCHANGED broadcast
  <2> DEFINE b0 == broadcast[g]
  <2>0. b0 \in Offers /\ waitOn' = [waitOn EXCEPT ![o] = b0] /\ b0 = broadcast[g] /\ b0 # o
    BY <1>1, <1>8 DEF TypeOK
  <2> HIDE DEF b0
  <2>1. /\ \A h \in Sups : pending'[h] = IF h = g THEN pending[g] + 1 ELSE pending[h]
        /\ \A x \in Offers : waitOn'[x] = IF x = o THEN b0 ELSE waitOn[x]
        /\ broadcast' = broadcast
    BY <1>8, <2>0 DEF TypeOK
  <2>2. \A c \in Offers : /\ IsFiniteSet(Waiters(c)') /\ Cardinality(Waiters(c)') \in Nat
                          /\ Cardinality(Waiters(c)) \in Nat
                          /\ c # b0 => Cardinality(Waiters(c)') <= Cardinality(Waiters(c))
                          /\ Cardinality(Waiters(c)') <= Cardinality(Waiters(c)) + 1
    BY <1>1, <1>2, <2>0, WaiterJoins
  <2>4. ASSUME NEW b \in Offers, NEW h \in Sups, broadcast'[h] = b
        PROVE  Cardinality(Waiters(b)') <= pending'[h]
    <3>0. Cardinality(Waiters(b)) <= pending[h] /\ broadcast[h] = b
      BY <2>1, <2>4 DEF WaitInv
    <3>1. CASE h = g
      BY <1>5, <2>1, <2>2, <3>0, <3>1
    <3>2. CASE h # g
      <4>1. b # b0
        BY <2>0, <3>0, <3>2 DEF WaitInv
      <4> QED
        BY <1>5, <2>1, <2>2, <3>0, <3>2, <4>1
    <3> QED
      BY <3>1, <3>2
  <2>5. ASSUME NEW b \in Offers, \A h \in Sups : broadcast'[h] # b
        PROVE  Cardinality(Waiters(b)') <= chan'[b].n
    <3>1. b # b0 /\ \A h \in Sups : broadcast[h] # b
      BY <2>0, <2>1, <2>5
    <3>2. Cardinality(Waiters(b)) <= chan[b].n /\ chan[b].n \in Nat
      BY <3>1 DEF WaitInv, TypeOK
    <3> QED
      BY <1>2, <2>2, <3>1, <3>2
  <2>6. \A x \in Offers : pc'[x] \in Unreserved =>
          /\ waitOn'[x] = None
          /\ \A y \in Offers : waitOn'[y] # x
          /\ \A h \in Sups : broadcast'[h] # x
    BY <1>4, <2>0, <2>1 DEF WaitInv
  <2>7. \A x \in Offers, h \in Sups : broadcast'[h] = x => supOf'[x] = h
    BY <1>2, <2>1 DEF WaitInv
  <2> QED
    BY <1>4, <2>2, <2>4, <2>5, <2>6, <2>7 DEF WaitInv
<1> QED
  BY <1>2, <1>6, <1>7, <1>8

\* A retired supervisor answers with a channel of the offer's own, which is filled.
LEMMA DrainReserveWaits ==
  ASSUME TypeOK, MailInv, WaitInv, NEW g \in Sups, DrainReserve(g)
  PROVE  WaitInv'
<1> DEFINE o == Head(ctrl[g]).offer
<1>1. /\ o \in Offers /\ pc[o] = "reserving" /\ supOf[o] = g /\ waitOn[o] = None
      /\ \A x \in Offers : waitOn[x] # o
      /\ \A h \in Sups : broadcast[h] # o
  BY Reserving DEF DrainReserve
<1>2. /\ pc' = [pc EXCEPT ![o] = "reserved"] /\ waitOn' = [waitOn EXCEPT ![o] = o]
      /\ chan' = [chan EXCEPT ![o] = [n |-> 1, ok |-> FALSE]]
      /\ UNCHANGED <<broadcast, pending, supOf>>
  BY DEF DrainReserve, startVars
<1> HIDE DEF o
<1>3. /\ \A x \in Offers : pc'[x] = IF x = o THEN "reserved" ELSE pc[x]
      /\ \A x \in Offers : waitOn'[x] = IF x = o THEN o ELSE waitOn[x]
      /\ \A b \in Offers : chan'[b] = IF b = o THEN [n |-> 1, ok |-> FALSE] ELSE chan[b]
  BY <1>2 DEF TypeOK
<1>4. \A c \in Offers : /\ IsFiniteSet(Waiters(c)') /\ Cardinality(Waiters(c)') \in Nat
                        /\ Cardinality(Waiters(c)) \in Nat
                        /\ c # o => Cardinality(Waiters(c)') <= Cardinality(Waiters(c))
                        /\ Cardinality(Waiters(c)') <= Cardinality(Waiters(c)) + 1
  BY <1>1, <1>2, WaiterJoins
<1>5. Cardinality(Waiters(o)) = 0
  BY <1>1, NoWaiters
<1>6. (\A h \in Sups : pending[h] \in Nat) /\ \A b \in Offers : chan[b].n \in Nat
  BY DEF TypeOK
<1>7. ASSUME NEW b \in Offers, NEW h \in Sups, broadcast'[h] = b
      PROVE  Cardinality(Waiters(b)') <= pending'[h]
  <2>1. b # o /\ Cardinality(Waiters(b)) <= pending[h] /\ pending'[h] = pending[h]
    BY <1>1, <1>2, <1>7 DEF WaitInv
  <2> QED
    BY <1>4, <1>6, <2>1
<1>8. ASSUME NEW b \in Offers, \A h \in Sups : broadcast'[h] # b
      PROVE  Cardinality(Waiters(b)') <= chan'[b].n
  <2>1. CASE b = o
    <3>1. Cardinality(Waiters(b)) = 0 /\ chan'[b].n = 1
      BY <1>3, <1>5, <2>1
    <3> QED
      BY <1>4, <3>1
  <2>2. CASE b # o
    <3>1. Cardinality(Waiters(b)) <= chan[b].n /\ chan'[b] = chan[b]
      BY <1>2, <1>3, <1>8, <2>2 DEF WaitInv
    <3> QED
      BY <1>4, <1>6, <2>2, <3>1
  <2> QED
    BY <2>1, <2>2
<1>9. /\ \A x \in Offers : pc'[x] \in Unreserved => pc[x] \in Unreserved /\ x # o
      /\ \A x \in Offers : pc'[x] \in {"stored", "registering"} => waitOn'[x] = None
  BY <1>3 DEF Unreserved, WaitInv
<1>10. \A x \in Offers : pc'[x] \in Unreserved =>
         /\ waitOn'[x] = None
         /\ \A y \in Offers : waitOn'[y] # x
         /\ \A h \in Sups : broadcast'[h] # x
  BY <1>2, <1>3, <1>9 DEF WaitInv
<1>11. \A x \in Offers, h \in Sups : broadcast'[h] = x => supOf'[x] = h
  BY <1>2 DEF WaitInv
<1> QED
  BY <1>4, <1>7, <1>8, <1>9, <1>10, <1>11 DEF WaitInv

\* A waiter takes one result, and is a waiter no more.
LEMMA AttachWakeWaits ==
  ASSUME TypeOK, MailInv, WaitInv, [Next]_vars, NEW o \in Offers, AttachWake(o)
  PROVE  WaitInv'
<1> DEFINE w == waitOn[o]
<1>1. /\ pc[o] = "attaching" /\ chan[w].n > 0
      /\ chan' = [chan EXCEPT ![w].n = @ - 1]
      /\ UNCHANGED <<waitOn, broadcast, pending, supOf>>
  BY DEF AttachWake, Step, startVars
<1>2. \A x \in Offers : /\ x # o => pc'[x] = pc[x]
                        /\ x = o => pc'[x] \in {"attachReady", "removing"}
  BY DEF AttachWake, Step, TypeOK
<1> HIDE DEF w
<1>3. \A b \in Offers : /\ b # w => chan'[b] = chan[b]
                        /\ b = w => chan'[b].n = chan[b].n - 1
  BY <1>1 DEF TypeOK
<1>4. \A b \in Offers : /\ Waiters(b)' \subseteq Waiters(b)
                        /\ b = w => o \in Waiters(b) /\ Waiters(b)' \subseteq Waiters(b) \ {o}
  BY <1>1, <1>2 DEF Waiters, w
<1>5. \A b \in Offers : IsFiniteSet(Waiters(b))
  BY DEF WaitInv
<1>6. \A b \in Offers : /\ IsFiniteSet(Waiters(b)') /\ Cardinality(Waiters(b)') \in Nat
                        /\ Cardinality(Waiters(b)) \in Nat
                        /\ Cardinality(Waiters(b)') <= Cardinality(Waiters(b))
  BY <1>4, <1>5, CardFewer
<1>7. \A b \in Offers : b = w => Cardinality(Waiters(b)') <= Cardinality(Waiters(b)) - 1
  BY <1>4, <1>5, CardOneLess
<1>8. (\A h \in Sups : pending[h] \in Nat) /\ \A b \in Offers : chan[b].n \in Nat
  BY DEF TypeOK
<1>9. \A b \in Offers, h \in Sups : broadcast'[h] = b => Cardinality(Waiters(b)') <= pending'[h]
  BY <1>1, <1>6, <1>8 DEF WaitInv
<1>10. ASSUME NEW b \in Offers, \A h \in Sups : broadcast'[h] # b
       PROVE  Cardinality(Waiters(b)') <= chan'[b].n
  <2>1. Cardinality(Waiters(b)) <= chan[b].n
    BY <1>1, <1>10 DEF WaitInv
  <2>2. CASE b = w
    BY <1>3, <1>6, <1>7, <1>8, <2>1, <2>2
  <2>3. CASE b # w
    BY <1>3, <1>6, <1>8, <2>1, <2>3
  <2> QED
    BY <2>2, <2>3
<1>11. /\ \A x \in Offers : pc'[x] \in Unreserved => pc[x] \in Unreserved
       /\ \A x \in Offers : pc'[x] \in {"stored", "registering"} => waitOn'[x] = None
  BY <1>1, <1>2 DEF Unreserved, WaitInv
<1>12. \A x \in Offers : pc'[x] \in Unreserved =>
         /\ waitOn'[x] = None
         /\ \A y \in Offers : waitOn'[y] # x
         /\ \A h \in Sups : broadcast'[h] # x
  BY <1>1, <1>11 DEF WaitInv
<1>13. \A x \in Offers, h \in Sups : broadcast'[h] = x => supOf'[x] = h
  BY <1>1 DEF WaitInv
<1> QED
  BY <1>6, <1>9, <1>10, <1>11, <1>12, <1>13 DEF WaitInv

\* An abort closes the batch: nobody is counted any more.
LEMMA AbortWaits ==
  ASSUME TypeOK, WaitInv, NEW g \in Sups, AbortWaiters(g), UNCHANGED <<pc, waitOn, supOf>>
  PROVE  WaitInv'
<1>1. /\ pending' = [pending EXCEPT ![g] = 0]
      /\ broadcast' = [broadcast EXCEPT ![g] = None]
  BY DEF AbortWaiters
<1>2. CASE broadcast[g] # None /\ pending[g] > 0
  <2>1. chan' = [chan EXCEPT ![broadcast[g]] = [n |-> pending[g], ok |-> FALSE]]
    BY <1>2 DEF AbortWaiters
  <2> QED
    BY <1>1, <2>1, BatchCloses
<1>3. CASE ~(broadcast[g] # None /\ pending[g] > 0)
  <2>1. UNCHANGED chan /\ (pending[g] = 0 \/ broadcast[g] = None)
    BY <1>3 DEF AbortWaiters, TypeOK
  <2> QED
    BY <1>1, <2>1, BatchCloses
<1> QED
  BY <1>2, <1>3

\* Every message a supervisor handles, and every step of its retirement.
LEMMA SupStepWaits ==
  ASSUME TypeOK, MailInv, WaitInv, [Next]_vars, NEW g \in Sups, SupStep(g)
  PROVE  WaitInv'
<1>0. UNCHANGED <<pc, waitOn, broadcast, pending, chan>> => WaitInv'
  <2>1. pc' = pc => \A x \in Offers : /\ pc'[x] \in Awaiting => pc[x] \in Awaiting
                                      /\ pc'[x] \in {"stored", "registering"} =>
                                           pc[x] \in {"stored", "registering"}
    OBVIOUS
  <2> QED
    BY <2>1, WaitFrame
<1>1. CASE SupReserve(g)
  BY <1>1, SupReserveWaits
<1>2. CASE DrainReserve(g)
  BY <1>2, DrainReserveWaits
<1>3. CASE SupStartDone(g)
  <2>1. UNCHANGED <<pc, waitOn, supOf>>
    BY <1>3 DEF SupStartDone, offerVars
  <2>2. CASE UNCHANGED <<chan, startVars>>
    BY <1>0, <2>1, <2>2 DEF startVars
  <2>3. CASE /\ chan' = [chan EXCEPT ![broadcast[g]] = [n |-> pending[g], ok |-> Head(ctrl[g]).ok]]
             /\ pending' = [pending EXCEPT ![g] = 0]
             /\ broadcast' = [broadcast EXCEPT ![g] = None]
    BY <2>1, <2>3, BatchCloses
  <2> QED
    BY <1>3, <2>2, <2>3 DEF SupStartDone
<1>4. CASE SupRelease(g) \/ SupPeerClose(g) \/ SupDisconnect(g)
  <2>1. UNCHANGED <<pc, waitOn, supOf>>
    BY <1>4 DEF SupRelease, SupPeerClose, SupDisconnect, offerVars
  <2>2. \/ UNCHANGED <<chan, startVars>>
        \/ AbortWaiters(g)
    BY <1>4 DEF SupRelease, SupPeerClose, SupDisconnect, TeardownIfIdle, Unlink
  <2> QED
    BY <1>0, <2>1, <2>2, AbortWaits DEF startVars
<1>5. CASE SupRegister(g) \/ DrainRegister(g)
  <2>1. /\ UNCHANGED <<waitOn, broadcast, pending, chan>>
        /\ \E ok : pc' = [pc EXCEPT ![Head(ctrl[g]).offer] = AfterRegister(Head(ctrl[g]).offer, ok)]
    BY <1>5 DEF SupRegister, DrainRegister, startVars
  <2>2. \A x \in Offers : \/ pc'[x] = pc[x]
                          \/ \E ok : pc'[x] = AfterRegister(x, ok)
    BY <2>1 DEF TypeOK
  <2>3. \A x \in Offers : \A ok :
          \/ AfterRegister(x, ok) = pc[x]
          \/ pc[x] = "registering" /\ AfterRegister(x, ok) \in {"answering", "regFailed"}
          \/ AfterRegister(x, ok) \in {"served", "removing"}
    BY DEF AfterRegister
  <2>4. \A x \in Offers : pc[x] = "registering" => waitOn[x] = None
    BY DEF WaitInv
  <2>5. \A x \in Offers : \/ pc'[x] = pc[x]
                          \/ waitOn[x] = None
                          \/ pc'[x] \in {"served", "removing"}
    BY <2>2, <2>3, <2>4
  <2> QED
    BY <2>1, <2>5, WaitFrame DEF Awaiting
<1>6. CASE SupControl(g) \/ SupStop(g) \/ DrainDrop(g) \/ SupExit(g)
  <2>1. UNCHANGED <<pc, waitOn, broadcast, pending, chan>>
    BY <1>6 DEF SupControl, SupStop, DrainDrop, SupExit, offerVars, startVars
  <2> QED
    BY <1>0, <2>1
<1> QED
  BY <1>1, <1>2, <1>3, <1>4, <1>5, <1>6 DEF SupStep

\* An offer begins to wait by the answer to its reservation, and in no step of its own.
LEMMA OfferStepWaits ==
  ASSUME TypeOK, MailInv, WaitInv, [Next]_vars, NEW o \in Offers,
         OfferStep(o) \/ OfferLoadStreamer(o)
  PROVE  WaitInv'
<1>1. CASE AttachWake(o)
  BY <1>1, AttachWakeWaits
<1>2. CASE ~AttachWake(o)
  <2>1. UNCHANGED <<waitOn, broadcast, pending, chan>>
    BY <1>2 DEF OfferStep, OfferLoadStreamer, OfferLinkStreamer, OfferFindSup, OfferFail,
       OfferLookupMap, OfferStore, OfferRegister, OfferUndo, OfferRelease, OfferAnswer,
       AttachFind, AttachLoad, AttachRegister, OfferRemove, startVars
  <2>2. \E from, to :
          /\ Step(o, from, to)
          /\ to \in Awaiting => from \in Awaiting
          /\ to = "stored" => waitOn[o] = None
          /\ to = "registering" => from = "stored"
    <3>1. CASE OfferStore(o)
      BY <3>1 DEF OfferStore, Awaiting
    <3>2. CASE OfferLoadStreamer(o) \/ OfferLinkStreamer(o) \/ OfferFindSup(o) \/ OfferFail(o)
      BY <3>2 DEF OfferLoadStreamer, OfferLinkStreamer, OfferFindSup, OfferFail, Awaiting
    <3>3. CASE OfferLookupMap(o) \/ OfferRegister(o) \/ OfferUndo(o) \/ OfferRelease(o)
      BY <3>3 DEF OfferLookupMap, OfferRegister, OfferUndo, OfferRelease, Awaiting
    <3>4. CASE \/ OfferAnswer(o) \/ AttachFind(o) \/ AttachLoad(o) \/ AttachRegister(o)
               \/ OfferRemove(o)
      BY <3>4 DEF OfferAnswer, AttachFind, AttachLoad, AttachRegister, OfferRemove, Awaiting
    <3> QED
      BY <1>2, <3>1, <3>2, <3>3, <3>4 DEF OfferStep
  <2>3. \A x \in Offers : /\ pc'[x] \in Awaiting => pc[x] \in Awaiting
                          /\ pc'[x] \in {"stored", "registering"} =>
                               pc[x] \in {"stored", "registering"} \/ waitOn[x] = None
    BY <2>2 DEF Step, TypeOK
  <2> QED
    BY <2>1, <2>3, WaitFrame
<1> QED
  BY <1>1, <1>2

\* Nobody waits for ever on a channel that has no result for it: a waiter of a batch is
\* counted by the supervisor that owns the batch, or its result is in the channel
\* (msgScrcpyStartDone, abortScrcpyWaitBroadcast), in every order of offers that join,
\* give up or wake, of Starts that end, and of supervisors that retire.
THEOREM WaitersAreCounted == Spec => []NoForgottenWaiter
<1>1. Init => WaitInv
  <2> SUFFICES ASSUME Init PROVE WaitInv
    OBVIOUS
  <2>1. \A b \in Offers : IsFiniteSet(Waiters(b)) /\ Cardinality(Waiters(b)) = 0
    <3>1. \A b \in Offers : Waiters(b) = {}
      BY DEF Init, SInit, Waiters
    <3> QED
      BY <3>1, FS_EmptySet
  <2>2. /\ \A o \in Offers : pc[o] = "idle" /\ waitOn[o] = None /\ chan[o].n = 0
        /\ \A g \in Sups : broadcast[g] = None
    BY DEF Init, SInit
  <2> QED
    BY <2>1, <2>2, StreamAssumption DEF WaitInv
<1>2. TypeOK /\ MailInv /\ WaitInv /\ [Next]_vars => WaitInv'
  <2> SUFFICES ASSUME TypeOK, MailInv, WaitInv, [Next]_vars PROVE WaitInv'
    OBVIOUS
  <2>0. UNCHANGED <<pc, waitOn, broadcast, pending, chan>> => WaitInv'
    <3>1. pc' = pc => \A x \in Offers : /\ pc'[x] \in Awaiting => pc[x] \in Awaiting
                                        /\ pc'[x] \in {"stored", "registering"} =>
                                             pc[x] \in {"stored", "registering"}
      OBVIOUS
    <3> QED
      BY <3>1, WaitFrame
  <2>1. ASSUME NEW g \in Sups, SupStep(g) PROVE WaitInv'
    BY <2>1, SupStepWaits
  <2>2. ASSUME NEW b \in Offers, StartStep(b) PROVE WaitInv'
    BY <2>0, <2>2 DEF StartStep, StartBegin, StartConnect, StartFinish, offerVars, startVars
  <2>3. ASSUME NEW p \in inFlight, Deliver(p) PROVE WaitInv'
    BY <2>0, <2>3 DEF Deliver, offerVars, startVars
  <2>4. ASSUME NEW o \in Offers, OfferStep(o) \/ OfferLoadStreamer(o) PROVE WaitInv'
    BY <2>4, OfferStepWaits
  <2>5. CASE DeviceLost \/ \E o \in Offers : ConnEnds(o) \/ ControlArrives(o)
    BY <2>0, <2>5 DEF DeviceLost, ConnEnds, ControlArrives, offerVars, startVars
  <2>6. CASE UNCHANGED vars
    BY <2>0, <2>6 DEF vars, svars, offerVars, startVars
  <2> QED
    BY <2>1, <2>2, <2>3, <2>4, <2>5, <2>6 DEF Next, Server
<1>3. WaitInv => NoForgottenWaiter
  BY DEF WaitInv, NoForgottenWaiter
<1> QED
  BY <1>1, <1>2, <1>3, TypeCorrect, MailInvariant, PTL DEF Spec

-----------------------------------------------------------------------------
(* CountHasHolders. Two offers may hold the device at two supervisors, one   *)
(* retired and one live, so it matters at which supervisor a Release or a    *)
(* PeerClose arrives: a Release at the one of the reservation, a PeerClose   *)
(* at that one or a later one, and then the earlier one has retired and      *)
(* counts nobody. OrderInv says so.                                          *)

OrderInv ==
  /\ linkedSup \notin retired
  /\ linkedSup \in Sups => supPc[linkedSup] # "unborn"
  /\ \A g, h \in Sups : h < g /\ supPc[g] # "unborn" => h \in retired
  /\ \A o \in Offers :
       /\ supOf[o] \in Sups => supPc[supOf[o]] # "unborn"
       /\ sessIn[o] # None \/ pcClosed[o] => supOf[o] \in Sups
       /\ \A g \in Sups : MailedTo(g, "peerClose", o) =>
            supOf[o] \in Sups /\ supOf[o] <= g /\ supPc[g] # "unborn"
       /\ pc[o] = "storing" => mapOf[o] # None

\* How the supervisors change: one is born when none is in the map, one that retires
\* leaves the map, and nothing is undone.
SupsMove ==
  /\ \A g \in Sups : supPc[g] # "unborn" => supPc'[g] # "unborn"
  /\ \A g \in Sups : supPc'[g] # "unborn" => supPc[g] # "unborn" \/ SupervisorFor(g)
  /\ retired \subseteq retired'
  /\ linkedSup' \notin retired'
  /\ linkedSup' \in Sups => supPc'[linkedSup'] # "unborn"

LEMMA LookupMoves ==
  ASSUME TypeOK, SupInv, OrderInv, NEW g \in Sups, SupervisorFor(g), UNCHANGED retired
  PROVE  SupsMove
<1>1. CASE g = linkedSup /\ UNCHANGED <<linkedSup, supPc>>
  BY <1>1 DEF SupsMove, OrderInv
<1>2. CASE /\ linkedSup = NoSup /\ supPc[g] = "unborn"
           /\ linkedSup' = g /\ supPc' = [supPc EXCEPT ![g] = "loop"]
  <2>1. \A h \in Sups : supPc'[h] = IF h = g THEN "loop" ELSE supPc[h]
    BY <1>2 DEF TypeOK
  <2>2. g \notin retired
    BY <1>2 DEF SupInv
  <2> QED
    BY <1>2, <2>1, <2>2 DEF SupsMove
<1> QED
  BY <1>1, <1>2 DEF SupervisorFor

LEMMA SupsMoveInStep ==
  ASSUME TypeOK, SupInv, OrderInv, [Next]_vars
  PROVE  SupsMove
<1>0. UNCHANGED <<linkedSup, supPc, retired>> => SupsMove
  BY DEF SupsMove, OrderInv
<1>1. ASSUME NEW g \in Sups, SupStep(g) PROVE SupsMove
  <2>1. CASE SupReserve(g) \/ SupStartDone(g) \/ SupRegister(g) \/ SupControl(g)
             \/ DrainReserve(g) \/ DrainRegister(g) \/ DrainDrop(g)
    BY <1>0, <2>1 DEF SupReserve, SupStartDone, SupRegister, SupControl, DrainReserve,
       DrainRegister, DrainDrop, tableVars
  <2>2. CASE SupRelease(g) \/ SupPeerClose(g) \/ SupDisconnect(g)
    <3>1. /\ UNCHANGED <<linkedSup, retired>> /\ supPc[g] \in {"loop", "drain"}
          /\ \/ UNCHANGED supPc
             \/ \E next \in {"stopTeardown", "stopDisconnect"} : supPc' = [supPc EXCEPT ![g] = next]
      BY <2>2 DEF SupRelease, SupPeerClose, SupDisconnect, TeardownIfIdle, Unlink, Receives,
         tableVars
    <3>2. \A h \in Sups : supPc'[h] = "unborn" <=> supPc[h] = "unborn"
      BY <3>1 DEF TypeOK
    <3> QED
      BY <3>1, <3>2 DEF SupsMove, OrderInv
  <2>3. CASE SupStop(g) \/ SupExit(g)
    <3>1. /\ \/ retired' = retired \cup {g} /\ linkedSup' = IF linkedSup = g THEN NoSup ELSE linkedSup
             \/ UNCHANGED <<linkedSup, retired>>
          /\ supPc[g] # "unborn"
          /\ \E next \in {"drain", "exited"} : supPc' = [supPc EXCEPT ![g] = next]
      BY <2>3 DEF SupStop, SupExit, tableVars
    <3>2. \A h \in Sups : supPc'[h] = "unborn" <=> supPc[h] = "unborn"
      BY <3>1 DEF TypeOK
    <3>3. NoSup \notin Sups /\ retired \subseteq Sups
      BY DEF NoSup, Sups, TypeOK
    <3>4. linkedSup' \notin retired' /\ retired \subseteq retired'
      BY <3>1, <3>3 DEF OrderInv
    <3>5. linkedSup' \in Sups => linkedSup' = linkedSup
      BY <3>1, <3>3
    <3> QED
      BY <3>2, <3>4, <3>5 DEF SupsMove, OrderInv
  <2> QED
    BY <1>1, <2>1, <2>2, <2>3 DEF SupStep
<1>2. ASSUME NEW b \in Offers, StartStep(b) PROVE SupsMove
  BY <1>0, <1>2 DEF StartStep, StartBegin, StartConnect, StartFinish, tableVars
<1>3. ASSUME NEW p \in inFlight, Deliver(p) PROVE SupsMove
  BY <1>0, <1>3 DEF Deliver, tableVars
<1>4. ASSUME NEW o \in Offers,
             \/ OfferFindSup(o) \/ AttachRegister(o) \/ OfferRemove(o) \/ ConnEnds(o)
             \/ ControlArrives(o)
      PROVE  SupsMove
  <2>1. UNCHANGED retired /\ \E g \in Sups : SupervisorFor(g)
    BY <1>4 DEF OfferFindSup, AttachRegister, OfferRemove, ConnEnds, ControlArrives
  <2> QED
    BY <2>1, LookupMoves
<1>5. ASSUME NEW o \in Offers,
             \/ OfferLoadStreamer(o) \/ OfferLinkStreamer(o) \/ OfferFail(o) \/ OfferLookupMap(o)
             \/ OfferStore(o) \/ OfferRegister(o) \/ OfferUndo(o) \/ OfferRelease(o)
             \/ OfferAnswer(o) \/ AttachWake(o) \/ AttachFind(o) \/ AttachLoad(o)
      PROVE  SupsMove
  <2>1. UNCHANGED <<linkedSup, supPc, retired>>
    BY <1>5 DEF OfferLoadStreamer, OfferLinkStreamer, OfferFail, OfferLookupMap, OfferStore,
       OfferRegister, OfferUndo, OfferRelease, OfferAnswer, AttachWake, AttachFind, AttachLoad,
       tableVars
  <2> QED
    BY <1>0, <2>1
<1>6. ASSUME DeviceLost PROVE SupsMove
  BY <1>0, <1>6 DEF DeviceLost
<1>7. ASSUME UNCHANGED vars PROVE SupsMove
  BY <1>0, <1>7 DEF vars, svars, tableVars
<1>8. ASSUME NEW o \in Offers,
             OfferStep(o) \/ OfferLoadStreamer(o) \/ ConnEnds(o) \/ ControlArrives(o)
      PROVE  SupsMove
  BY <1>4, <1>5, <1>8 DEF OfferStep
<1> QED
  BY <1>1, <1>2, <1>3, <1>6, <1>7, <1>8 DEF Next, Server

\* A session, and a PeerConnection the server closed, belong to an offer that reserved;
\* an offer stores its session in a map that it has looked up.
LEMMA SessionsMove ==
  ASSUME TypeOK, [Next]_vars, NEW x \in Offers
  PROVE  /\ sessIn'[x] # None \/ pcClosed'[x] =>
              sessIn[x] # None \/ pcClosed[x] \/ pc[x] \in {"storing", "regFailed"}
         /\ pc'[x] = "storing" => \/ pc[x] = "storing" /\ mapOf'[x] = mapOf[x]
                                  \/ mapOf'[x] # None
<1> DEFINE Moves == /\ sessIn'[x] # None \/ pcClosed'[x] =>
                         sessIn[x] # None \/ pcClosed[x] \/ pc[x] \in {"storing", "regFailed"}
                    /\ pc'[x] = "storing" => \/ pc[x] = "storing" /\ mapOf'[x] = mapOf[x]
                                             \/ mapOf'[x] # None
<1>0. UNCHANGED <<pc, sessIn, pcClosed, mapOf>> => Moves
  OBVIOUS
<1>1. ASSUME NEW g \in Sups, SupStep(g) PROVE Moves
  <2>1. CASE \/ SupStartDone(g) \/ SupRelease(g) \/ SupControl(g) \/ SupStop(g) \/ DrainDrop(g)
             \/ SupExit(g)
    BY <1>0, <2>1 DEF SupStartDone, SupRelease, SupControl, SupStop, DrainDrop, SupExit, tableVars,
       offerVars
  <2>2. CASE SupReserve(g) \/ DrainReserve(g)
    <3>1. UNCHANGED <<sessIn, pcClosed, mapOf>> /\ (pc'[x] = pc[x] \/ pc'[x] = "reserved")
      BY <2>2 DEF SupReserve, DrainReserve, tableVars, TypeOK
    <3> QED
      BY <3>1
  <2>3. CASE SupRegister(g) \/ DrainRegister(g)
    <3>1. /\ UNCHANGED <<sessIn, pcClosed, mapOf>>
          /\ \E ok : pc' = [pc EXCEPT ![Head(ctrl[g]).offer] =
                                         AfterRegister(Head(ctrl[g]).offer, ok)]
      BY <2>3 DEF SupRegister, DrainRegister, tableVars
    <3>2. pc'[x] = pc[x] \/ \E ok : pc'[x] = AfterRegister(x, ok)
      BY <3>1 DEF TypeOK
    <3>3. pc'[x] = "storing" => pc[x] = "storing"
      BY <3>2 DEF AfterRegister
    <3> QED
      BY <3>1, <3>3
  <2>4. CASE SupPeerClose(g)
    <3> DEFINE o == Head(ctrl[g]).offer
    <3>1. /\ UNCHANGED <<pc, mapOf>>
          /\ \/ UNCHANGED <<sessIn, pcClosed>>
             \/ /\ sessIn[o] # None
                /\ sessIn' = [sessIn EXCEPT ![o] = None]
                /\ pcClosed' = [pcClosed EXCEPT ![o] = TRUE]
      BY <2>4 DEF SupPeerClose, Visible
    <3>2. \/ sessIn'[x] = sessIn[x] /\ pcClosed'[x] = pcClosed[x]
          \/ sessIn[x] # None
      BY <3>1 DEF TypeOK
    <3> QED
      BY <3>1, <3>2
  <2>5. CASE SupDisconnect(g)
    <3>1. /\ UNCHANGED <<pc, mapOf, sessIn>>
          /\ pcClosed'[x] <=> pcClosed[x] \/ Visible(x)
      BY <2>5 DEF SupDisconnect
    <3> QED
      BY <3>1 DEF Visible
  <2> QED
    BY <1>1, <2>1, <2>2, <2>3, <2>4, <2>5 DEF SupStep
<1>2. ASSUME NEW b \in Offers, StartStep(b) PROVE Moves
  BY <1>0, <1>2 DEF StartStep, StartBegin, StartConnect, StartFinish, offerVars, tableVars
<1>3. ASSUME NEW p \in inFlight, Deliver(p) PROVE Moves
  BY <1>0, <1>3 DEF Deliver, offerVars, tableVars
<1>4. ASSUME NEW o \in Offers, OfferStep(o) \/ OfferLoadStreamer(o) PROVE Moves
  <2>1. CASE OfferStore(o) \/ OfferUndo(o)
    <3>1. /\ UNCHANGED mapOf /\ pc[o] \in {"storing", "regFailed"} /\ pc'[o] # "storing"
          /\ o # x => /\ sessIn'[x] = sessIn[x] /\ pcClosed'[x] = pcClosed[x]
                      /\ pc'[x] = pc[x]
      BY <2>1 DEF OfferStore, OfferUndo, Step, TypeOK
    <3> QED
      BY <3>1
  <2>2. CASE OfferLookupMap(o)
    <3>1. /\ UNCHANGED <<sessIn, pcClosed>>
          /\ streams' # None /\ mapOf' = [mapOf EXCEPT ![o] = streams']
      BY <2>2, StreamAssumption DEF OfferLookupMap
    <3>2. /\ o = x => mapOf'[x] # None
          /\ o # x => pc'[x] = pc[x] /\ mapOf'[x] = mapOf[x]
      BY <2>2, <3>1 DEF OfferLookupMap, Step, TypeOK
    <3> QED
      BY <3>1, <3>2
  <2>3. CASE \/ OfferLoadStreamer(o) \/ OfferLinkStreamer(o) \/ OfferFindSup(o) \/ OfferFail(o)
             \/ OfferRegister(o) \/ OfferRelease(o) \/ OfferAnswer(o) \/ AttachWake(o)
             \/ AttachFind(o) \/ AttachLoad(o) \/ AttachRegister(o) \/ OfferRemove(o)
    <3>1. UNCHANGED <<sessIn, pcClosed, mapOf>>
      BY <2>3 DEF OfferLoadStreamer, OfferLinkStreamer, OfferFindSup, OfferFail, OfferRegister,
         OfferRelease, OfferAnswer, AttachWake, AttachFind, AttachLoad, AttachRegister, OfferRemove,
         tableVars
    <3>2. \E from, to : Step(o, from, to) /\ to # "storing"
      BY <2>3 DEF OfferLoadStreamer, OfferLinkStreamer, OfferFindSup, OfferFail, OfferRegister,
         OfferRelease, OfferAnswer, AttachWake, AttachFind, AttachLoad, AttachRegister, OfferRemove
    <3>3. pc'[x] = pc[x] \/ pc'[x] # "storing"
      BY <3>2 DEF Step, TypeOK
    <3> QED
      BY <3>1, <3>3
  <2> QED
    BY <1>4, <2>1, <2>2, <2>3 DEF OfferStep
<1>5. ASSUME NEW o \in Offers, ConnEnds(o) \/ ControlArrives(o) PROVE Moves
  BY <1>0, <1>5 DEF ConnEnds, ControlArrives, offerVars
<1>6. ASSUME DeviceLost PROVE Moves
  <2>1. /\ UNCHANGED <<pc, mapOf, sessIn>>
        /\ UNCHANGED pcClosed \/ (pcClosed'[x] <=> pcClosed[x] \/ Visible(x))
    BY <1>6 DEF DeviceLost
  <2> QED
    BY <2>1 DEF Visible
<1>7. ASSUME UNCHANGED vars PROVE Moves
  BY <1>0, <1>7 DEF vars, svars, offerVars, tableVars
<1> HIDE DEF Moves
<1>8. Moves
  BY <1>1, <1>2, <1>3, <1>4, <1>5, <1>6, <1>7 DEF Next, Server
<1> QED
  BY <1>8 DEF Moves


\* A lookup finds no supervisor older than one that an offer has found.
LEMMA LookupFindsLater ==
  ASSUME TypeOK, SupInv, OrderInv, NEW g \in Sups, SupervisorFor(g),
         NEW h \in Sups, supPc[h] # "unborn"
  PROVE  h <= g
<1>1. g \notin retired
  BY DEF SupervisorFor, OrderInv, SupInv
<1>2. ~(g < h)
  BY <1>1 DEF OrderInv
<1> QED
  BY <1>2 DEF Sups

\* A supervisor that a lookup finds has been born by then.
LEMMA LookupFindsBorn ==
  ASSUME TypeOK, OrderInv, NEW g \in Sups, SupervisorFor(g)
  PROVE  supPc'[g] # "unborn"
  BY DEF SupervisorFor, OrderInv, TypeOK

LEMMA OrderKept ==
  ASSUME TypeOK, SupInv, ReplyInv, MailInv, OrderInv, [Next]_vars
  PROVE  OrderInv'
<1>1. SupsMove
  BY SupsMoveInStep
<1>2. ASSUME NEW g \in Sups, NEW h \in Sups, h < g, supPc'[g] # "unborn" PROVE h \in retired'
  <2>1. CASE supPc[g] # "unborn"
    BY <1>1, <1>2, <2>1 DEF SupsMove, OrderInv
  <2>2. CASE supPc[g] = "unborn"
    <3>1. linkedSup = NoSup /\ supPc[h] # "unborn"
      BY <1>1, <1>2, <2>2 DEF SupsMove, SupervisorFor, OrderInv
    <3>2. h # NoSup
      BY DEF Sups, NoSup
    <3> QED
      BY <1>1, <3>1, <3>2 DEF SupsMove, SupInv, OneSupervisor
  <2> QED
    BY <2>1, <2>2
<1>3. ASSUME NEW o \in Offers
      PROVE  /\ supOf'[o] \in Sups => supPc'[supOf'[o]] # "unborn"
             /\ sessIn'[o] # None \/ pcClosed'[o] => supOf'[o] \in Sups
             /\ \A g \in Sups : MailedTo(g, "peerClose", o)' =>
                  supOf'[o] \in Sups /\ supOf'[o] <= g /\ supPc'[g] # "unborn"
             /\ pc'[o] = "storing" => mapOf'[o] # None
  <2>1. OfferMoves(o)
    BY StepMoves
  <2>2. CASE OfferFindSup(o)
    <3>1. PICK g \in Sups : SupervisorFor(g) /\ supOf' = [supOf EXCEPT ![o] = g]
      BY <2>2 DEF OfferFindSup
    <3>2. supOf'[o] = g /\ supPc'[g] # "unborn"
      BY <3>1, LookupFindsBorn DEF TypeOK
    <3>3. pc[o] = "resolved" /\ pc'[o] = "reserving"
      BY <2>2 DEF OfferFindSup, Step, TypeOK
    <3>4. ~Mailed("peerClose", o)
      BY <3>3 DEF MailInv, Unreserved
    <3>5. ~OfferRemove(o) /\ ~ConnEnds(o)
      BY <3>3 DEF OfferRemove, ConnEnds, Connected, Answered, Step, MailInv, Unreserved
    <3>6. \A h \in Sups : ~MailedTo(h, "peerClose", o)'
      BY <3>4, <3>5, NewsOfStep, MailedSomewhere
    <3> QED
      BY <3>2, <3>3, <3>6
  <2>3. CASE ~OfferFindSup(o)
    <3>1. supOf'[o] = supOf[o]
      BY <2>1, <2>3 DEF OfferMoves
    <3>2. supOf[o] \in Sups => supPc'[supOf[o]] # "unborn"
      BY <1>1 DEF SupsMove, OrderInv
    <3>3. sessIn'[o] # None \/ pcClosed'[o] => supOf[o] \in Sups
      <4>1. pc[o] \in {"storing", "regFailed"} => supOf[o] \in Sups
        BY DEF ReplyInv, NoSupPcs
      <4>2. sessIn'[o] # None \/ pcClosed'[o] =>
              sessIn[o] # None \/ pcClosed[o] \/ pc[o] \in {"storing", "regFailed"}
        BY SessionsMove
      <4> QED
        BY <4>1, <4>2 DEF OrderInv
    <3>4. ASSUME NEW g \in Sups, MailedTo(g, "peerClose", o)'
          PROVE  supOf[o] \in Sups /\ supOf[o] <= g /\ supPc'[g] # "unborn"
      <4>1. CASE MailedTo(g, "peerClose", o)
        BY <1>1, <4>1 DEF SupsMove, OrderInv
      <4>2. CASE (OfferRemove(o) \/ ConnEnds(o)) /\ SupervisorFor(g)
        <5>1. supOf[o] \in Sups
          BY <4>2 DEF OfferRemove, ConnEnds, Connected, Step, ReplyInv, NoSupPcs, OrderInv
        <5>2. supPc[supOf[o]] # "unborn"
          BY <5>1 DEF OrderInv
        <5> QED
          BY <4>2, <5>1, <5>2, LookupFindsLater, LookupFindsBorn
      <4> QED
        BY <3>4, <4>1, <4>2, NewsOfStep
    <3>5. pc'[o] = "storing" => mapOf'[o] # None
      <4>1. pc[o] = "storing" => mapOf[o] # None
        BY DEF OrderInv
      <4> QED
        BY <4>1, SessionsMove
    <3> QED
      BY <3>1, <3>2, <3>3, <3>4, <3>5
  <2> QED
    BY <2>2, <2>3
<1>4. linkedSup' \notin retired' /\ (linkedSup' \in Sups => supPc'[linkedSup'] # "unborn")
  BY <1>1 DEF SupsMove
<1> QED
  BY <1>2, <1>3, <1>4 DEF OrderInv

LEMMA OrderInvariant == Spec => []OrderInv
<1>1. Init => OrderInv
  BY StreamAssumption DEF Init, SInit, OrderInv, MailedTo, InBox, NoSup, Sups
<1>2. TypeOK /\ SupInv /\ ReplyInv /\ MailInv /\ OrderInv /\ [Next]_vars => OrderInv'
  BY OrderKept
<1> QED
  BY <1>1, <1>2, TypeCorrect, SupInvariant, RepliesInvariant, MailInvariant, PTL DEF Spec


Held == {"reserved", "storing", "regFailed", "releasing"}

Holding(x) == pc[x] \in Held \/ sessIn[x] # None \/ Mailed("release", x)

\* The Holders of g, and the offers whose session lies in a map nobody finds any more.
Keepers(g) == {x \in Offers : supOf[x] = g /\ Holding(x)}

Counted(g) == IsFiniteSet(Keepers(g)) /\ webrtcN[g] <= Cardinality(Keepers(g))

CountInv == \A g \in Sups : Counted(g)

\* At most o begins to hold, and nobody changes the supervisor it holds.
HoldersMove(o) ==
  \A x \in Offers : /\ Holding(x) \/ Holding(x)' => supOf'[x] = supOf[x]
                    /\ Holding(x)' => Holding(x) \/ x = o

\* Whoever holds g still does.
NoneLeaves(g) == \A x \in Offers : supOf[x] = g /\ Holding(x) => Holding(x)'

LEMMA KeepersAre ==
  ASSUME NEW g
  PROVE  /\ Keepers(g) = {x \in Offers : supOf[x] = g /\ Holding(x)}
         /\ Keepers(g)' = {x \in Offers : supOf'[x] = g /\ Holding(x)'}
  BY DEF Keepers

LEMMA KeepersFinite ==
  ASSUME NEW g, IsFiniteSet(Keepers(g)), NEW o, HoldersMove(o)
  PROVE  IsFiniteSet(Keepers(g)') /\ Cardinality(Keepers(g)') \in Nat
<1>1. Keepers(g)' \subseteq Keepers(g) \cup {o}
  BY KeepersAre DEF HoldersMove
<1> QED
  BY <1>1, CardOneMore

\* The count is right after a step that clears it, ...
LEMMA CountCleared ==
  ASSUME NEW g, Counted(g), NEW o, HoldersMove(o), webrtcN'[g] = 0
  PROVE  Counted(g)'
<1>1. IsFiniteSet(Keepers(g)') /\ Cardinality(Keepers(g)') \in Nat
  BY KeepersFinite DEF Counted
<1> QED
  BY <1>1 DEF Counted

\* ... one after which nobody has left and the count has not grown, ...
LEMMA CountStays ==
  ASSUME TypeOK, NEW g \in Sups, Counted(g), NEW o, HoldersMove(o), NoneLeaves(g),
         webrtcN'[g] \in Nat, webrtcN'[g] <= webrtcN[g]
  PROVE  Counted(g)'
<1>1. IsFiniteSet(Keepers(g)')
  BY KeepersFinite DEF Counted
<1>2. Keepers(g) \subseteq Keepers(g)'
  BY KeepersAre DEF HoldersMove, NoneLeaves
<1>3. /\ Cardinality(Keepers(g)) \in Nat /\ Cardinality(Keepers(g)') \in Nat
      /\ Cardinality(Keepers(g)) <= Cardinality(Keepers(g)')
  BY <1>1, <1>2, CardFewer
<1>4. webrtcN[g] \in Nat
  BY DEF TypeOK
<1> QED
  BY <1>1, <1>3, <1>4 DEF Counted

\* ... one that counts the offer that joins, ...
LEMMA CountJoins ==
  ASSUME TypeOK, NEW g \in Sups, Counted(g), NEW o \in Offers, HoldersMove(o), NoneLeaves(g),
         supOf[o] = g, ~Holding(o), Holding(o)', webrtcN'[g] = webrtcN[g] + 1
  PROVE  Counted(g)'
<1>1. IsFiniteSet(Keepers(g)')
  BY KeepersFinite DEF Counted
<1>2. o \in Keepers(g)' /\ Keepers(g) \subseteq Keepers(g)' \ {o}
  BY KeepersAre DEF HoldersMove, NoneLeaves
<1>3. /\ Cardinality(Keepers(g)) \in Nat /\ Cardinality(Keepers(g)') \in Nat
      /\ Cardinality(Keepers(g)) <= Cardinality(Keepers(g)') - 1
  BY <1>1, <1>2, CardOneLess
<1>4. webrtcN[g] \in Nat
  BY DEF TypeOK
<1> QED
  BY <1>1, <1>3, <1>4 DEF Counted

\* ... and one that counts down when at most o leaves.
LEMMA CountLeaves ==
  ASSUME TypeOK, NEW g \in Sups, Counted(g), NEW o, HoldersMove(o),
         \A x \in Offers : supOf[x] = g /\ Holding(x) => Holding(x)' \/ x = o,
         webrtcN'[g] = Floor(webrtcN[g]) \/ webrtcN'[g] = 0
  PROVE  Counted(g)'
<1>1. IsFiniteSet(Keepers(g)')
  BY KeepersFinite DEF Counted
<1>2. Keepers(g) \subseteq Keepers(g)' \cup {o}
  BY KeepersAre DEF HoldersMove
<1>3. /\ Cardinality(Keepers(g)) \in Nat /\ Cardinality(Keepers(g)') \in Nat
      /\ Cardinality(Keepers(g)) <= Cardinality(Keepers(g)') + 1
  BY <1>1, <1>2, CardOneMore
<1>4. webrtcN[g] \in Nat
  BY DEF TypeOK
<1> QED
  BY <1>1, <1>3, <1>4 DEF Counted, Floor


\* A step that does not touch the count, after which nobody has left.
LEMMA CountQuiet ==
  ASSUME TypeOK, CountInv, UNCHANGED <<webrtcN, supOf>>, NEW o,
         \A x \in Offers : /\ Holding(x) => Holding(x)'
                           /\ Holding(x)' => Holding(x) \/ x = o
  PROVE  CountInv'
<1>1. HoldersMove(o) /\ \A g \in Sups : NoneLeaves(g)
  BY DEF HoldersMove, NoneLeaves
<1>2. \A g \in Sups : webrtcN'[g] \in Nat /\ webrtcN'[g] <= webrtcN[g]
  BY DEF TypeOK
<1> QED
  BY <1>1, <1>2, CountStays DEF CountInv

\* A supervisor's message changes what other mail is on the way only by its own loss.
LEMMA ReleaseKept ==
  ASSUME TypeOK, NEW g \in Sups, NEW pcs, NEW kind, Receives(g, pcs, kind), kind # "release",
         \/ UNCHANGED inFlight
         \/ inFlight' = inFlight \cup {Post(g, "control", DisconnectMsg)},
         NEW x \in Offers
  PROVE  Mailed("release", x)' <=> Mailed("release", x)
<1>1. inFlight \subseteq inFlight' /\ \A p \in inFlight' \ inFlight : p.msg.offer = None
  BY DEF Post, DisconnectMsg
<1> QED
  BY <1>1, MailedReceives

\* A reservation is counted at the supervisor that grants it.
LEMMA SupReserveCounts ==
  ASSUME TypeOK, MailInv, CountInv, NEW g \in Sups, SupReserve(g) \/ DrainReserve(g)
  PROVE  CountInv'
<1>0. PICK o \in Offers : o = Head(ctrl[g]).offer
  <2>1. \E pcs : Receives(g, pcs, "reserve")
    BY DEF SupReserve, DrainReserve
  <2> QED
    BY <2>1, ReceivesType DEF OfferKinds
<1>1. /\ \E pcs : Receives(g, pcs, "reserve")
      /\ UNCHANGED <<supOf, sessIn, inFlight>> /\ pc' = [pc EXCEPT ![o] = "reserved"]
      /\ \/ webrtcN' = [webrtcN EXCEPT ![g] = @ + 1]
         \/ UNCHANGED webrtcN
  BY <1>0 DEF SupReserve, DrainReserve, tableVars
<1>2. pc[o] = "reserving" /\ supOf[o] = g
  BY <1>0, <1>1, MailedHead, HeadMailedTo DEF MailInv
<1>3. \A x \in Offers : Mailed("release", x)' <=> Mailed("release", x)
  BY <1>1, ReleaseKept
<1>4. ~Holding(o) /\ Holding(o)'
  BY <1>1, <1>2 DEF Holding, Held, MailInv, Unreserved, TypeOK
<1>5. \A x \in Offers : x # o => (Holding(x)' <=> Holding(x))
  BY <1>1, <1>3 DEF Holding, TypeOK
<1>6. HoldersMove(o) /\ \A h \in Sups : NoneLeaves(h)
  BY <1>1, <1>4, <1>5 DEF HoldersMove, NoneLeaves
<1>7. CASE webrtcN' = [webrtcN EXCEPT ![g] = @ + 1]
  <2>1. /\ webrtcN'[g] = webrtcN[g] + 1
        /\ \A h \in Sups : h # g => webrtcN'[h] = webrtcN[h] /\ webrtcN[h] \in Nat
    BY <1>7 DEF TypeOK
  <2>2. Counted(g)'
    BY <1>2, <1>4, <1>6, <2>1, CountJoins DEF CountInv
  <2>3. ASSUME NEW h \in Sups, h # g PROVE Counted(h)'
    BY <1>6, <2>1, <2>3, CountStays DEF CountInv
  <2> QED
    BY <2>2, <2>3 DEF CountInv
<1>8. CASE UNCHANGED webrtcN
  BY <1>1, <1>4, <1>5, <1>8, CountQuiet
<1> QED
  BY <1>1, <1>7, <1>8

\* What a supervisor loses of a Release or a PeerClose, it counts down; when it is not
\* the supervisor of the reservation, that one has retired and counts nobody.
LEMMA SupCountsDown ==
  ASSUME TypeOK, SupInv', MailInv, OrderInv, CountInv, NEW g \in Sups,
         SupRelease(g) \/ SupPeerClose(g)
  PROVE  CountInv'
<1>0. PICK o \in Offers : o = Head(ctrl[g]).offer
  <2>1. \E pcs : Receives(g, pcs, "release") \/ Receives(g, pcs, "peerClose")
    BY DEF SupRelease, SupPeerClose
  <2> QED
    BY <2>1, ReceivesType DEF OfferKinds
<1>1. /\ UNCHANGED <<pc, supOf, inFlight, retired>>
      /\ \/ UNCHANGED webrtcN
         \/ webrtcN' = [webrtcN EXCEPT ![g] = Floor(webrtcN[g])]
  BY DEF SupRelease, SupPeerClose, TeardownIfIdle, offerVars
<1>3. \A h \in Sups : webrtcN'[h] \in Nat /\ webrtcN'[h] <= webrtcN[h]
  <2>1. \A h \in Sups : webrtcN[h] \in Nat
    BY DEF TypeOK
  <2>2. \A h \in Sups : webrtcN'[h] = webrtcN[h] \/ webrtcN'[h] = Floor(webrtcN[h])
    BY <1>1 DEF TypeOK
  <2> QED
    BY <2>1, <2>2 DEF Floor
<1>4. SupRelease(g) => UNCHANGED sessIn /\ webrtcN'[g] = Floor(webrtcN[g]) /\ supOf[o] = g
  <2>1. SupRelease(g) => /\ UNCHANGED sessIn /\ \E pcs : Receives(g, pcs, "release")
                         /\ webrtcN' = [webrtcN EXCEPT ![g] = Floor(webrtcN[g])]
    BY DEF SupRelease, TeardownIfIdle
  <2>2. SupRelease(g) => MailedTo(g, "release", o)
    BY <1>0, <2>1, HeadMailedTo
  <2> QED
    BY <2>1, <2>2 DEF MailInv, TypeOK
<1>5. SupPeerClose(g) => \/ UNCHANGED <<sessIn, webrtcN>>
                         \/ /\ sessIn' = [sessIn EXCEPT ![o] = None]
                            /\ webrtcN'[g] = Floor(webrtcN[g])
                            /\ supOf[o] \in Sups /\ (supOf[o] = g \/ supOf[o] \in retired)
  <2>1. SupPeerClose(g) =>
          /\ \E pcs : Receives(g, pcs, "peerClose")
          /\ \/ UNCHANGED <<sessIn, webrtcN>>
             \/ /\ sessIn' = [sessIn EXCEPT ![o] = None]
                /\ webrtcN' = [webrtcN EXCEPT ![g] = Floor(webrtcN[g])]
    BY <1>0 DEF SupPeerClose, TeardownIfIdle
  <2>2. SupPeerClose(g) => MailedTo(g, "peerClose", o)
    BY <1>0, <2>1, HeadMailedTo
  <2>3. SupPeerClose(g) => supOf[o] \in Sups /\ supOf[o] <= g /\ supPc[g] # "unborn"
    BY <2>2 DEF OrderInv
  <2>4. SupPeerClose(g) => supOf[o] = g \/ supOf[o] < g
    BY <2>3 DEF Sups
  <2>5. SupPeerClose(g) => supOf[o] = g \/ supOf[o] \in retired
    BY <2>3, <2>4 DEF OrderInv
  <2> QED
    BY <2>1, <2>3, <2>5 DEF TypeOK
<1>6. \A x \in Offers : /\ Mailed("release", x)' => Mailed("release", x)
                        /\ Mailed("release", x) =>
                             Mailed("release", x)' \/ (SupRelease(g) /\ x = o)
  <2>1. CASE SupRelease(g)
    <3>1. \E pcs : Receives(g, pcs, "release")
      BY <2>1 DEF SupRelease
    <3>2. inFlight \subseteq inFlight' /\ \A p \in inFlight' \ inFlight : p.msg.offer = None
      BY <1>1
    <3> QED
      BY <1>0, <2>1, <3>1, <3>2, MailedReceives
  <2>2. CASE SupPeerClose(g)
    <3>1. \E pcs : Receives(g, pcs, "peerClose")
      BY <2>2 DEF SupPeerClose
    <3> QED
      BY <1>1, <3>1, ReleaseKept
  <2> QED
    BY <2>1, <2>2
<1>7. ASSUME NEW x \in Offers
      PROVE  /\ Holding(x)' => Holding(x)
             /\ Holding(x) => Holding(x)' \/ x = o
             /\ Holding(x) => \/ Holding(x)'
                              \/ webrtcN'[g] = Floor(webrtcN[g])
  <2>1. x # o => sessIn'[x] = sessIn[x]
    BY <1>4, <1>5 DEF TypeOK
  <2>2. sessIn'[x] # None => sessIn[x] # None
    BY <1>4, <1>5 DEF TypeOK
  <2>3. \/ Mailed("release", x) => Mailed("release", x)'
        \/ webrtcN'[g] = Floor(webrtcN[g])
    BY <1>4, <1>6
  <2>4. sessIn'[x] = sessIn[x] \/ webrtcN'[g] = Floor(webrtcN[g])
    BY <1>4, <1>5
  <2> QED
    BY <1>1, <1>6, <2>1, <2>2, <2>3, <2>4 DEF Holding
<1>8. HoldersMove(o)
  BY <1>1, <1>7 DEF HoldersMove
<1>9. ASSUME NEW h \in Sups PROVE Counted(h)'
  <2>1. CASE \A x \in Offers : Holding(x) => Holding(x)'
    <3>1. NoneLeaves(h)
      BY <2>1 DEF NoneLeaves
    <3> QED
      BY <1>3, <1>8, <3>1, CountStays DEF CountInv
  <2>2. CASE ~ \A x \in Offers : Holding(x) => Holding(x)'
    <3>1. ~(Holding(o) => Holding(o)')
      BY <1>7, <2>2
    <3>2. /\ webrtcN'[g] = Floor(webrtcN[g])
          /\ supOf[o] \in Sups /\ (supOf[o] = g \/ supOf[o] \in retired)
      <4>1. ~UNCHANGED sessIn \/ SupRelease(g)
        BY <1>1, <1>6, <3>1 DEF Holding
      <4> QED
        BY <1>4, <1>5, <4>1
    <3>3. CASE supOf[o] # h
      <4>1. NoneLeaves(h)
        BY <1>7, <3>3 DEF NoneLeaves
      <4> QED
        BY <1>3, <1>8, <4>1, CountStays DEF CountInv
    <3>4. CASE supOf[o] = h /\ h = g
      <4>1. \A x \in Offers : supOf[x] = h /\ Holding(x) => Holding(x)' \/ x = o
        BY <1>7
      <4> QED
        BY <1>8, <3>2, <3>4, <4>1, CountLeaves DEF CountInv
    <3>5. CASE supOf[o] = h /\ h \in retired
      <4>1. webrtcN'[h] = 0
        BY <1>1, <3>5 DEF SupInv, OneSupervisor
      <4> QED
        BY <1>8, <4>1, CountCleared DEF CountInv
    <3> QED
      BY <3>2, <3>3, <3>4, <3>5
  <2> QED
    BY <2>1, <2>2
<1> QED
  BY <1>9 DEF CountInv


LEMMA SupStepCounts ==
  ASSUME TypeOK, SupInv', MailInv, OrderInv, CountInv, NEW g \in Sups, SupStep(g)
  PROVE  CountInv'
<1>1. CASE SupReserve(g) \/ DrainReserve(g)
  BY <1>1, SupReserveCounts
<1>2. CASE SupRelease(g) \/ SupPeerClose(g)
  BY <1>2, SupCountsDown
<1>3. CASE SupRegister(g) \/ DrainRegister(g)
  <2>1. /\ UNCHANGED <<webrtcN, supOf, sessIn, inFlight>>
        /\ \E pcs : Receives(g, pcs, "register")
        /\ \E ok : pc' = [pc EXCEPT ![Head(ctrl[g]).offer] =
                                       AfterRegister(Head(ctrl[g]).offer, ok)]
    BY <1>3 DEF SupRegister, DrainRegister, tableVars
  <2>2. PICK o \in Offers : o = Head(ctrl[g]).offer
    BY <2>1, ReceivesType DEF OfferKinds
  <2>3. PICK ok : pc' = [pc EXCEPT ![o] = AfterRegister(o, ok)]
    BY <2>1, <2>2
  <2>4. \A x \in Offers : Mailed("release", x)' <=> Mailed("release", x)
    BY <2>1, ReleaseKept
  <2>5. pc[o] \in Held => AfterRegister(o, ok) = pc[o]
    BY DEF AfterRegister, Held
  <2>6. ASSUME NEW x \in Offers
        PROVE  (pc[x] \in Held => pc'[x] = pc[x]) /\ (x # o => pc'[x] = pc[x])
    BY <2>3, <2>5 DEF TypeOK
  <2>7. \A x \in Offers : /\ Holding(x) => Holding(x)'
                          /\ Holding(x)' => Holding(x) \/ x = o
    BY <2>1, <2>4, <2>6 DEF Holding
  <2> QED
    BY <2>1, <2>7, CountQuiet
<1>4. CASE \/ SupStartDone(g) \/ SupControl(g) \/ DrainDrop(g) \/ SupExit(g) \/ SupDisconnect(g)
           \/ SupStop(g)
  <2>1. /\ UNCHANGED <<supOf, sessIn, pc>>
        /\ \/ UNCHANGED webrtcN
           \/ webrtcN' = [webrtcN EXCEPT ![g] = 0]
        /\ \/ UNCHANGED <<ctrl, inFlight>>
           \/ /\ \E pcs : \E k \in {"startDone", "control", "disconnect"} : Receives(g, pcs, k)
              /\ \/ UNCHANGED inFlight
                 \/ inFlight' = inFlight \cup {Post(g, "control", DisconnectMsg)}
    BY <1>4 DEF SupStartDone, SupControl, DrainDrop, SupExit, SupDisconnect, SupStop, tableVars,
       offerVars
  <2>2. ASSUME NEW x \in Offers PROVE Mailed("release", x)' <=> Mailed("release", x)
    <3>1. CASE UNCHANGED <<ctrl, inFlight>>
      BY <3>1 DEF Mailed
    <3>2. CASE /\ \E pcs : \E k \in {"startDone", "control", "disconnect"} : Receives(g, pcs, k)
               /\ \/ UNCHANGED inFlight
                  \/ inFlight' = inFlight \cup {Post(g, "control", DisconnectMsg)}
      BY <3>2, ReleaseKept
    <3> QED
      BY <2>1, <3>1, <3>2
  <2>3. \A x \in Offers : Holding(x)' <=> Holding(x)
    BY <2>1, <2>2 DEF Holding
  <2>4. HoldersMove(None) /\ \A h \in Sups : NoneLeaves(h)
    BY <2>1, <2>3 DEF HoldersMove, NoneLeaves
  <2>5. \A h \in Sups : webrtcN'[h] \in Nat /\ webrtcN'[h] <= webrtcN[h]
    <3>1. \A h \in Sups : webrtcN[h] \in Nat
      BY DEF TypeOK
    <3>2. \A h \in Sups : webrtcN'[h] = webrtcN[h] \/ webrtcN'[h] = 0
      BY <2>1 DEF TypeOK
    <3> QED
      BY <3>1, <3>2
  <2> QED
    BY <2>4, <2>5, CountStays DEF CountInv
<1> QED
  BY <1>1, <1>2, <1>3, <1>4 DEF SupStep

LEMMA StartStepCounts ==
  ASSUME TypeOK, CountInv, NEW b \in Offers, StartStep(b)
  PROVE  CountInv'
<1>1. /\ UNCHANGED <<pc, supOf, sessIn, webrtcN, inFlight>>
      /\ UNCHANGED ctrl \/ \E ok \in BOOLEAN : Sends(supOf[b], StartDoneMsg(ok))
  BY DEF StartStep, StartBegin, StartConnect, StartFinish, StartReturns, offerVars, tableVars
<1>2. \A x \in Offers : Mailed("release", x)' <=> Mailed("release", x)
  <2>1. CASE UNCHANGED ctrl
    BY <1>1, <2>1 DEF Mailed
  <2>2. ASSUME NEW ok \in BOOLEAN, Sends(supOf[b], StartDoneMsg(ok)), NEW x \in Offers
        PROVE  Mailed("release", x)' <=> Mailed("release", x)
    <3>1. StartDoneMsg(ok) \in Msg /\ StartDoneMsg(ok).kind = "startDone"
      BY MsgType DEF StartDoneMsg
    <3> QED
      BY <1>1, <2>2, <3>1, MailedSends
  <2> QED
    BY <1>1, <2>1, <2>2
<1> QED
  BY <1>1, <1>2, CountQuiet DEF Holding

\* An offer's step keeps what it holds, unless its supervisor has retired by then.
LEMMA OfferStepCounts ==
  ASSUME TypeOK, SupInv, ReplyInv, MailInv, OrderInv, CountInv, NEW o \in Offers,
         OfferStep(o) \/ OfferLoadStreamer(o)
  PROVE  CountInv'
<1>0. UNCHANGED webrtcN
  BY DEF OfferStep, OfferLoadStreamer, OfferLinkStreamer, OfferFindSup, OfferFail, OfferLookupMap,
     OfferStore, OfferRegister, OfferUndo, OfferRelease, OfferAnswer, AttachWake, AttachFind,
     AttachLoad, AttachRegister, OfferRemove
<1>1. CASE \/ OfferLoadStreamer(o) \/ OfferLinkStreamer(o) \/ OfferFail(o) \/ OfferLookupMap(o)
           \/ OfferAnswer(o) \/ AttachWake(o) \/ AttachFind(o) \/ AttachLoad(o)
  <2>1. UNCHANGED <<supOf, sessIn, ctrl, inFlight>>
    BY <1>1 DEF OfferLoadStreamer, OfferLinkStreamer, OfferFail, OfferLookupMap, OfferAnswer,
       AttachWake, AttachFind, AttachLoad, tableVars
  <2>2. \E from, to : Step(o, from, to) /\ (from \in Held <=> to \in Held)
    BY <1>1 DEF OfferLoadStreamer, OfferLinkStreamer, OfferFail, OfferLookupMap, OfferAnswer,
       AttachWake, AttachFind, AttachLoad, Held
  <2>3. \A x \in Offers : pc'[x] \in Held <=> pc[x] \in Held
    BY <2>2 DEF Step, TypeOK
  <2> QED
    BY <1>0, <2>1, <2>3, CountQuiet DEF Holding, Mailed
<1>2. CASE OfferStore(o) \/ OfferUndo(o)
  <2>1. UNCHANGED <<supOf, ctrl, inFlight>>
    BY <1>2 DEF OfferStore, OfferUndo
  <2>2. pc[o] \in Held
    BY <1>2 DEF OfferStore, OfferUndo, Step, Held
  <2>3. pc'[o] \in Held \/ sessIn'[o] # None
    BY <1>2 DEF OfferStore, OfferUndo, Step, Held, OrderInv, TypeOK
  <2>4. \A x \in Offers : x # o => pc'[x] = pc[x] /\ sessIn'[x] = sessIn[x]
    BY <1>2 DEF OfferStore, OfferUndo, Step, TypeOK
  <2>5. \A x \in Offers : Mailed("release", x)' <=> Mailed("release", x)
    BY <2>1 DEF Mailed
  <2>6. \A x \in Offers : Holding(x)' <=> Holding(x)
    BY <2>2, <2>3, <2>4, <2>5 DEF Holding
  <2> QED
    BY <1>0, <2>1, <2>6, CountQuiet
<1>3. CASE OfferRegister(o) \/ AttachRegister(o) \/ OfferRemove(o)
  <2>1. UNCHANGED <<supOf, sessIn>>
    BY <1>3 DEF OfferRegister, AttachRegister, OfferRemove, tableVars
  <2>2. \E from, to : Step(o, from, to) /\ from \notin Held /\ to \notin Held
    BY <1>3 DEF OfferRegister, AttachRegister, OfferRemove, Held
  <2>3. \A x \in Offers : pc'[x] \in Held <=> pc[x] \in Held
    BY <2>2 DEF Step, TypeOK
  <2>4. ASSUME NEW x \in Offers PROVE Mailed("release", x)' <=> Mailed("release", x)
    <3>1. CASE OfferRegister(o)
      <4>1. /\ UNCHANGED inFlight
            /\ \E s \in Offers \cup {None} : Sends(supOf[o], RegisterMsg(o, s))
        BY <3>1 DEF OfferRegister, TypeOK
      <4>2. \A s \in Offers \cup {None} :
              RegisterMsg(o, s) \in Msg /\ RegisterMsg(o, s).kind = "register"
        BY MsgType DEF RegisterMsg
      <4> QED
        BY <4>1, <4>2, MailedSends
    <3>2. CASE AttachRegister(o) \/ OfferRemove(o)
      <4>1. /\ UNCHANGED ctrl
            /\ \E g \in Sups : \E m :
                 m.kind # "release" /\ inFlight' = inFlight \cup {Post(g, "offer", m)}
        BY <3>2 DEF AttachRegister, OfferRemove, RegisterMsg, OfferMsg
      <4> QED
        BY <4>1, MailedPost
    <3> QED
      BY <1>3, <3>1, <3>2
  <2> QED
    BY <1>0, <2>1, <2>3, <2>4, CountQuiet DEF Holding
<1>4. CASE OfferFindSup(o)
  <2>1. pc[o] = "resolved" /\ pc' = [pc EXCEPT ![o] = "reserving"]
    BY <1>4 DEF OfferFindSup, Step
  <2>2. ~Holding(o)
    BY <2>1 DEF Holding, Held, MailInv, Unreserved
  <2>3. /\ UNCHANGED <<sessIn, ctrl>>
        /\ \E g \in Sups : /\ supOf' = [supOf EXCEPT ![o] = g]
                           /\ inFlight' = inFlight \cup {Post(g, "offer", OfferMsg("reserve", o))}
    BY <1>4 DEF OfferFindSup
  <2>4. \A x \in Offers : Mailed("release", x)' <=> Mailed("release", x)
    <3>1. OfferMsg("reserve", o).kind = "reserve"
      BY DEF OfferMsg
    <3> QED
      BY <2>3, <3>1, MailedPost
  <2>5. \A x \in Offers : pc'[x] \in Held <=> pc[x] \in Held
    BY <2>1 DEF Held, TypeOK
  <2>6. \A x \in Offers : Holding(x)' <=> Holding(x)
    BY <2>3, <2>4, <2>5 DEF Holding
  <2>7. \A x \in Offers : Holding(x) => supOf'[x] = supOf[x]
    BY <2>2, <2>3 DEF TypeOK
  <2>8. HoldersMove(o) /\ \A g \in Sups : NoneLeaves(g)
    BY <2>6, <2>7 DEF HoldersMove, NoneLeaves
  <2>9. \A g \in Sups : webrtcN'[g] \in Nat /\ webrtcN'[g] <= webrtcN[g]
    BY <1>0 DEF TypeOK
  <2> QED
    BY <2>8, <2>9, CountStays DEF CountInv
<1>5. CASE OfferRelease(o)
  <2>1. /\ pc[o] = "releasing" /\ pc' = [pc EXCEPT ![o] = "failed"]
        /\ UNCHANGED <<supOf, sessIn, inFlight>>
        /\ \/ supOf[o] \in retired /\ UNCHANGED ctrl
           \/ Sends(supOf[o], OfferMsg("release", o))
    BY <1>5 DEF OfferRelease, Step, tableVars
  <2>2. supOf[o] \in Sups
    BY <2>1 DEF ReplyInv, NoSupPcs
  <2>3. \A x \in Offers : x # o => pc'[x] = pc[x]
    BY <2>1 DEF TypeOK
  <2>4. Holding(o)
    BY <2>1 DEF Holding, Held
  <2>5. CASE supOf[o] \in retired /\ UNCHANGED ctrl
    <3>1. \A x \in Offers : Mailed("release", x)' <=> Mailed("release", x)
      BY <2>1, <2>5 DEF Mailed
    <3>2. \A x \in Offers : x # o => (Holding(x)' <=> Holding(x))
      BY <2>1, <2>3, <3>1 DEF Holding
    <3>3. HoldersMove(o)
      BY <2>1, <2>4, <3>2 DEF HoldersMove
    <3>4. ASSUME NEW g \in Sups PROVE Counted(g)'
      <4>1. CASE g = supOf[o]
        <5>1. webrtcN'[g] = 0
          BY <1>0, <2>5, <4>1 DEF SupInv, OneSupervisor
        <5> QED
          BY <3>3, <5>1, CountCleared DEF CountInv
      <4>2. CASE g # supOf[o]
        <5>1. NoneLeaves(g)
          BY <3>2, <4>2 DEF NoneLeaves
        <5>2. webrtcN'[g] \in Nat /\ webrtcN'[g] <= webrtcN[g]
          BY <1>0 DEF TypeOK
        <5> QED
          BY <3>3, <5>1, <5>2, CountStays DEF CountInv
      <4> QED
        BY <4>1, <4>2
    <3> QED
      BY <3>4 DEF CountInv
  <2>6. CASE Sends(supOf[o], OfferMsg("release", o))
    <3>1. /\ OfferMsg("release", o) \in Msg
          /\ OfferMsg("release", o).kind = "release" /\ OfferMsg("release", o).offer = o
      BY MsgType DEF OfferMsg, OfferKinds
    <3>2. \A x \in Offers : Mailed("release", x)' <=> Mailed("release", x) \/ x = o
      BY <2>1, <2>2, <2>6, <3>1, MailedSends
    <3>3. \A x \in Offers : Holding(x)' <=> Holding(x)
      BY <2>1, <2>3, <2>4, <3>2 DEF Holding
    <3> QED
      BY <1>0, <2>1, <3>3, CountQuiet
  <2> QED
    BY <2>1, <2>5, <2>6
<1> QED
  BY <1>1, <1>2, <1>3, <1>4, <1>5 DEF OfferStep

\* The count never exceeds the offers that keep the supervisor, sessions in deleted maps
\* included.
LEMMA CountInvariant == Spec => []CountInv
<1>1. Init => CountInv
  <2> SUFFICES ASSUME Init, NEW g \in Sups PROVE Counted(g)
    BY DEF CountInv
  <2>1. Keepers(g) = {}
    BY StreamAssumption DEF Init, SInit, Keepers, Holding, Held, Mailed, InBox, NoSup, Sups
  <2>2. webrtcN[g] = 0
    BY DEF Init, SInit
  <2> QED
    BY <2>1, <2>2, FS_EmptySet DEF Counted
<1>2. /\ TypeOK /\ SupInv /\ SupInv' /\ ReplyInv /\ MailInv /\ OrderInv /\ CountInv
      /\ [Next]_vars
      => CountInv'
  <2> SUFFICES ASSUME TypeOK, SupInv, SupInv', ReplyInv, MailInv, OrderInv, CountInv, [Next]_vars
               PROVE  CountInv'
    OBVIOUS
  <2>0. /\ UNCHANGED <<pc, supOf, sessIn, webrtcN>>
        /\ \A x \in Offers : Mailed("release", x)' <=> Mailed("release", x)
        => CountInv'
    BY CountQuiet DEF Holding
  <2>1. ASSUME NEW g \in Sups, SupStep(g) PROVE CountInv'
    BY <2>1, SupStepCounts
  <2>2. ASSUME NEW b \in Offers, StartStep(b) PROVE CountInv'
    BY <2>2, StartStepCounts
  <2>3. ASSUME NEW p \in inFlight, Deliver(p) PROVE CountInv'
    <3>1. UNCHANGED <<pc, supOf, sessIn, webrtcN>>
      BY <2>3 DEF Deliver, offerVars, tableVars
    <3> QED
      BY <2>0, <2>3, <3>1, MailedDeliver
  <2>4. ASSUME NEW o \in Offers, OfferStep(o) \/ OfferLoadStreamer(o) PROVE CountInv'
    BY <2>4, OfferStepCounts
  <2>5. ASSUME DeviceLost \/ \E o \in Offers : ConnEnds(o) \/ ControlArrives(o) PROVE CountInv'
    <3>1. /\ UNCHANGED <<pc, supOf, sessIn, webrtcN, ctrl>>
          /\ \/ UNCHANGED inFlight
             \/ \E g, by, m : /\ m.kind # "release"
                              /\ inFlight' = inFlight \cup {Post(g, by, m)}
      BY <2>5 DEF DeviceLost, ConnEnds, ControlArrives, offerVars, OfferMsg, DisconnectMsg
    <3>2. \A x \in Offers : Mailed("release", x)' <=> Mailed("release", x)
      <4>1. CASE UNCHANGED inFlight
        BY <3>1, <4>1 DEF Mailed
      <4>2. CASE \E g, by, m : m.kind # "release" /\ inFlight' = inFlight \cup {Post(g, by, m)}
        BY <3>1, <4>2, MailedPost
      <4> QED
        BY <3>1, <4>1, <4>2
    <3> QED
      BY <2>0, <3>1, <3>2
  <2>6. CASE UNCHANGED vars
    BY <2>0, <2>6 DEF vars, svars, offerVars, tableVars, Mailed
  <2> QED
    BY <2>1, <2>2, <2>3, <2>4, <2>5, <2>6 DEF Next, Server
<1> QED
  BY <1>1, <1>2, TypeCorrect, SupInvariant, RepliesInvariant, MailInvariant, OrderInvariant,
     PTL DEF Spec

\* The sessions of a supervisor that serves lie in the map of that moment, and so will
\* those about to be stored, unless an earlier supervisor has deleted its map; one that
\* does not serve counts nobody.
FoundHere(o) == /\ sessIn[o] # None => sessIn[o] = streams
                /\ pc[o] = "storing" => mapOf[o] = streams

FoundAt(g) ==
  supPc[g] = "loop" /\ g \notin overrun => \A o \in Offers : supOf[o] = g => FoundHere(o)

IdleUncounted == \A g \in Sups : supPc[g] # "loop" => webrtcN[g] = 0

FoundInv == IdleUncounted /\ \A g \in Sups : FoundAt(g)

\* A supervisor stops serving when its count is 0, or is cleared.
LEMMA IdleStaysUncounted ==
  ASSUME TypeOK, IdleUncounted, [Next]_vars
  PROVE  IdleUncounted'
<1>0. UNCHANGED <<supPc, webrtcN>> => IdleUncounted'
  BY DEF IdleUncounted
<1>1. ASSUME NEW g \in Sups, SupStep(g) PROVE IdleUncounted'
  <2>1. CASE SupReserve(g) \/ SupDisconnect(g) \/ SupStop(g)
    <3>1. /\ \A h \in Sups \ {g} : supPc'[h] = supPc[h] /\ webrtcN'[h] = webrtcN[h]
          /\ webrtcN'[g] = 0 \/ supPc'[g] = "loop"
      BY <2>1 DEF SupReserve, SupDisconnect, SupStop, Unlink, Receives, TypeOK
    <3> QED
      BY <3>1 DEF IdleUncounted
  <2>2. CASE SupRelease(g) \/ SupPeerClose(g)
    <3>1. \/ UNCHANGED <<supPc, webrtcN>>
          \/ \E n, left, peers :
               TeardownIfIdle(g, n, left, peers) /\ (n = 0 \/ n = Floor(webrtcN[g]))
      BY <2>2 DEF SupRelease, SupPeerClose
    <3>2. ASSUME NEW n, NEW left, NEW peers, TeardownIfIdle(g, n, left, peers),
                 n = 0 \/ n = Floor(webrtcN[g])
          PROVE  IdleUncounted'
      <4>1. webrtcN' = [webrtcN EXCEPT ![g] = n] /\ webrtcN \in [Sups -> Nat]
        BY <3>2 DEF TeardownIfIdle, TypeOK
      <4>2. CASE n = 0
        <5>1. \A h \in Sups \ {g} : supPc'[h] = supPc[h]
          BY <3>2 DEF TeardownIfIdle, Unlink, TypeOK
        <5> QED
          BY <4>1, <4>2, <5>1 DEF IdleUncounted
      <4>3. CASE n # 0
        <5>1. UNCHANGED supPc
          BY <3>2, <4>3 DEF TeardownIfIdle
        <5>2. webrtcN[g] # 0
          BY <3>2, <4>3 DEF Floor
        <5> QED
          BY <4>1, <5>1, <5>2 DEF IdleUncounted
      <4> QED
        BY <4>2, <4>3
    <3> QED
      BY <1>0, <3>1, <3>2
  <2>3. CASE \/ SupStartDone(g) \/ SupRegister(g) \/ SupControl(g) \/ DrainReserve(g)
             \/ DrainRegister(g) \/ DrainDrop(g)
    BY <1>0, <2>3 DEF SupStartDone, SupRegister, SupControl, DrainReserve, DrainRegister, DrainDrop
  <2>4. CASE SupExit(g)
    BY <2>4 DEF SupExit, IdleUncounted, TypeOK
  <2> QED
    BY <1>1, <2>1, <2>2, <2>3, <2>4 DEF SupStep
<1>2. ASSUME NEW b \in Offers, StartStep(b) PROVE IdleUncounted'
  BY <1>0, <1>2 DEF StartStep, StartBegin, StartConnect, StartFinish
<1>3. ASSUME NEW p \in inFlight, Deliver(p) PROVE IdleUncounted'
  BY <1>0, <1>3 DEF Deliver
<1>4. ASSUME NEW g \in Sups, SupervisorFor(g), UNCHANGED webrtcN PROVE IdleUncounted'
  BY <1>4 DEF SupervisorFor, IdleUncounted, TypeOK
<1>5. ASSUME NEW o \in Offers,
             OfferFindSup(o) \/ AttachRegister(o) \/ OfferRemove(o) \/ ConnEnds(o)
               \/ ControlArrives(o)
      PROVE  IdleUncounted'
  BY <1>4, <1>5 DEF OfferFindSup, AttachRegister, OfferRemove, ConnEnds, ControlArrives
<1>6. ASSUME NEW o \in Offers,
             \/ OfferLoadStreamer(o) \/ OfferLinkStreamer(o) \/ OfferFail(o) \/ OfferLookupMap(o)
             \/ OfferStore(o) \/ OfferRegister(o) \/ OfferUndo(o) \/ OfferRelease(o)
             \/ OfferAnswer(o) \/ AttachWake(o) \/ AttachFind(o) \/ AttachLoad(o)
      PROVE  IdleUncounted'
  BY <1>0, <1>6 DEF OfferLoadStreamer, OfferLinkStreamer, OfferFail, OfferLookupMap, OfferStore,
     OfferRegister, OfferUndo, OfferRelease, OfferAnswer, AttachWake, AttachFind, AttachLoad
<1>7. ASSUME DeviceLost \/ UNCHANGED vars PROVE IdleUncounted'
  BY <1>0, <1>7 DEF DeviceLost, vars, svars
<1> QED
  BY <1>1, <1>2, <1>3, <1>5, <1>6, <1>7 DEF Next, Server, OfferStep

\* A step that takes sessions out, or changes none, leaves the others where they are.
LEMMA FoundFrame ==
  ASSUME NEW g \in Sups, FoundAt(g), supPc'[g] = "loop" => supPc[g] = "loop",
         overrun \subseteq overrun', UNCHANGED <<streams, supOf>>,
         \A o \in Offers : /\ sessIn'[o] = sessIn[o] \/ sessIn'[o] = None
                           /\ pc'[o] = "storing" => pc[o] = "storing" /\ mapOf'[o] = mapOf[o]
  PROVE  FoundAt(g)'
  BY DEF FoundAt, FoundHere

\* So does a lookup that creates a supervisor: nobody has reserved at it yet.
LEMMA FoundLookup ==
  ASSUME TypeOK, OrderInv, NEW g \in Sups, FoundAt(g), NEW h \in Sups, SupervisorFor(h),
         UNCHANGED <<overrun, streams, supOf, sessIn, mapOf>>,
         \A o \in Offers : pc'[o] = "storing" => pc[o] = "storing"
  PROVE  FoundAt(g)'
<1>1. CASE supPc'[g] = supPc[g]
  BY <1>1 DEF FoundAt, FoundHere
<1>2. CASE supPc'[g] # supPc[g]
  <2>1. supPc[g] = "unborn"
    BY <1>2 DEF SupervisorFor, TypeOK
  <2>2. \A o \in Offers : supOf[o] # g
    BY <2>1 DEF OrderInv
  <2> QED
    BY <2>2 DEF FoundAt
<1> QED
  BY <1>1, <1>2

\* Of two supervisors, at most one serves, and it is the one in the map.
LEMMA OneServes ==
  ASSUME SupInv, NEW g \in Sups, supPc[g] = "loop"
  PROVE  linkedSup = g
  BY DEF SupInv, OneSupervisor

LEMMA SupStepFinds ==
  ASSUME TypeOK, SupInv, FoundInv, NEW h \in Sups, SupStep(h), NEW g \in Sups
  PROVE  FoundAt(g)'
<1>0. FoundAt(g)
  BY DEF FoundInv
<1>1. CASE SupStop(h)
  <2>1. supPc'[g] = "loop" => supPc[g] = "loop" /\ g # h
    BY <1>1 DEF SupStop, TypeOK
  <2>2. /\ overrun \subseteq overrun' /\ UNCHANGED <<supOf, sessIn, pc, mapOf>>
        /\ UNCHANGED streams \/ overrun' = overrun \cup ({linkedSup} \ {h, NoSup})
    BY <1>1 DEF SupStop, offerVars
  <2>3. supPc'[g] = "loop" => UNCHANGED streams \/ g \in overrun'
    BY <2>1, <2>2, OneServes DEF Sups, NoSup
  <2> QED
    BY <1>0, <2>1, <2>2, <2>3 DEF FoundAt, FoundHere
<1>2. CASE SupDisconnect(h)
  <2>1. supPc[h] = "loop" /\ supPc' = [supPc EXCEPT ![h] = "stopDisconnect"]
    BY <1>2 DEF SupDisconnect, Receives, Unlink
  <2>2. supPc'[g] # "loop"
    BY <2>1, OneServes DEF TypeOK
  <2> QED
    BY <2>2 DEF FoundAt
<1>3. CASE SupRelease(h) \/ SupPeerClose(h)
  <2>1. /\ UNCHANGED <<overrun, streams, supOf, pc, mapOf>>
        /\ supPc' = supPc \/ supPc' = [supPc EXCEPT ![h] = "stopTeardown"]
        /\ sessIn' = sessIn \/ \E o : sessIn' = [sessIn EXCEPT ![o] = None]
    BY <1>3 DEF SupRelease, SupPeerClose, TeardownIfIdle, Unlink, offerVars
  <2>2. \A o \in Offers : sessIn'[o] = sessIn[o] \/ sessIn'[o] = None
    BY <2>1 DEF TypeOK
  <2>3. supPc'[g] = "loop" => supPc[g] = "loop"
    BY <2>1 DEF TypeOK
  <2> QED
    BY <1>0, <2>1, <2>2, <2>3, FoundFrame
<1>4. CASE SupReserve(h) \/ DrainReserve(h)
  <2>1. /\ UNCHANGED <<supPc, overrun, streams, supOf, sessIn, mapOf>>
        /\ \E o : pc' = [pc EXCEPT ![o] = "reserved"]
    BY <1>4 DEF SupReserve, DrainReserve, tableVars
  <2>2. \A o \in Offers : pc'[o] = "storing" => pc[o] = "storing"
    BY <2>1 DEF TypeOK
  <2> QED
    BY <1>0, <2>1, <2>2, FoundFrame
<1>5. CASE SupRegister(h) \/ DrainRegister(h)
  <2>1. /\ UNCHANGED <<supPc, overrun, streams, supOf, sessIn, mapOf>>
        /\ \E o, ok : pc' = [pc EXCEPT ![o] = AfterRegister(o, ok)]
    BY <1>5 DEF SupRegister, DrainRegister, tableVars
  <2>2. \A o \in Offers : \A ok : AfterRegister(o, ok) = "storing" => pc[o] = "storing"
    BY DEF AfterRegister
  <2>3. \A o \in Offers : pc'[o] = "storing" => pc[o] = "storing"
    BY <2>1, <2>2 DEF TypeOK
  <2> QED
    BY <1>0, <2>1, <2>3, FoundFrame
<1>6. CASE SupStartDone(h) \/ SupControl(h) \/ DrainDrop(h) \/ SupExit(h)
  <2>1. UNCHANGED <<overrun, streams, supOf, pc, sessIn, mapOf>>
    BY <1>6 DEF SupStartDone, SupControl, DrainDrop, SupExit, tableVars, offerVars
  <2>2. supPc'[g] = "loop" => supPc[g] = "loop"
    BY <1>6 DEF SupStartDone, SupControl, DrainDrop, SupExit, TypeOK
  <2> QED
    BY <1>0, <2>1, <2>2, FoundFrame
<1> QED
  BY <1>1, <1>2, <1>3, <1>4, <1>5, <1>6 DEF SupStep

\* An offer that finds no map makes one; then nobody has a session that is found.
LEMMA OfferStepFinds ==
  ASSUME TypeOK, SupInv, MailInv, OrderInv, FoundInv, NEW o \in Offers,
         OfferStep(o) \/ OfferLoadStreamer(o), NEW g \in Sups
  PROVE  FoundAt(g)'
<1>0. FoundAt(g)
  BY DEF FoundInv
<1>1. CASE OfferLookupMap(o)
  <2>1. /\ UNCHANGED <<supPc, overrun, supOf, sessIn>>
        /\ streams' = IF streams = None THEN o ELSE streams
        /\ mapOf' = [mapOf EXCEPT ![o] = streams']
        /\ pc[o] = "reserved" /\ pc' = [pc EXCEPT ![o] = "storing"]
    BY <1>1 DEF OfferLookupMap, Step
  <2>2. \A x \in Offers : /\ x # o => pc'[x] = pc[x] /\ mapOf'[x] = mapOf[x]
                          /\ mapOf'[o] = streams'
    BY <2>1 DEF TypeOK
  <2>3. \A x \in Offers : pc[x] = "storing" => mapOf[x] # None
    BY DEF OrderInv
  <2>4. ASSUME supPc[g] = "loop", g \notin overrun, NEW x \in Offers, supOf[x] = g
        PROVE  FoundHere(x)'
    <3>1. FoundHere(x)
      BY <1>0, <2>4 DEF FoundAt
    <3>2. sessIn[x] # None => streams # None /\ streams' = streams
      BY <2>1, <3>1 DEF FoundHere
    <3>3. CASE x = o
      BY <2>1, <2>2, <3>1, <3>2, <3>3 DEF FoundHere
    <3>4. CASE x # o
      <4>1. pc[x] = "storing" => streams # None /\ streams' = streams
        BY <2>1, <2>3, <3>1 DEF FoundHere
      <4> QED
        BY <2>1, <2>2, <3>1, <3>2, <3>4, <4>1 DEF FoundHere
    <3> QED
      BY <3>3, <3>4
  <2> QED
    BY <2>1, <2>4 DEF FoundAt
<1>2. CASE OfferStore(o)
  <2>1. /\ UNCHANGED <<supPc, overrun, supOf, streams, mapOf>>
        /\ sessIn' = [sessIn EXCEPT ![o] = mapOf[o]]
        /\ pc[o] = "storing"
        /\ pc' = [pc EXCEPT ![o] = IF waitOn[o] = None THEN "stored" ELSE "answering"]
    BY <1>2 DEF OfferStore, Step
  <2>2. \A x \in Offers : /\ x # o => pc'[x] = pc[x] /\ sessIn'[x] = sessIn[x]
                          /\ sessIn'[o] = mapOf[o] /\ pc'[o] # "storing"
    <3>1. DOMAIN pc = Offers /\ DOMAIN sessIn = Offers
      BY DEF TypeOK
    <3> QED
      BY <2>1, <3>1
  <2> QED
    BY <1>0, <2>1, <2>2 DEF FoundAt, FoundHere
<1>3. CASE OfferFindSup(o)
  <2>1. PICK h \in Sups : SupervisorFor(h) /\ supOf' = [supOf EXCEPT ![o] = h]
    BY <1>3 DEF OfferFindSup
  <2>2. /\ UNCHANGED <<overrun, streams, sessIn, mapOf>>
        /\ pc[o] = "resolved" /\ pc' = [pc EXCEPT ![o] = "reserving"]
    BY <1>3 DEF OfferFindSup, Step
  <2>3. /\ sessIn[o] = None /\ pc'[o] # "storing"
        /\ \A x \in Offers : x # o => supOf'[x] = supOf[x] /\ pc'[x] = pc[x]
    <3>1. sessIn[o] = None
      BY <2>2 DEF MailInv, Unreserved
    <3>2. DOMAIN pc = Offers /\ DOMAIN supOf = Offers
      BY DEF TypeOK
    <3>3. /\ pc'[o] = "reserving"
          /\ \A x \in Offers : x # o => supOf'[x] = supOf[x] /\ pc'[x] = pc[x]
      BY <2>1, <2>2, <3>2
    <3> QED
      BY <3>1, <3>3
  <2>4. supPc'[g] = supPc[g] \/ supPc[g] = "unborn"
    BY <2>1 DEF SupervisorFor, TypeOK
  <2>5. supPc[g] = "unborn" => \A x \in Offers : supOf[x] # g
    BY DEF OrderInv
  <2> QED
    BY <1>0, <2>2, <2>3, <2>4, <2>5 DEF FoundAt, FoundHere
<1>4. CASE AttachRegister(o) \/ OfferRemove(o)
  <2>1. /\ \E h \in Sups : SupervisorFor(h)
        /\ UNCHANGED <<overrun, streams, supOf, sessIn, mapOf>>
        /\ \E to \in {"attachReg", "failed"} : pc' = [pc EXCEPT ![o] = to]
    BY <1>4 DEF AttachRegister, OfferRemove, Step
  <2>2. \A x \in Offers : pc'[x] = "storing" => pc[x] = "storing"
    BY <2>1 DEF TypeOK
  <2> QED
    BY <1>0, <2>1, <2>2, FoundLookup
<1>5. CASE \/ OfferLoadStreamer(o) \/ OfferLinkStreamer(o) \/ OfferFail(o) \/ OfferRegister(o)
           \/ OfferUndo(o) \/ OfferRelease(o) \/ OfferAnswer(o) \/ AttachWake(o)
           \/ AttachFind(o) \/ AttachLoad(o)
  <2>1. UNCHANGED <<supPc, overrun, streams, supOf, mapOf>>
    BY <1>5 DEF OfferLoadStreamer, OfferLinkStreamer, OfferFail, OfferRegister, OfferUndo,
       OfferRelease, OfferAnswer, AttachWake, AttachFind, AttachLoad, tableVars
  <2>2. sessIn' = sessIn \/ sessIn' = [sessIn EXCEPT ![o] = None]
    BY <1>5 DEF OfferLoadStreamer, OfferLinkStreamer, OfferFail, OfferRegister, OfferUndo,
       OfferRelease, OfferAnswer, AttachWake, AttachFind, AttachLoad, tableVars
  <2>3. \E to : to # "storing" /\ pc' = [pc EXCEPT ![o] = to]
    BY <1>5 DEF OfferLoadStreamer, OfferLinkStreamer, OfferFail, OfferRegister, OfferUndo,
       OfferRelease, OfferAnswer, AttachWake, AttachFind, AttachLoad, Step
  <2>4. \A x \in Offers : /\ sessIn'[x] = sessIn[x] \/ sessIn'[x] = None
                          /\ pc'[x] = "storing" => pc[x] = "storing"
    BY <2>2, <2>3 DEF TypeOK
  <2> QED
    BY <1>0, <2>1, <2>4, FoundFrame
<1> QED
  BY <1>1, <1>2, <1>3, <1>4, <1>5 DEF OfferStep

LEMMA FoundKept ==
  ASSUME TypeOK, SupInv, MailInv, OrderInv, FoundInv, [Next]_vars
  PROVE  FoundInv'
<1>1. IdleUncounted'
  BY IdleStaysUncounted DEF FoundInv
<1>2. ASSUME NEW g \in Sups PROVE FoundAt(g)'
  <2>0. FoundAt(g)
    BY DEF FoundInv
  <2>1. ASSUME NEW h \in Sups, SupStep(h) PROVE FoundAt(g)'
    BY <2>1, SupStepFinds
  <2>2. ASSUME NEW o \in Offers, OfferStep(o) \/ OfferLoadStreamer(o) PROVE FoundAt(g)'
    BY <2>2, OfferStepFinds
  <2>3. CASE UNCHANGED <<supPc, overrun, streams, supOf, sessIn, pc, mapOf>>
    BY <2>0, <2>3, FoundFrame
  <2>4. ASSUME NEW b \in Offers, StartStep(b) PROVE FoundAt(g)'
    BY <2>3, <2>4 DEF StartStep, StartBegin, StartConnect, StartFinish, tableVars, offerVars
  <2>5. ASSUME NEW p \in inFlight, Deliver(p) PROVE FoundAt(g)'
    BY <2>3, <2>5 DEF Deliver, tableVars, offerVars
  <2>6. ASSUME NEW o \in Offers, ConnEnds(o) \/ ControlArrives(o) PROVE FoundAt(g)'
    <3>1. /\ \E h \in Sups : SupervisorFor(h)
          /\ UNCHANGED <<overrun, streams, supOf, sessIn, pc, mapOf>>
      BY <2>6 DEF ConnEnds, ControlArrives, offerVars
    <3> QED
      BY <2>0, <3>1, FoundLookup
  <2>7. CASE DeviceLost
    <3>1. /\ UNCHANGED <<supPc, overrun, supOf, sessIn, pc, mapOf>>
          /\ UNCHANGED streams \/ linkedSup = NoSup
      BY <2>7 DEF DeviceLost
    <3>2. CASE UNCHANGED streams
      BY <2>3, <3>1, <3>2
    <3>3. CASE linkedSup = NoSup
      <4>1. supPc'[g] # "loop"
        BY <3>1, <3>3, OneServes DEF Sups, NoSup
      <4> QED
        BY <4>1 DEF FoundAt
    <3> QED
      BY <3>1, <3>2, <3>3
  <2>8. CASE UNCHANGED vars
    BY <2>3, <2>8 DEF vars, svars, tableVars, offerVars
  <2> QED
    BY <2>1, <2>2, <2>4, <2>5, <2>6, <2>7, <2>8 DEF Next, Server
<1> QED
  BY <1>1, <1>2 DEF FoundInv

LEMMA FoundInvariant == Spec => []FoundInv
<1>1. Init => FoundInv
  BY DEF Init, SInit, FoundInv, IdleUncounted, FoundAt, FoundHere
<1> QED
  BY <1>1, FoundKept, TypeCorrect, SupInvariant, MailInvariant, OrderInvariant, PTL DEF Spec

\* The count of a supervisor never exceeds the offers that will bring it down: whoever
\* was counted is in the middle of CreateStream, has its session where a PeerClose finds
\* it, or has a Release on the way; in every order of failures, removals, lost devices
\* and supervisors that retire. What the teardown of an earlier supervisor has deleted
\* under a later one is left out, and can leak (CountsComeDown).
THEOREM CountIsHeld == Spec => []CountHasHolders
<1>1. TypeOK /\ CountInv /\ FoundInv => CountHasHolders
  <2> SUFFICES ASSUME TypeOK, CountInv, FoundInv, NEW g \in Sups \ overrun
               PROVE  webrtcN[g] <= Cardinality(Holders(g))
    BY DEF CountHasHolders
  <2>1. IsFiniteSet(Keepers(g)) /\ webrtcN[g] <= Cardinality(Keepers(g))
    BY DEF CountInv, Counted
  <2>2. CASE supPc[g] = "loop"
    <3>1. \A o \in Offers : supOf[o] = g /\ sessIn[o] # None => Visible(o)
      BY <2>2 DEF FoundInv, FoundAt, FoundHere, Visible
    <3>2. Keepers(g) = Holders(g)
      BY <3>1 DEF Keepers, Holding, Held, Holders, Visible
    <3> QED
      BY <2>1, <3>2
  <2>3. CASE supPc[g] # "loop"
    <3>1. webrtcN[g] = 0
      BY <2>3 DEF FoundInv, IdleUncounted
    <3>2. Holders(g) \subseteq Keepers(g)
      BY DEF Keepers, Holding, Held, Holders, Visible
    <3>3. IsFiniteSet(Holders(g))
      BY <2>1, <3>2, FS_Subset
    <3>4. Cardinality(Holders(g)) \in Nat
      BY <3>3, FS_CardinalityType
    <3> QED
      BY <3>1, <3>4
  <2> QED
    BY <2>2, <2>3
<1> QED
  BY <1>1, TypeCorrect, CountInvariant, FoundInvariant, PTL

=============================================================================

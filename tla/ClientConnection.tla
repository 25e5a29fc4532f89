-------------------------- MODULE ClientConnection --------------------------
(***************************************************************************)
(* The browser's WebRTC connections to one device (assets/web/static/js/   *)
(* app.js): startDeviceStream and initWebRTCStream as they run from await  *)
(* to await, the handlers of the RTCPeerConnection and of its data         *)
(* channel, cleanupWebRTCConnection, the connect, disconnect and batch     *)
(* buttons, and the messages that give the card of the device another      *)
(* apiUdid. JavaScript runs one handler at a time: an action is what runs  *)
(* between two awaits or in one callback.                                  *)
(*                                                                         *)
(* A call of startDeviceStream is an attempt; an attempt makes at most one *)
(* RTCPeerConnection, so the attempt also names it, its channel and the    *)
(* record stored for it. Pictures, layout and log lines are left out.      *)
(***************************************************************************)
EXTENDS Naturals, FiniteSets

CONSTANTS
  Keys,        \* the apiUdids of the device: one per transport_id adb gives it
  FirstKey,    \* the one it is first listed with
  MaxAttempts, \* how many times startDeviceStream gets past its first return
  MaxRetries,  \* maxRetries of the offer loop
  MaxChanges   \* how many device messages and device lists arrive

ASSUME ConnectionAssumption ==
  /\ FirstKey \in Keys
  /\ MaxAttempts \in Nat /\ MaxRetries \in Nat \ {0} /\ MaxChanges \in Nat

Attempts == 1..MaxAttempts
None     == 0
Holders  == Attempts \cup {None}

VARIABLES
  card,                    \* the device has a card in the page
  deviceRegistry,          \* the apiUdid of the card
  deviceConnectionStates,  \* apiUdid -> state, "absent" when the map has none
  activeWebRTCConnections, \* apiUdid -> attempt whose record is stored
  at,          \* where an attempt is between its awaits
  udid,        \* the deviceUDID an attempt was called with
  retries,
  peer,        \* the RTCPeerConnection of an attempt
  channel,     \* the RTCDataChannel "control" the device opens on it
  dataChannel, \* of a record: the attempt whose channel it holds
  heartbeatInterval, \* of a record: the attempt whose interval it holds
  heartbeats,  \* attempts whose heartbeat interval runs
  sessionId,   \* of a record: the attempt whose session it holds
  videoStreamSet, \* of a record: the attempt whose video element plays it
  dialog,      \* the apiUdid a confirm dialog is open for, or "none"
  changes

pageVars == <<card, deviceRegistry, deviceConnectionStates, activeWebRTCConnections>>
runVars  == <<at, udid, retries>>
rtcVars  == <<peer, channel, heartbeats>>
recVars  == <<dataChannel, heartbeatInterval, sessionId, videoStreamSet>>
userVars == <<dialog, changes>>
vars     == <<pageVars, runVars, rtcVars, recVars, userVars>>

ConnectionStates == {"disconnected", "connecting", "connected"}
Places == {"unused", "device", "ice", "offer", "ask", "wait", "flush",
           "done", "stopped", "failed", "nodevice"}
\* Nothing more runs of the attempt itself; its peer may live on.
Over == {"done", "stopped", "failed", "nodevice"}

NoDialog == "none"

Init ==
  /\ card = TRUE /\ deviceRegistry = FirstKey
  /\ deviceConnectionStates =
       [k \in Keys |-> IF k = deviceRegistry THEN "disconnected" ELSE "absent"]
  /\ activeWebRTCConnections = [k \in Keys |-> None]
  /\ at = [a \in Attempts |-> "unused"]
  /\ udid = [a \in Attempts |-> deviceRegistry]
  /\ retries = [a \in Attempts |-> 0]
  /\ peer = [a \in Attempts |-> "none"]
  /\ channel = [a \in Attempts |-> "none"]
  /\ heartbeats = {}
  /\ dataChannel = [a \in Attempts |-> None]
  /\ heartbeatInterval = [a \in Attempts |-> None]
  /\ sessionId = [a \in Attempts |-> None]
  /\ videoStreamSet = [a \in Attempts |-> None]
  /\ dialog = NoDialog /\ changes = 0

-----------------------------------------------------------------------------
(* The two maps.                                                           *)

getDeviceConnectionState(k) ==
  IF deviceConnectionStates[k] = "absent" THEN "disconnected"
                                          ELSE deviceConnectionStates[k]

Stored(k) == activeWebRTCConnections[k] # None

\* setDeviceConnectionState; what it draws follows from the state alone.
SetState(k, s) == deviceConnectionStates' = [deviceConnectionStates EXCEPT ![k] = s]

\* Closing a peer closes its channels without an event, and the handlers of
\* the channel in the record are taken off before.
ClosedWith(a) == {b \in Attempts : channel[b] # "none" /\ (b = a \/ b = dataChannel[a])}

\* What cleanupWebRTCConnection leaves of the map, the peers and the states.
WithoutKept(k) == activeWebRTCConnections
Without(k) == [activeWebRTCConnections EXCEPT ![k] = None]

WithClosedLeftOpen(p, a) == p
WithClosed(p, a) == [p EXCEPT ![a] = "closed"]

WithDisconnectedUnset(s, k) == s
WithDisconnected(s, k) == [s EXCEPT ![k] = "disconnected"]

\* cleanupWebRTCConnection where the map has an entry, from the peers p and the
\* states s. The record is garbage afterwards, so its fields go back to None.
CloseStored(k, p, s) ==
  LET a == activeWebRTCConnections[k] IN
  /\ heartbeats' = heartbeats \ {heartbeatInterval[a]}
  /\ channel' = [b \in Attempts |-> IF b \in ClosedWith(a) THEN "closed" ELSE channel[b]]
  /\ peer' = WithClosed(p, a)
  /\ activeWebRTCConnections' = Without(k)
  /\ deviceConnectionStates' = WithDisconnected(s, k)
  /\ dataChannel' = [dataChannel EXCEPT ![a] = None]
  /\ heartbeatInterval' = [heartbeatInterval EXCEPT ![a] = None]
  /\ sessionId' = [sessionId EXCEPT ![a] = None]
  /\ videoStreamSet' = [videoStreamSet EXCEPT ![a] = None]

\* setDeviceConnectionState(DISCONNECTED) and cleanupWebRTCConnection, which
\* does nothing when the map has no entry.
Disconnect(k) ==
  /\ IF Stored(k)
     THEN CloseStored(k, peer, deviceConnectionStates)
     ELSE /\ SetState(k, "disconnected")
          /\ UNCHANGED <<rtcVars, recVars, activeWebRTCConnections>>
  /\ UNCHANGED <<card, deviceRegistry>>

\* A handler that cleans up if the map still has an entry for its apiUdid.
CleanupIfStored(k) ==
  IF Stored(k) THEN Disconnect(k) ELSE UNCHANGED <<pageVars, rtcVars, recVars>>

-----------------------------------------------------------------------------
(* startDeviceStream and the awaits of initWebRTCStream.                   *)

startDeviceStream(k) ==
  /\ ~Stored(k)
  /\ \E a \in Attempts :
       /\ at[a] = "unused" /\ \A b \in 1..(a - 1) : at[b] # "unused"
       /\ at' = [at EXCEPT ![a] = "device"]
       /\ udid' = [udid EXCEPT ![a] = k]
  /\ SetState(k, "connecting")
  /\ UNCHANGED <<card, deviceRegistry, activeWebRTCConnections, retries, rtcVars, recVars>>

\* The device is known: initWebRTCStream up to its first await.
DeviceFetched(a) ==
  /\ at[a] = "device"
  /\ at' = [at EXCEPT ![a] = "ice"]
  /\ CleanupIfStored(udid[a])
  /\ UNCHANGED <<udid, retries, userVars>>

\* The error is shown in the card and nothing else is done.
DeviceNotFetched(a) ==
  /\ at[a] = "device"
  /\ at' = [at EXCEPT ![a] = "nodevice"]
  /\ UNCHANGED <<pageVars, udid, retries, rtcVars, recVars, userVars>>

\* fetchIceServers never fails. The new record replaces what the map holds by
\* now, and createOffer and setLocalDescription are awaited.
IceServersFetched(a) ==
  /\ at[a] = "ice"
  /\ at' = [at EXCEPT ![a] = "offer"]
  /\ peer' = [peer EXCEPT ![a] = "open"]
  /\ activeWebRTCConnections' = [activeWebRTCConnections EXCEPT ![udid[a]] = a]
  /\ UNCHANGED <<card, deviceRegistry, deviceConnectionStates, udid, retries,
                 channel, heartbeats, recVars, userVars>>

StillConnecting(a) == getDeviceConnectionState(udid[a]) = "connecting"

\* The head of the retry loop, with no await before the fetch of the offer.
AskOrStop(a) == at' = [at EXCEPT ![a] = IF StillConnecting(a) THEN "ask" ELSE "stopped"]

LocalDescriptionSet(a) ==
  /\ at[a] = "offer" /\ peer[a] # "closed"
  /\ AskOrStop(a)
  /\ UNCHANGED <<pageVars, udid, retries, rtcVars, recVars, userVars>>

\* The outer catch of initWebRTCStream.
Fails(a) ==
  /\ at' = [at EXCEPT ![a] = "failed"]
  /\ Disconnect(udid[a])
  /\ UNCHANGED <<udid, retries, userVars>>

\* A promise pending on a peer that is closed is rejected or never settled.
LocalDescriptionFails(a) == at[a] = "offer" /\ Fails(a)

SessionsWithNothing(a) == sessionId
SessionsWith(a) ==
  LET c == activeWebRTCConnections[udid[a]] IN
  IF c = None THEN sessionId ELSE [sessionId EXCEPT ![c] = a]

\* An answer with ready and a sessionId: the session goes into whatever record
\* the map holds, then the buffered candidates are posted one by one.
OfferAnswered(a) ==
  /\ at[a] = "ask"
  /\ at' = [at EXCEPT ![a] = "flush"]
  /\ sessionId' = SessionsWith(a)
  /\ UNCHANGED <<pageVars, udid, retries, rtcVars, dataChannel, heartbeatInterval,
                 videoStreamSet, userVars>>

MayRetryOnce(a) == retries[a] < MaxRetries
MayRetry(a) == retries[a] < MaxRetries - 1

RetriedUncounted(a) == retries
Retried(a) == [retries EXCEPT ![a] = @ + 1]

\* A status 500, or an error whose text says that the service is starting. The
\* state is looked at before the wait begins.
OfferRetried(a) ==
  /\ at[a] = "ask" /\ MayRetry(a)
  /\ retries' = Retried(a)
  /\ at' = [at EXCEPT ![a] = IF StillConnecting(a) THEN "wait" ELSE "stopped"]
  /\ UNCHANGED <<pageVars, udid, rtcVars, recVars, userVars>>

\* Any other answer, or the last retry.
OfferFails(a) == at[a] = "ask" /\ Fails(a)

\* The wait looks at the state every 50 ms and asks again at its end.
RetryWait(a) ==
  /\ at[a] = "wait"
  /\ AskOrStop(a)
  /\ UNCHANGED <<pageVars, udid, retries, rtcVars, recVars, userVars>>

\* setRemoteDescription and the candidates of the answer.
RemoteDescriptionSet(a) ==
  /\ at[a] = "flush" /\ peer[a] # "closed"
  /\ at' = [at EXCEPT ![a] = "done"]
  /\ UNCHANGED <<pageVars, udid, retries, rtcVars, recVars, userVars>>

\* It rejects an answer it cannot use, and any answer on a closed peer.
RemoteDescriptionFails(a) == at[a] = "flush" /\ Fails(a)

-----------------------------------------------------------------------------
(* Events of the peer connection and its channel. cleanupWebRTCConnection  *)
(* takes the handlers off the peer it closes; every other peer keeps them. *)

Listens(a) == at[a] = "done" /\ peer[a] = "open"

\* connectionState or iceConnectionState becomes failed.
PeerFails(a) ==
  /\ Listens(a)
  /\ LET failed == [peer EXCEPT ![a] = "failed"] IN
     IF Stored(udid[a])
     THEN /\ CloseStored(udid[a], failed, deviceConnectionStates)
          /\ UNCHANGED <<card, deviceRegistry>>
     ELSE /\ peer' = failed
          /\ UNCHANGED <<pageVars, channel, heartbeats, recVars>>
  /\ UNCHANGED <<runVars, userVars>>

VideoTrackEnds(a) ==
  /\ Listens(a) /\ Stored(udid[a])
  /\ Disconnect(udid[a])
  /\ UNCHANGED <<runVars, userVars>>

\* ontrack: the stream of the stored record is played in the video element of
\* this attempt, once per record.
VideoTrackArrives(a) ==
  /\ Listens(a)
  /\ LET c == activeWebRTCConnections[udid[a]] IN
     /\ c # None
     /\ videoStreamSet[c] = None
     /\ videoStreamSet' = [videoStreamSet EXCEPT ![c] = a]
  /\ UNCHANGED <<pageVars, runVars, rtcVars, dataChannel, heartbeatInterval,
                 sessionId, userVars>>

ChannelArrives(a) ==
  /\ Listens(a) /\ channel[a] = "none"
  /\ channel' = [channel EXCEPT ![a] = "connecting"]
  /\ LET c == activeWebRTCConnections[udid[a]] IN
     dataChannel' = IF c = None THEN dataChannel ELSE [dataChannel EXCEPT ![c] = a]
  /\ UNCHANGED <<pageVars, runVars, peer, heartbeats, heartbeatInterval, sessionId,
                 videoStreamSet, userVars>>

ChannelOpens(a) ==
  /\ Listens(a) /\ channel[a] = "connecting"
  /\ channel' = [channel EXCEPT ![a] = "open"]
  /\ SetState(udid[a], "connected")
  /\ heartbeats' = heartbeats \cup {a}
  /\ LET c == activeWebRTCConnections[udid[a]] IN
     IF c = None
     THEN UNCHANGED <<dataChannel, heartbeatInterval>>
     ELSE /\ dataChannel' = [dataChannel EXCEPT ![c] = a]
          /\ heartbeatInterval' = [heartbeatInterval EXCEPT ![c] = a]
  /\ UNCHANGED <<card, deviceRegistry, activeWebRTCConnections, runVars, peer, sessionId,
                 videoStreamSet, userVars>>

StillBeatingAll(c) == heartbeats
StillBeating(c) == heartbeats \ {heartbeatInterval[c]}

\* The device closes the channel; the record stays in the map.
ChannelCloses(a) ==
  /\ Listens(a) /\ channel[a] = "open"
  /\ channel' = [channel EXCEPT ![a] = "closed"]
  /\ LET c == activeWebRTCConnections[udid[a]] IN
     IF c = None
     THEN UNCHANGED <<deviceConnectionStates, heartbeats, dataChannel, heartbeatInterval>>
     ELSE /\ heartbeats' = StillBeating(c)
          /\ heartbeatInterval' = [heartbeatInterval EXCEPT ![c] = None]
          /\ dataChannel' = [dataChannel EXCEPT ![c] = None]
          /\ SetState(udid[a], "disconnected")
  /\ UNCHANGED <<card, deviceRegistry, activeWebRTCConnections, runVars, peer, sessionId,
                 videoStreamSet, userVars>>

\* There is a connection under k and its data channel is open.
OpenChannel(k) ==
  LET a == activeWebRTCConnections[k] IN
  a # None /\ dataChannel[a] # None /\ channel[dataChannel[a]] = "open"

TickStopsWithRecord(a) == Stored(udid[a]) /\ ~OpenChannel(udid[a])
TickStops(a) == ~OpenChannel(udid[a])

\* A tick of the interval of a finds no open channel and clears it.
HeartbeatStops(a) ==
  /\ a \in heartbeats /\ TickStops(a)
  /\ heartbeats' = heartbeats \ {a}
  /\ UNCHANGED <<pageVars, runVars, peer, channel, recVars, userVars>>

-----------------------------------------------------------------------------
(* The user.                                                               *)

\* handleDisconnectClick on a card that is not connected, or its start button.
ConnectClick ==
  /\ card
  /\ getDeviceConnectionState(deviceRegistry) = "disconnected"
  /\ startDeviceStream(deviceRegistry)
  /\ UNCHANGED userVars

\* The batch button asks no state.
BatchConnect ==
  /\ card
  /\ startDeviceStream(deviceRegistry)
  /\ UNCHANGED userVars

DisconnectClick ==
  /\ card
  /\ getDeviceConnectionState(deviceRegistry) # "disconnected"
  /\ dialog' = deviceRegistry
  /\ UNCHANGED <<pageVars, runVars, rtcVars, recVars, changes>>

\* The server is told first, with the session of the record; without one it
\* drops every session of the device.
ConfirmDisconnect ==
  /\ dialog # NoDialog
  /\ Disconnect(dialog)
  /\ dialog' = NoDialog
  /\ UNCHANGED <<runVars, changes>>

CancelDisconnect ==
  /\ dialog # NoDialog
  /\ dialog' = NoDialog
  /\ UNCHANGED <<pageVars, runVars, rtcVars, recVars, changes>>

BatchDisconnect ==
  /\ card
  /\ getDeviceConnectionState(deviceRegistry) # "disconnected"
  /\ Disconnect(deviceRegistry)
  /\ UNCHANGED <<runVars, dialog, changes>>

-----------------------------------------------------------------------------
(* The device messages and the device list.                                *)

\* The states after updateDeviceStatus has given the card the key k.
Rekeyed(k) ==
  IF k # deviceRegistry /\ deviceConnectionStates[deviceRegistry] # "absent"
  THEN [deviceConnectionStates EXCEPT
          ![k] = deviceConnectionStates[deviceRegistry],
          ![deviceRegistry] = "absent"]
  ELSE deviceConnectionStates

\* A message for a device without a card changes nothing, but for the list it
\* may ask for.
DeviceOnline(k) ==
  /\ card /\ changes < MaxChanges
  /\ changes' = changes + 1
  /\ deviceRegistry' = k
  /\ deviceConnectionStates' = Rekeyed(k)
  /\ UNCHANGED <<card, activeWebRTCConnections, runVars, rtcVars, recVars, dialog>>

\* connectionState is read before the states are moved.
DeviceOffline(k) ==
  LET state == IF deviceConnectionStates[deviceRegistry] # "absent"
               THEN deviceConnectionStates[deviceRegistry]
               ELSE deviceConnectionStates[k]
      live == state \in {"connecting", "connected"}
  IN
  /\ card /\ changes < MaxChanges
  /\ changes' = changes + 1
  /\ deviceRegistry' = k
  /\ IF live /\ Stored(k)
     THEN CloseStored(k, peer, Rekeyed(k))
     ELSE /\ deviceConnectionStates' =
               IF live THEN [Rekeyed(k) EXCEPT ![k] = "disconnected"] ELSE Rekeyed(k)
          /\ UNCHANGED <<rtcVars, recVars, activeWebRTCConnections>>
  /\ UNCHANGED <<card, runVars, dialog>>

\* fillDeviceGrid: for a card that exists only the registry follows.
DeviceListed(k) ==
  /\ changes < MaxChanges
  /\ changes' = changes + 1
  /\ card' = TRUE
  /\ deviceRegistry' = k
  /\ IF card THEN UNCHANGED deviceConnectionStates ELSE SetState(k, "disconnected")
  /\ UNCHANGED <<activeWebRTCConnections, runVars, rtcVars, recVars, dialog>>

\* The device is not in the list: its card goes, with a dialog in it and the
\* connection under its key. The registry is left as it is.
DeviceUnlisted ==
  /\ card /\ changes < MaxChanges
  /\ changes' = changes + 1
  /\ card' = FALSE
  /\ dialog' = NoDialog
  /\ IF Stored(deviceRegistry)
     THEN CloseStored(deviceRegistry, peer, deviceConnectionStates)
     ELSE UNCHANGED <<deviceConnectionStates, rtcVars, recVars, activeWebRTCConnections>>
  /\ UNCHANGED <<deviceRegistry, runVars>>

-----------------------------------------------------------------------------
AttemptStep(a) ==
  \/ DeviceFetched(a) \/ DeviceNotFetched(a)
  \/ IceServersFetched(a)
  \/ LocalDescriptionSet(a) \/ LocalDescriptionFails(a)
  \/ OfferAnswered(a) \/ OfferRetried(a) \/ OfferFails(a)
  \/ RetryWait(a)
  \/ RemoteDescriptionSet(a) \/ RemoteDescriptionFails(a)

PeerStep(a) ==
  \/ PeerFails(a) \/ VideoTrackEnds(a) \/ VideoTrackArrives(a)
  \/ ChannelArrives(a) \/ ChannelOpens(a) \/ ChannelCloses(a)

UserStep ==
  \/ ConnectClick \/ BatchConnect
  \/ DisconnectClick \/ ConfirmDisconnect \/ CancelDisconnect \/ BatchDisconnect

DeviceStep(k) ==
  DeviceOnline(k) \/ DeviceOffline(k) \/ DeviceListed(k)

Next ==
  \/ \E a \in Attempts : AttemptStep(a) \/ PeerStep(a) \/ HeartbeatStops(a)
  \/ UserStep
  \/ \E k \in Keys : DeviceStep(k)
  \/ DeviceUnlisted

Spec == Init /\ [][Next]_vars

\* Requests are answered, local promises settle while the peer lives, timers
\* fire. Nothing obliges a device, a network or a user to act.
Fairness ==
  \A a \in Attempts :
    /\ WF_vars(DeviceFetched(a) \/ DeviceNotFetched(a))
    /\ WF_vars(IceServersFetched(a))
    /\ WF_vars(LocalDescriptionSet(a))
    /\ WF_vars(OfferAnswered(a) \/ OfferRetried(a) \/ OfferFails(a))
    /\ WF_vars(RetryWait(a))
    /\ WF_vars(RemoteDescriptionSet(a) \/ RemoteDescriptionFails(a))
    /\ WF_vars(HeartbeatStops(a))

FairSpec == Spec /\ Fairness
-----------------------------------------------------------------------------
(* What the connections promise.                                           *)

\* The maps, records and attempts hold what their declarations say.
ConnectionTypeOK ==
  /\ card \in BOOLEAN /\ deviceRegistry \in Keys
  /\ deviceConnectionStates \in [Keys -> ConnectionStates \cup {"absent"}]
  /\ activeWebRTCConnections \in [Keys -> Holders]
  /\ at \in [Attempts -> Places] /\ udid \in [Attempts -> Keys]
  /\ retries \in [Attempts -> 0..(MaxRetries - 1)]
  /\ peer \in [Attempts -> {"none", "open", "failed", "closed"}]
  /\ channel \in [Attempts -> {"none", "connecting", "open", "closed"}]
  /\ heartbeats \subseteq Attempts
  /\ dataChannel \in [Attempts -> Holders]
  /\ heartbeatInterval \in [Attempts -> Holders]
  /\ sessionId \in [Attempts -> Holders]
  /\ videoStreamSet \in [Attempts -> Holders]
  /\ dialog \in Keys \cup {NoDialog}
  /\ changes \in 0..MaxChanges

\* Whatever attempts, clean-ups and peer events interleave, what the map holds
\* is a peer that is still open, under the key it was made for: nobody sends on
\* a connection that cleanupWebRTCConnection has closed.
StoredIsOpen ==
  \A k \in Keys : LET a == activeWebRTCConnections[k] IN
    a # None => peer[a] = "open" /\ udid[a] = k

\* No attempt has replaced the record of another one (app.js:3273 does not
\* look): every peer that lives is the stored one of its key.
NoneReplaced ==
  \A a \in Attempts :
    peer[a] \in {"open", "failed"} => activeWebRTCConnections[udid[a]] = a

\* The handlers and intervals find their record by key when they run. As long as
\* no record was replaced they find their own: a heartbeat runs only on the open
\* channel of a stored connection, and its record can stop it; a record's
\* channel and picture are its own.
HandlersFindTheirRecord ==
  NoneReplaced =>
    /\ \A a \in heartbeats : /\ activeWebRTCConnections[udid[a]] = a
                             /\ channel[a] = "open" /\ heartbeatInterval[a] = a
    /\ \A a \in Attempts : dataChannel[a] \in {None, a} /\ videoStreamSet[a] \in {None, a}

\* The buttons of the card are enabled exactly while there is an open channel to
\* send on, through retries, failures, clean-ups and reconnections, as long as
\* the card keeps its key and no record was replaced.
ButtonsFollowChannel ==
  NoneReplaced /\ changes = 0 =>
    (getDeviceConnectionState(deviceRegistry) = "connected" <=> OpenChannel(deviceRegistry))

\* A connection that can be used has the session of its own attempt, so that the
\* disconnection takes only this page off the device and other pages keep
\* watching (app.js:4234). The one session it may have instead is that of an
\* earlier attempt for the same apiUdid whose peer was cleaned up and whose offer
\* was answered after that: OfferAnswered asks only which record is stored now.
ConnectedHasSession ==
  NoneReplaced =>
    \A k \in Keys : OpenChannel(k) =>
      LET a == activeWebRTCConnections[k]
          s == sessionId[a]
      IN s = a \/ (s # None /\ udid[s] = k /\ peer[s] = "closed")

\* Every attempt ends, with a connection, an error or because it was stopped;
\* one whose peer is closed while it makes its offer may be left pending.
AttemptEnds ==
  \A a \in Attempts :
    at[a] = "device" ~> (at[a] \in Over \/ (at[a] = "offer" /\ peer[a] = "closed"))

\* An interval whose connection is gone stops at its next tick, also the one of
\* a peer that was replaced and has no record to be stopped through.
HeartbeatsEnd ==
  \A a \in Attempts :
    (a \in heartbeats /\ ~Stored(udid[a])) ~> (a \notin heartbeats \/ Stored(udid[a]))

\* The life of a peer as ConnectionSlots sees it.
PeerLife(a) ==
  CASE peer[a] = "none" -> "unborn"
    [] peer[a] = "closed" -> "closed"
    [] activeWebRTCConnections[udid[a]] = a -> "held"
    [] OTHER -> "stray"

Slots == INSTANCE ConnectionSlots
           WITH Peers <- Attempts, Nobody <- None,
                slot <- activeWebRTCConnections,
                life <- [a \in Attempts |-> PeerLife(a)]

\* Between its awaits, callbacks and clicks the page does what ConnectionSlots
\* says: a peer is stored once, closed in the step that takes it out of the map
\* and in no other, and one that was closed or replaced never comes back.
SlotsImplemented == Slots!Spec
=============================================================================

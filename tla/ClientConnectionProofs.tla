----------------------- MODULE ClientConnectionProofs -----------------------
(***************************************************************************)
(* The connections of the page, for any number of keys, attempts, retries  *)
(* and messages: their types, what is stored and what it is worth to the   *)
(* handlers and buttons that look it up, and the refinement of             *)
(* ConnectionSlots.                                                        *)
(***************************************************************************)
EXTENDS ClientConnection, TLAPS

(* The types *)

States   == ConnectionStates \cup {"absent"}
Peers    == {"none", "open", "failed", "closed"}
Channels == {"none", "connecting", "open", "closed"}

\* What CloseStored writes.
ClosableOK ==
  /\ deviceConnectionStates \in [Keys -> States]
  /\ activeWebRTCConnections \in [Keys -> Holders]
  /\ peer \in [Attempts -> Peers] /\ channel \in [Attempts -> Channels]
  /\ heartbeats \subseteq Attempts
  /\ dataChannel \in [Attempts -> Holders]
  /\ heartbeatInterval \in [Attempts -> Holders]
  /\ sessionId \in [Attempts -> Holders]
  /\ videoStreamSet \in [Attempts -> Holders]

RunOK ==
  /\ at \in [Attempts -> Places] /\ udid \in [Attempts -> Keys]
  /\ retries \in [Attempts -> 0..(MaxRetries - 1)]

CardOK ==
  /\ card \in BOOLEAN /\ deviceRegistry \in Keys
  /\ dialog \in Keys \cup {NoDialog} /\ changes \in 0..MaxChanges

TypeInv == ClosableOK /\ RunOK /\ CardOK

LEMMA TypesSplit == ConnectionTypeOK <=> TypeInv
BY DEF ConnectionTypeOK, TypeInv, ClosableOK, RunOK, CardOK, States, Peers, Channels

LEMMA HolderFacts ==
  /\ None \in Holders /\ None \notin Attempts /\ Attempts \subseteq Holders
  /\ \A h \in Holders : h # None => h \in Attempts
BY DEF None, Holders, Attempts

LEMMA ClosingTypes ==
  ASSUME ClosableOK, NEW k \in Keys, Stored(k),
         NEW p \in [Attempts -> Peers], NEW s \in [Keys -> States], CloseStored(k, p, s)
  PROVE  ClosableOK'
<1> DEFINE a == activeWebRTCConnections[k]
<1>1. a \in Attempts
  BY HolderFacts DEF ClosableOK, Stored
<1>2. channel' \in [Attempts -> Channels] /\ heartbeats' \subseteq Attempts
  BY DEF CloseStored, ClosableOK, Channels
<1>3. /\ peer' \in [Attempts -> Peers]
      /\ activeWebRTCConnections' \in [Keys -> Holders]
      /\ deviceConnectionStates' \in [Keys -> States]
  BY <1>1, HolderFacts DEF CloseStored, ClosableOK, WithClosed, Without, WithDisconnected,
     Peers, States, ConnectionStates
<1>4. /\ dataChannel' \in [Attempts -> Holders]
      /\ heartbeatInterval' \in [Attempts -> Holders]
      /\ sessionId' \in [Attempts -> Holders]
      /\ videoStreamSet' \in [Attempts -> Holders]
  BY <1>1, HolderFacts DEF CloseStored, ClosableOK
<1> QED BY <1>2, <1>3, <1>4 DEF ClosableOK

LEMMA DisconnectTypes ==
  ASSUME ClosableOK, NEW k \in Keys, Disconnect(k)
  PROVE  ClosableOK' /\ UNCHANGED <<card, deviceRegistry>>
<1>1. CASE Stored(k)
  BY <1>1, ClosingTypes DEF Disconnect, ClosableOK
<1>2. CASE ~Stored(k)
  BY <1>2 DEF Disconnect, SetState, ClosableOK, rtcVars, recVars, States, ConnectionStates
<1> QED BY <1>1, <1>2 DEF Disconnect

LEMMA StartTypes ==
  ASSUME ClosableOK, RunOK, NEW k \in Keys, startDeviceStream(k)
  PROVE  ClosableOK' /\ RunOK' /\ UNCHANGED <<card, deviceRegistry>>
BY DEF startDeviceStream, ClosableOK, RunOK, SetState, rtcVars, recVars, States,
   ConnectionStates, Places

LEMMA AttemptTypes ==
  ASSUME TypeInv, NEW a \in Attempts, AttemptStep(a)
  PROVE  TypeInv'
<1> USE DEF TypeInv, pageVars, rtcVars, recVars, runVars, userVars
<1>1. udid[a] \in Keys /\ retries[a] \in 0..(MaxRetries - 1)
  BY DEF RunOK
<1>2. ASSUME NEW p \in Places, at' = [at EXCEPT ![a] = p], UNCHANGED <<udid, retries>>
      PROVE  RunOK'
  BY <1>2 DEF RunOK
<1>3. CASE DeviceFetched(a)
  <2>1. ClosableOK' /\ UNCHANGED <<card, deviceRegistry>>
    BY <1>1, <1>3, DisconnectTypes DEF DeviceFetched, CleanupIfStored, ClosableOK
  <2> QED BY <1>2, <1>3, <2>1 DEF DeviceFetched, Places, CardOK
<1>4. CASE DeviceNotFetched(a)
  BY <1>2, <1>4 DEF DeviceNotFetched, Places, ClosableOK, CardOK
<1>5. CASE IceServersFetched(a)
  BY <1>1, <1>2, <1>5, HolderFacts DEF IceServersFetched, Places, ClosableOK, CardOK, Peers
<1>6. CASE LocalDescriptionSet(a) \/ RetryWait(a)
  BY <1>2, <1>6 DEF LocalDescriptionSet, RetryWait, AskOrStop, Places, ClosableOK, CardOK
<1>7. CASE Fails(a)
  <2>1. ClosableOK' /\ UNCHANGED <<card, deviceRegistry>>
    BY <1>1, <1>7, DisconnectTypes DEF Fails
  <2> QED BY <1>2, <1>7, <2>1 DEF Fails, Places, CardOK
<1>8. CASE OfferAnswered(a)
  <2>1. sessionId' \in [Attempts -> Holders]
    BY <1>1, <1>8, HolderFacts DEF OfferAnswered, SessionsWith, ClosableOK
  <2> QED BY <1>2, <1>8, <2>1 DEF OfferAnswered, Places, ClosableOK, CardOK
<1>9. CASE OfferRetried(a)
  <2>1. retries[a] + 1 \in 0..(MaxRetries - 1)
    BY <1>1, <1>9, ConnectionAssumption DEF OfferRetried, MayRetry
  <2>2. RunOK'
    BY <1>9, <2>1 DEF OfferRetried, Retried, RunOK, Places
  <2> QED BY <1>9, <2>2 DEF OfferRetried, ClosableOK, CardOK
<1>10. CASE RemoteDescriptionSet(a)
  BY <1>2, <1>10 DEF RemoteDescriptionSet, Places, ClosableOK, CardOK
<1> QED BY <1>3, <1>4, <1>5, <1>6, <1>7, <1>8, <1>9, <1>10
        DEF AttemptStep, LocalDescriptionFails, OfferFails, RemoteDescriptionFails

LEMMA PeerTypes ==
  ASSUME TypeInv, NEW a \in Attempts, PeerStep(a) \/ HeartbeatStops(a)
  PROVE  TypeInv'
<1> USE DEF TypeInv, pageVars, rtcVars, recVars, runVars, userVars
<1> DEFINE c == activeWebRTCConnections[udid[a]]
<1>1. udid[a] \in Keys /\ c \in Holders
  BY DEF RunOK, ClosableOK
<1>2. CASE PeerFails(a)
  <2>1. [peer EXCEPT ![a] = "failed"] \in [Attempts -> Peers]
    BY DEF ClosableOK, Peers
  <2>2. ClosableOK' /\ UNCHANGED <<card, deviceRegistry>>
    BY <1>1, <1>2, <2>1, ClosingTypes DEF PeerFails, ClosableOK
  <2> QED BY <1>2, <2>2 DEF PeerFails, RunOK, CardOK
<1>3. CASE VideoTrackEnds(a)
  BY <1>1, <1>3, DisconnectTypes DEF VideoTrackEnds, RunOK, CardOK
<1>4. CASE VideoTrackArrives(a)
  BY <1>1, <1>4, HolderFacts DEF VideoTrackArrives, ClosableOK, RunOK, CardOK
<1>5. CASE ChannelArrives(a)
  BY <1>1, <1>5, HolderFacts DEF ChannelArrives, ClosableOK, RunOK, CardOK, Channels
<1>6. CASE ChannelOpens(a)
  <2>1. dataChannel' \in [Attempts -> Holders] /\ heartbeatInterval' \in [Attempts -> Holders]
    BY <1>1, <1>6, HolderFacts DEF ChannelOpens, ClosableOK
  <2>2. ClosableOK'
    BY <1>1, <1>6, <2>1 DEF ChannelOpens, ClosableOK, Channels, SetState, States, ConnectionStates
  <2> QED BY <1>6, <2>2 DEF ChannelOpens, RunOK, CardOK
<1>7. CASE ChannelCloses(a)
  <2>1. /\ dataChannel' \in [Attempts -> Holders] /\ heartbeatInterval' \in [Attempts -> Holders]
        /\ heartbeats' \subseteq Attempts /\ deviceConnectionStates' \in [Keys -> States]
    BY <1>1, <1>7, HolderFacts DEF ChannelCloses, ClosableOK, SetState, States,
       ConnectionStates, StillBeating
  <2>2. ClosableOK'
    BY <1>7, <2>1 DEF ChannelCloses, ClosableOK, Channels
  <2> QED BY <1>7, <2>2 DEF ChannelCloses, RunOK, CardOK
<1>8. CASE HeartbeatStops(a)
  BY <1>8 DEF HeartbeatStops, ClosableOK, RunOK, CardOK
<1> QED BY <1>2, <1>3, <1>4, <1>5, <1>6, <1>7, <1>8 DEF PeerStep

LEMMA UserTypes == ASSUME TypeInv, UserStep PROVE TypeInv'
<1> USE DEF TypeInv, pageVars, rtcVars, recVars, runVars, userVars
<1>1. CASE ConnectClick \/ BatchConnect
  BY <1>1, StartTypes DEF ConnectClick, BatchConnect, CardOK
<1>2. CASE DisconnectClick \/ CancelDisconnect
  BY <1>2 DEF DisconnectClick, CancelDisconnect, ClosableOK, RunOK, CardOK
<1>3. CASE ConfirmDisconnect
  <2>1. dialog \in Keys
    BY <1>3 DEF ConfirmDisconnect, CardOK
  <2> QED BY <1>3, <2>1, DisconnectTypes DEF ConfirmDisconnect, RunOK, CardOK
<1>4. CASE BatchDisconnect
  BY <1>4, DisconnectTypes DEF BatchDisconnect, RunOK, CardOK
<1> QED BY <1>1, <1>2, <1>3, <1>4 DEF UserStep

LEMMA DeviceTypes ==
  ASSUME TypeInv, DeviceUnlisted \/ \E k \in Keys : DeviceStep(k)
  PROVE  TypeInv'
<1> USE DEF TypeInv, pageVars, rtcVars, recVars, runVars, userVars
<1>1. ASSUME changes < MaxChanges, changes' = changes + 1 PROVE changes' \in 0..MaxChanges
  BY <1>1, ConnectionAssumption DEF CardOK
<1>2. ASSUME NEW k \in Keys PROVE Rekeyed(k) \in [Keys -> States]
  BY DEF Rekeyed, ClosableOK, CardOK, States
<1>3. ASSUME NEW k \in Keys, DeviceOnline(k) PROVE TypeInv'
  BY <1>1, <1>2, <1>3 DEF DeviceOnline, ClosableOK, RunOK, CardOK
<1>4. ASSUME NEW k \in Keys, DeviceOffline(k) PROVE TypeInv'
  <2>1. [Rekeyed(k) EXCEPT ![k] = "disconnected"] \in [Keys -> States]
    BY <1>2 DEF States, ConnectionStates
  <2>2. ClosableOK'
    BY <1>2, <1>4, <2>1, ClosingTypes DEF DeviceOffline, ClosableOK
  <2> QED BY <1>1, <1>4, <2>2 DEF DeviceOffline, RunOK, CardOK
<1>5. ASSUME NEW k \in Keys, DeviceListed(k) PROVE TypeInv'
  BY <1>1, <1>5 DEF DeviceListed, SetState, ClosableOK, RunOK, CardOK, States, ConnectionStates
<1>6. CASE DeviceUnlisted
  <2>1. ClosableOK'
    BY <1>6, ClosingTypes DEF DeviceUnlisted, ClosableOK, CardOK
  <2> QED BY <1>1, <1>6, <2>1 DEF DeviceUnlisted, RunOK, CardOK
<1> QED BY <1>3, <1>4, <1>5, <1>6 DEF DeviceStep

LEMMA TypesKept == ASSUME TypeInv, [Next]_vars PROVE TypeInv'
<1>1. CASE UNCHANGED vars
  BY <1>1 DEF vars, pageVars, rtcVars, recVars, runVars, userVars, TypeInv, ClosableOK, RunOK,
     CardOK
<1> QED BY <1>1, AttemptTypes, PeerTypes, UserTypes, DeviceTypes DEF Next

LEMMA TypesInit == Init => ConnectionTypeOK
BY ConnectionAssumption DEF Init, ConnectionTypeOK, ConnectionStates, Places, Holders

\* ConnectionTypeOK for any keys, attempts, retries and messages: in particular every
\* record in activeWebRTCConnections and every state is one the page has made, and no
\* attempt asks more often than maxRetries (app.js:3637).
THEOREM ConnectionTypeCorrect == Spec => []ConnectionTypeOK
BY TypesInit, TypesSplit, TypesKept, PTL DEF Spec

(* The map and the peers *)

\* An attempt has no peer before it has its ICE servers.
PeersBornLate ==
  \A a \in Attempts : at[a] \in {"unused", "device", "ice"} => peer[a] = "none"

MapInv == TypeInv /\ StoredIsOpen /\ PeersBornLate

LEMMA StoredPeer ==
  ASSUME MapInv, NEW k \in Keys, Stored(k)
  PROVE  /\ activeWebRTCConnections[k] \in Attempts
         /\ peer[activeWebRTCConnections[k]] = "open"
         /\ udid[activeWebRTCConnections[k]] = k
BY HolderFacts DEF MapInv, TypeInv, ClosableOK, StoredIsOpen, Stored

\* What a step does to the map: nothing,
Quiet ==
  /\ UNCHANGED <<activeWebRTCConnections, peer>>
  /\ \A b \in Attempts : peer[b] # "none" => udid'[b] = udid[b]

\* it takes the record under k out, while a peer that nobody stores may fail,
Takes(k) ==
  /\ Stored(k) /\ UNCHANGED udid
  /\ activeWebRTCConnections' = [activeWebRTCConnections EXCEPT ![k] = None]
  /\ \A b \in Attempts :
       peer'[b] = IF b = activeWebRTCConnections[k] THEN "closed"
                  ELSE IF peer'[b] = "failed" /\ peer[b] = "open"
                          /\ activeWebRTCConnections[udid[b]] # b
                       THEN "failed" ELSE peer[b]

\* such a peer fails,
Strays ==
  /\ UNCHANGED <<udid, activeWebRTCConnections>>
  /\ \A b \in Attempts :
       \/ peer'[b] = peer[b]
       \/ /\ peer[b] = "open" /\ activeWebRTCConnections[udid[b]] # b
          /\ peer'[b] = "failed"

\* or it stores a new peer.
Stores(a) ==
  /\ peer[a] = "none" /\ UNCHANGED udid /\ at'[a] = "offer"
  /\ peer' = [peer EXCEPT ![a] = "open"]
  /\ activeWebRTCConnections' = [activeWebRTCConnections EXCEPT ![udid[a]] = a]

MapStep ==
  \/ Quiet \/ Strays
  \/ \E k \in Keys : Takes(k)
  \/ \E a \in Attempts : Stores(a)

LEMMA CloseTakes ==
  ASSUME MapInv, NEW k \in Keys, Stored(k), UNCHANGED udid, NEW s, CloseStored(k, peer, s)
  PROVE  Takes(k)
BY StoredPeer DEF CloseStored, Without, WithClosed, Takes, MapInv, TypeInv, ClosableOK

LEMMA DisconnectMoves ==
  ASSUME MapInv, NEW k \in Keys, UNCHANGED udid, Disconnect(k) \/ CleanupIfStored(k)
  PROVE  Quiet \/ Takes(k)
BY CloseTakes DEF Disconnect, CleanupIfStored, Quiet, pageVars, rtcVars, recVars

LEMMA FailingMoves ==
  ASSUME MapInv, NEW a \in Attempts, PeerFails(a)
  PROVE  MapStep
<1> DEFINE c == activeWebRTCConnections[udid[a]]
<1>1. udid[a] \in Keys /\ peer[a] = "open" /\ UNCHANGED udid
  BY DEF PeerFails, Listens, runVars, MapInv, TypeInv, RunOK
<1>2. CASE Stored(udid[a])
  <2>1. /\ activeWebRTCConnections' = [activeWebRTCConnections EXCEPT ![udid[a]] = None]
        /\ peer' = [[peer EXCEPT ![a] = "failed"] EXCEPT ![c] = "closed"]
    BY <1>2 DEF PeerFails, CloseStored, Without, WithClosed
  <2>2. Takes(udid[a])
    BY <1>1, <1>2, <2>1, StoredPeer DEF Takes, MapInv, TypeInv, ClosableOK
  <2> QED BY <1>1, <2>2 DEF MapStep
<1>3. CASE ~Stored(udid[a])
  <2>1. c = None /\ c # a
    BY <1>3, HolderFacts DEF Stored
  <2>2. Strays
    BY <1>1, <1>3, <2>1 DEF PeerFails, Strays, pageVars, MapInv, TypeInv, ClosableOK
  <2> QED BY <2>2 DEF MapStep
<1> QED BY <1>2, <1>3

LEMMA EveryStepMoves == ASSUME MapInv, [Next]_vars PROVE MapStep
<1> USE DEF pageVars, rtcVars, recVars, runVars, userVars
<1>1. ASSUME NEW a \in Attempts, AttemptStep(a) PROVE MapStep
  <2>1. udid[a] \in Keys
    BY DEF MapInv, TypeInv, RunOK
  <2>2. CASE DeviceFetched(a) \/ Fails(a)
    BY <2>1, <2>2, DisconnectMoves DEF DeviceFetched, Fails, MapStep
  <2>3. CASE IceServersFetched(a)
    BY <2>3 DEF IceServersFetched, MapStep, Stores, MapInv, PeersBornLate, TypeInv, RunOK
  <2>4. CASE \/ DeviceNotFetched(a) \/ LocalDescriptionSet(a) \/ OfferAnswered(a)
             \/ OfferRetried(a) \/ RetryWait(a) \/ RemoteDescriptionSet(a)
    BY <2>4 DEF DeviceNotFetched, LocalDescriptionSet, OfferAnswered, OfferRetried, RetryWait,
       RemoteDescriptionSet, MapStep, Quiet
  <2> QED BY <1>1, <2>2, <2>3, <2>4
          DEF AttemptStep, LocalDescriptionFails, OfferFails, RemoteDescriptionFails
<1>2. ASSUME NEW a \in Attempts, PeerStep(a) \/ HeartbeatStops(a) PROVE MapStep
  <2>1. udid[a] \in Keys
    BY DEF MapInv, TypeInv, RunOK
  <2>2. CASE VideoTrackEnds(a)
    BY <2>1, <2>2, DisconnectMoves DEF VideoTrackEnds, MapStep
  <2>3. CASE \/ VideoTrackArrives(a) \/ ChannelArrives(a) \/ ChannelOpens(a)
             \/ ChannelCloses(a) \/ HeartbeatStops(a)
    BY <2>3 DEF VideoTrackArrives, ChannelArrives, ChannelOpens, ChannelCloses, HeartbeatStops,
       MapStep, Quiet
  <2> QED BY <1>2, <2>2, <2>3, FailingMoves DEF PeerStep
<1>3. CASE UserStep
  <2>1. ASSUME NEW k \in Keys, startDeviceStream(k) PROVE Quiet
    BY <2>1 DEF startDeviceStream, Quiet, MapInv, PeersBornLate, TypeInv, RunOK
  <2>2. deviceRegistry \in Keys /\ (dialog # NoDialog => dialog \in Keys)
    BY DEF MapInv, TypeInv, CardOK
  <2>3. CASE ConnectClick \/ BatchConnect
    BY <2>1, <2>2, <2>3 DEF ConnectClick, BatchConnect, MapStep
  <2>4. CASE DisconnectClick \/ CancelDisconnect
    BY <2>4 DEF DisconnectClick, CancelDisconnect, MapStep, Quiet
  <2>5. CASE ConfirmDisconnect \/ BatchDisconnect
    BY <2>2, <2>5, DisconnectMoves DEF ConfirmDisconnect, BatchDisconnect, MapStep
  <2> QED BY <1>3, <2>3, <2>4, <2>5 DEF UserStep
<1>4. ASSUME NEW k \in Keys, DeviceStep(k) PROVE MapStep
  <2>1. CASE DeviceOffline(k)
    BY <2>1, CloseTakes DEF DeviceOffline, MapStep, Quiet
  <2>2. CASE DeviceOnline(k) \/ DeviceListed(k)
    BY <2>2 DEF DeviceOnline, DeviceListed, MapStep, Quiet
  <2> QED BY <1>4, <2>1, <2>2 DEF DeviceStep
<1>5. CASE DeviceUnlisted
  <2>1. deviceRegistry \in Keys
    BY DEF MapInv, TypeInv, CardOK
  <2> QED BY <1>5, <2>1, CloseTakes DEF DeviceUnlisted, MapStep, Quiet
<1>6. CASE UNCHANGED vars
  BY <1>6 DEF vars, MapStep, Quiet
<1> QED BY <1>1, <1>2, <1>3, <1>4, <1>5, <1>6 DEF Next

LEMMA StoredStayOpen == ASSUME MapInv, TypeInv', MapStep PROVE StoredIsOpen'
<1> SUFFICES ASSUME NEW k \in Keys, activeWebRTCConnections'[k] # None
             PROVE  /\ peer'[activeWebRTCConnections'[k]] = "open"
                    /\ udid'[activeWebRTCConnections'[k]] = k
  BY DEF StoredIsOpen
<1>1. /\ activeWebRTCConnections \in [Keys -> Holders] /\ peer \in [Attempts -> Peers]
      /\ udid \in [Attempts -> Keys]
  BY DEF MapInv, TypeInv, ClosableOK, RunOK
<1>2. CASE Quiet
  BY <1>2, StoredPeer DEF Quiet, Stored
<1>3. CASE Strays
  BY <1>3, StoredPeer DEF Strays, Stored
<1>4. ASSUME NEW j \in Keys, Takes(j)
      PROVE  peer'[activeWebRTCConnections'[k]] = "open" /\ udid'[activeWebRTCConnections'[k]] = k
  <2>1. k # j /\ activeWebRTCConnections'[k] = activeWebRTCConnections[k]
    BY <1>1, <1>4 DEF Takes
  <2>2. Stored(k) /\ Stored(j)
    BY <1>4, <2>1 DEF Stored, Takes
  <2>3. activeWebRTCConnections[k] # activeWebRTCConnections[j]
    BY <2>1, <2>2, StoredPeer
  <2> QED BY <1>4, <2>1, <2>2, <2>3, StoredPeer DEF Takes
<1>5. ASSUME NEW a \in Attempts, Stores(a)
      PROVE  peer'[activeWebRTCConnections'[k]] = "open" /\ udid'[activeWebRTCConnections'[k]] = k
  <2>1. CASE k = udid[a]
    BY <1>1, <1>5, <2>1 DEF Stores
  <2>2. CASE k # udid[a]
    BY <1>1, <1>5, <2>2, StoredPeer DEF Stores, Stored
  <2> QED BY <2>1, <2>2
<1> QED BY <1>2, <1>3, <1>4, <1>5 DEF MapStep

Early == {"unused", "device", "ice"}

LEMMA NobodyGoesBack ==
  ASSUME MapInv, [Next]_vars, NEW b \in Attempts, at'[b] \in Early
  PROVE  at[b] \in Early
<1> USE DEF pageVars, rtcVars, recVars, runVars, userVars, Early
<1>1. at \in [Attempts -> Places]
  BY DEF MapInv, TypeInv, RunOK
<1>2. ASSUME NEW a \in Attempts, AttemptStep(a) PROVE at[b] \in Early
  BY <1>1, <1>2 DEF AttemptStep, DeviceFetched, DeviceNotFetched, IceServersFetched,
     LocalDescriptionSet, LocalDescriptionFails, AskOrStop, OfferAnswered, OfferRetried, OfferFails, RetryWait,
     RemoteDescriptionSet, RemoteDescriptionFails, Fails
<1>3. ASSUME NEW a \in Attempts, PeerStep(a) \/ HeartbeatStops(a) PROVE at[b] \in Early
  BY <1>3 DEF PeerStep, HeartbeatStops, PeerFails, VideoTrackEnds, VideoTrackArrives,
     ChannelArrives, ChannelOpens, ChannelCloses
<1>4. CASE UserStep
  <2>1. ASSUME NEW k, startDeviceStream(k) PROVE at[b] \in Early
    BY <1>1, <2>1 DEF startDeviceStream
  <2> QED BY <1>4, <2>1 DEF UserStep, ConnectClick, BatchConnect, DisconnectClick,
          ConfirmDisconnect, CancelDisconnect, BatchDisconnect
<1>5. ASSUME NEW k \in Keys, DeviceStep(k) PROVE at[b] \in Early
  BY <1>5 DEF DeviceStep, DeviceOnline, DeviceOffline, DeviceListed
<1>6. CASE DeviceUnlisted \/ UNCHANGED vars
  BY <1>6 DEF DeviceUnlisted, vars
<1> QED BY <1>2, <1>3, <1>4, <1>5, <1>6 DEF Next

LEMMA MapInvKept == ASSUME MapInv, [Next]_vars PROVE MapInv'
<1>1. TypeInv' /\ MapStep
  BY TypesKept, EveryStepMoves DEF MapInv
<1>2. ASSUME NEW b \in Attempts, at'[b] \in Early PROVE peer'[b] = "none"
  <2>1. peer[b] = "none"
    BY <1>2, NobodyGoesBack DEF MapInv, PeersBornLate, Early
  <2>2. CASE Quiet \/ Strays
    BY <2>1, <2>2 DEF Quiet, Strays
  <2>3. ASSUME NEW k \in Keys, Takes(k) PROVE peer'[b] = "none"
    <3>1. activeWebRTCConnections[k] # b
      BY <2>1, <2>3, StoredPeer DEF Takes
    <3> QED BY <2>1, <2>3, <3>1 DEF Takes
  <2>4. ASSUME NEW a \in Attempts, Stores(a) PROVE peer'[b] = "none"
    BY <1>2, <2>1, <2>4 DEF Stores, Early
  <2> QED BY <1>1, <2>2, <2>3, <2>4 DEF MapStep
<1> QED BY <1>1, <1>2, StoredStayOpen DEF MapInv, PeersBornLate, Early

LEMMA MapInvInit == Init => MapInv
<1> SUFFICES ASSUME Init PROVE MapInv
  OBVIOUS
<1>1. TypeInv
  BY TypesInit, TypesSplit
<1> QED BY <1>1 DEF Init, MapInv, StoredIsOpen, PeersBornLate

\* StoredIsOpen for any number of attempts and keys: cleanupWebRTCConnection closes what
\* it takes out of activeWebRTCConnections, and nothing else closes a stored peer.
THEOREM StoredPeersAreOpen == Spec => []StoredIsOpen
<1>1. MapInv => StoredIsOpen
  BY DEF MapInv
<1> QED BY <1>1, MapInvInit, MapInvKept, PTL DEF Spec

(* The abstract map *)

Life == [a \in Attempts |-> PeerLife(a)]

LEMMA MovesImplemented ==
  ASSUME MapInv, MapInv', MapStep
  PROVE  [Slots!Next]_<<activeWebRTCConnections, Life>>
<1>1. /\ activeWebRTCConnections \in [Keys -> Holders] /\ peer \in [Attempts -> Peers]
      /\ udid \in [Attempts -> Keys]
  BY DEF MapInv, TypeInv, ClosableOK, RunOK
<1>2. CASE Quiet
  <2>1. \A b \in Attempts : PeerLife(b)' = PeerLife(b)
    BY <1>2 DEF Quiet, PeerLife
  <2> QED BY <1>2, <2>1 DEF Quiet, Life
<1>3. CASE Strays
  <2>1. \A b \in Attempts : PeerLife(b)' = PeerLife(b)
    BY <1>3 DEF Strays, PeerLife
  <2> QED BY <1>3, <2>1 DEF Strays, Life
<1>4. ASSUME NEW k \in Keys, Takes(k) PROVE Slots!Close(k)
  <2>1. PICK c \in Attempts : c = activeWebRTCConnections[k] /\ peer[c] = "open" /\ udid[c] = k
    BY <1>4, StoredPeer DEF Takes
  <2>2. PeerLife(c)' = "closed"
    <3>1. peer'[c] = "closed" /\ activeWebRTCConnections'[udid'[c]] # c
      BY <1>1, <1>4, <2>1, HolderFacts DEF Takes
    <3> QED BY <3>1 DEF PeerLife
  <2>3. ASSUME NEW b \in Attempts, b # c PROVE PeerLife(b)' = PeerLife(b)
    <3>1. activeWebRTCConnections'[udid[b]] = b <=> activeWebRTCConnections[udid[b]] = b
      BY <1>1, <1>4, <2>1, <2>3, HolderFacts DEF Takes
    <3>2. udid' = udid
      BY <1>4 DEF Takes
    <3>3. peer'[b] = peer[b] \/ (peer[b] = "open" /\ peer'[b] = "failed")
      BY <1>4, <2>1, <2>3 DEF Takes
    <3> QED BY <3>1, <3>2, <3>3 DEF PeerLife
  <2>4. Life' = [Life EXCEPT ![c] = "closed"]
    <3>1. Life' = [b \in Attempts |-> PeerLife(b)']
      BY DEF Life
    <3>2. [Life EXCEPT ![c] = "closed"] = [b \in Attempts |-> IF b = c THEN "closed" ELSE PeerLife(b)]
      BY <2>1 DEF Life
    <3> QED BY <2>2, <2>3, <3>1, <3>2
  <2> QED BY <1>4, <2>1, <2>4 DEF Slots!Close, Takes, Stored, Life
<1>5. ASSUME NEW a \in Attempts, Stores(a) PROVE Slots!Hold(udid[a], a)
  <2> PICK c \in Holders : c = activeWebRTCConnections[udid[a]]
    BY <1>1
  <2>1. PeerLife(a) = "unborn" /\ PeerLife(a)' = "held"
    <3>1. peer[a] = "none" /\ activeWebRTCConnections[udid[a]] # a
      BY <1>1, <1>5, HolderFacts, StoredPeer DEF Stores, Stored
    <3>2. peer'[a] = "open" /\ activeWebRTCConnections'[udid'[a]] = a
      BY <1>1, <1>5 DEF Stores
    <3> QED BY <3>1, <3>2 DEF PeerLife
  <2>2. c # a
    BY <1>1, <1>5, HolderFacts, StoredPeer DEF Stores, Stored
  <2>3. ASSUME NEW b \in Attempts, b # a
        PROVE  PeerLife(b)' = IF b = c THEN "stray" ELSE PeerLife(b)
    <3>1. peer'[b] = peer[b] /\ udid'[b] = udid[b]
      BY <1>1, <1>5, <2>3 DEF Stores
    <3>2. CASE b = c
      <4>1. peer[b] = "open" /\ udid[b] = udid[a]
        BY <1>1, <3>2, HolderFacts, StoredPeer DEF Stored
      <4>2. activeWebRTCConnections'[udid'[b]] = a
        BY <1>1, <1>5, <3>1, <4>1 DEF Stores
      <4> QED BY <2>3, <3>1, <3>2, <4>1, <4>2 DEF PeerLife
    <3>3. CASE b # c
      <4>1. activeWebRTCConnections'[udid[b]] = b <=> activeWebRTCConnections[udid[b]] = b
        BY <1>1, <1>5, <2>3, <3>3 DEF Stores
      <4> QED BY <3>1, <3>3, <4>1 DEF PeerLife
    <3> QED BY <3>2, <3>3
  <2>4. Life' = [b \in Attempts |-> CASE b = a -> "held"
                                     [] b = c -> "stray"
                                     [] OTHER -> Life[b]]
    BY <2>1, <2>2, <2>3 DEF Life
  <2> QED BY <1>1, <1>5, <2>1, <2>4 DEF Slots!Hold, Stores, Life
<1> QED BY <1>1, <1>2, <1>3, <1>4, <1>5 DEF MapStep, Slots!Next

\* SlotsImplemented for any number of attempts, keys and messages: every step of the page
\* is a step of ConnectionSlots or leaves its variables alone. activeWebRTCConnections
\* holds at most one peer per key, and one that was closed or replaced stays out.
THEOREM ConnectionsImplementSlots == Spec => SlotsImplemented
<1>1. Init => Slots!Init
  <2> SUFFICES ASSUME Init PROVE Slots!Init
    OBVIOUS
  <2>1. ASSUME NEW a \in Attempts PROVE PeerLife(a) = "unborn"
    <3>1. peer[a] = "none" /\ activeWebRTCConnections[udid[a]] # a
      BY ConnectionAssumption, HolderFacts DEF Init
    <3> QED BY <3>1 DEF PeerLife
  <2> QED BY <2>1 DEF Init, Slots!Init
<1>2. ASSUME MapInv, MapInv', [Next]_vars
      PROVE  [Slots!Next]_<<activeWebRTCConnections, Life>>
  BY <1>2, EveryStepMoves, MovesImplemented
<1>3. ASSUME MapInv, MapInv', [Next]_vars
      PROVE  [Slots!Next]_<<activeWebRTCConnections, [a \in Attempts |-> PeerLife(a)]>>
  BY <1>2, <1>3 DEF Life
<1> QED BY <1>1, <1>3, MapInvInit, MapInvKept, PTL DEF Spec, SlotsImplemented, Slots!Spec

(* Records, channels and heartbeats *)

\* What an attempt and its record have of each other while no record is replaced.
Own(a) ==
  /\ a \in heartbeats => channel[a] = "open" /\ heartbeatInterval[a] = a
  /\ dataChannel[a] \in {None, a} /\ heartbeatInterval[a] \in {None, a}
  /\ videoStreamSet[a] \in {None, a}
  /\ channel[a] \in {"connecting", "open"} => peer[a] = "open"
  /\ channel[a] # "none" => at[a] = "done"
  /\ at[a] \in {"flush", "done"} /\ peer[a] = "open" => sessionId[a] # None

OwnRecords == \A a \in Attempts : Own(a)

\* A step that leaves alone what a record holds.
RecordSame(a) ==
  /\ peer'[a] = peer[a] /\ channel'[a] = channel[a] /\ (a \in heartbeats' => a \in heartbeats)
  /\ dataChannel'[a] = dataChannel[a] /\ heartbeatInterval'[a] = heartbeatInterval[a]
  /\ videoStreamSet'[a] = videoStreamSet[a] /\ sessionId'[a] = sessionId[a]

RecordGone(a) ==
  /\ peer'[a] = "closed" /\ channel'[a] \in {"none", "closed"} /\ a \notin heartbeats'
  /\ dataChannel'[a] = None /\ heartbeatInterval'[a] = None /\ videoStreamSet'[a] = None
  /\ channel'[a] # "none" => channel[a] # "none"

\* An attempt stays where it is, or moves on without an answer.
NoAnswer(a) ==
  at'[a] = at[a] \/ (at[a] # "done" /\ at'[a] # "flush" /\ (at'[a] = "done" => at[a] = "flush"))

\* cleanupWebRTCConnection touches the record it takes out of the map and no other.
Closes(k) ==
  /\ Stored(k) /\ activeWebRTCConnections' = [activeWebRTCConnections EXCEPT ![k] = None]
  /\ \A a \in Attempts : IF a = activeWebRTCConnections[k] THEN RecordGone(a) ELSE RecordSame(a)

LEMMA OwnKept ==
  ASSUME NEW a \in Attempts, Own(a), RecordSame(a) \/ RecordGone(a), NoAnswer(a) PROVE Own(a)'
<1>1. CASE RecordSame(a)
  BY <1>1 DEF Own, RecordSame, NoAnswer
<1>2. CASE RecordGone(a)
  BY <1>2 DEF Own, RecordGone, NoAnswer
<1> QED BY <1>1, <1>2

LEMMA CloseStoredCloses ==
  ASSUME MapInv, OwnRecords, NEW k \in Keys, Stored(k), NEW p \in [Attempts -> Peers],
         \A b \in Attempts : b # activeWebRTCConnections[k] => p[b] = peer[b],
         NEW s, CloseStored(k, p, s)
  PROVE  Closes(k)
<1> DEFINE c == activeWebRTCConnections[k]
<1>1. c \in Attempts /\ Own(c) /\ c # None
  BY StoredPeer, HolderFacts DEF OwnRecords
<1>2. ClosedWith(c) \subseteq {c} /\ (c \in ClosedWith(c) <=> channel[c] # "none")
  BY <1>1, HolderFacts DEF ClosedWith, Own
<1>3. ASSUME NEW a \in Attempts, a # c PROVE RecordSame(a)
  <2>1. channel'[a] = channel[a] /\ (a \in heartbeats' => a \in heartbeats)
    BY <1>2, <1>3 DEF CloseStored
  <2>2. peer'[a] = peer[a]
    BY <1>3 DEF CloseStored, WithClosed
  <2>3. /\ dataChannel'[a] = dataChannel[a] /\ heartbeatInterval'[a] = heartbeatInterval[a]
        /\ videoStreamSet'[a] = videoStreamSet[a] /\ sessionId'[a] = sessionId[a]
    BY <1>1, <1>3 DEF CloseStored, MapInv, TypeInv, ClosableOK
  <2> QED BY <2>1, <2>2, <2>3 DEF RecordSame
<1>4. RecordGone(c)
  <2>1. channel'[c] \in {"none", "closed"} /\ (channel'[c] # "none" => channel[c] # "none")
    BY <1>1, <1>2 DEF CloseStored
  <2>2. c \notin heartbeats'
    BY <1>1 DEF CloseStored, Own
  <2>3. /\ peer'[c] = "closed" /\ dataChannel'[c] = None /\ heartbeatInterval'[c] = None
        /\ videoStreamSet'[c] = None
    BY <1>1 DEF CloseStored, WithClosed, MapInv, TypeInv, ClosableOK
  <2> QED BY <2>1, <2>2, <2>3 DEF RecordGone
<1>5. activeWebRTCConnections' = [activeWebRTCConnections EXCEPT ![k] = None]
  BY DEF CloseStored, Without
<1> QED BY <1>3, <1>4, <1>5 DEF Closes

\* A step of the states, the map and the records is one of a few kinds.
Leaves == UNCHANGED activeWebRTCConnections /\ \A a \in Attempts : RecordSame(a)

LEMMA DisconnectCloses ==
  ASSUME MapInv, OwnRecords, NEW k \in Keys, Disconnect(k)
  PROVE  /\ deviceConnectionStates' = [deviceConnectionStates EXCEPT ![k] = "disconnected"]
         /\ Closes(k) \/ (Leaves /\ ~Stored(k))
<1>1. CASE Stored(k)
  BY <1>1, CloseStoredCloses DEF Disconnect, CloseStored, WithDisconnected, MapInv, TypeInv, ClosableOK
<1>2. CASE ~Stored(k)
  BY <1>2 DEF Disconnect, SetState, Leaves, RecordSame, rtcVars, recVars
<1> QED BY <1>1, <1>2

\* What the other steps do to records, while none is replaced: the handlers of an
\* attempt find its own.
LEMMA ListenerIsStored ==
  ASSUME MapInv, NoneReplaced, NEW a \in Attempts, Listens(a)
  PROVE  /\ udid[a] \in Keys /\ activeWebRTCConnections[udid[a]] = a /\ a # None
         /\ Stored(udid[a]) /\ at[a] = "done" /\ peer[a] = "open"
BY HolderFacts DEF Listens, NoneReplaced, Stored, MapInv, TypeInv, RunOK

LEMMA AttemptOwns ==
  ASSUME MapInv, NoneReplaced, OwnRecords, NEW a \in Attempts, AttemptStep(a) PROVE OwnRecords'
<1> USE DEF pageVars, rtcVars, recVars, runVars, userVars
<1> SUFFICES ASSUME NEW b \in Attempts PROVE Own(b)'
  BY DEF OwnRecords
<1>1. Own(b) /\ at \in [Attempts -> Places] /\ udid[a] \in Keys
  BY DEF OwnRecords, MapInv, TypeInv, RunOK
<1>2. ASSUME NEW x \in Places, at[a] # "done", x # "flush", x = "done" => at[a] = "flush",
             at' = [at EXCEPT ![a] = x]
      PROVE  NoAnswer(b)
  BY <1>1, <1>2 DEF NoAnswer
<1>3. UNCHANGED <<rtcVars, recVars>> => RecordSame(b)
  BY DEF RecordSame
<1>4. ASSUME NEW k \in Keys, Disconnect(k) PROVE RecordSame(b) \/ RecordGone(b)
  BY <1>4, DisconnectCloses DEF Closes, Leaves
<1>5. CASE DeviceFetched(a)
  <2>1. NoAnswer(b)
    BY <1>2, <1>5 DEF DeviceFetched, Places
  <2> QED BY <1>1, <1>3, <1>4, <1>5, <2>1, OwnKept DEF DeviceFetched, CleanupIfStored
<1>6. CASE LocalDescriptionFails(a) \/ OfferFails(a) \/ RemoteDescriptionFails(a)
  <2>1. NoAnswer(b)
    BY <1>2, <1>6 DEF LocalDescriptionFails, OfferFails, RemoteDescriptionFails, Fails, Places
  <2> QED BY <1>1, <1>4, <1>6, <2>1, OwnKept
          DEF LocalDescriptionFails, OfferFails, RemoteDescriptionFails, Fails
<1>7. CASE DeviceNotFetched(a) \/ LocalDescriptionSet(a) \/ OfferRetried(a) \/ RetryWait(a)
           \/ RemoteDescriptionSet(a)
  <2>1. NoAnswer(b)
    BY <1>2, <1>7 DEF DeviceNotFetched, LocalDescriptionSet, OfferRetried, RetryWait, AskOrStop,
       RemoteDescriptionSet, Places
  <2>2. RecordSame(b)
    BY <1>3, <1>7 DEF DeviceNotFetched, LocalDescriptionSet, OfferRetried, RetryWait,
       RemoteDescriptionSet
  <2> QED BY <1>1, <2>1, <2>2, OwnKept
<1>8. CASE IceServersFetched(a)
  <2>1. at[a] = "ice" /\ at' = [at EXCEPT ![a] = "offer"] /\ peer' = [peer EXCEPT ![a] = "open"]
        /\ UNCHANGED <<channel, heartbeats, recVars>>
    BY <1>8 DEF IceServersFetched
  <2>2. CASE b = a
    BY <1>1, <2>1, <2>2 DEF Own, MapInv, TypeInv, ClosableOK
  <2>3. CASE b # a
    BY <1>1, <2>1, <2>3 DEF Own
  <2> QED BY <2>2, <2>3
<1>9. CASE OfferAnswered(a)
  <2>1. at[a] = "ask" /\ at' = [at EXCEPT ![a] = "flush"] /\ sessionId' = SessionsWith(a)
        /\ UNCHANGED <<rtcVars, dataChannel, heartbeatInterval, videoStreamSet, udid>>
    BY <1>9 DEF OfferAnswered
  <2> DEFINE c == activeWebRTCConnections[udid[a]]
  <2>2. sessionId' = IF c = None THEN sessionId ELSE [sessionId EXCEPT ![c] = a]
    BY <2>1 DEF SessionsWith
  <2>3. sessionId \in [Attempts -> Holders] /\ a # None
    BY HolderFacts DEF MapInv, TypeInv, ClosableOK
  <2>4. peer[a] = "open" => c = a
    BY DEF NoneReplaced
  <2>5. sessionId[b] # None => sessionId'[b] # None
    BY <2>2, <2>3
  <2>6. CASE b = a
    BY <1>1, <2>1, <2>2, <2>3, <2>4, <2>6 DEF Own
  <2>7. CASE b # a
    BY <1>1, <2>1, <2>5, <2>7 DEF Own
  <2> QED BY <2>6, <2>7
<1> QED BY <1>5, <1>6, <1>7, <1>8, <1>9 DEF AttemptStep

LEMMA PeerOwns ==
  ASSUME MapInv, NoneReplaced, OwnRecords, NEW a \in Attempts, PeerStep(a) \/ HeartbeatStops(a)
  PROVE OwnRecords'
<1> USE DEF pageVars, rtcVars, recVars, runVars, userVars
<1> SUFFICES ASSUME NEW b \in Attempts PROVE Own(b)'
  BY DEF OwnRecords
<1>1. Own(b) /\ udid[a] \in Keys /\ ClosableOK
  BY DEF OwnRecords, MapInv, TypeInv, RunOK
<1>2. ASSUME UNCHANGED at, RecordSame(b) \/ RecordGone(b) PROVE Own(b)'
  BY <1>1, <1>2, OwnKept DEF NoAnswer
<1>3. CASE PeerFails(a)
  <2> DEFINE p == [peer EXCEPT ![a] = "failed"]
  <2>1. Listens(a) /\ UNCHANGED at
    BY <1>3 DEF PeerFails
  <2>2. Stored(udid[a]) /\ activeWebRTCConnections[udid[a]] = a
    BY <2>1, ListenerIsStored
  <2>3. CloseStored(udid[a], p, deviceConnectionStates)
    BY <1>3, <2>2 DEF PeerFails
  <2>4. p \in [Attempts -> Peers] /\ \A d \in Attempts : d # a => p[d] = peer[d]
    BY <1>1 DEF ClosableOK, Peers
  <2>5. Closes(udid[a])
    BY <1>1, <2>2, <2>3, <2>4, CloseStoredCloses
  <2> QED BY <1>2, <2>1, <2>5 DEF Closes
<1>4. CASE VideoTrackEnds(a)
  BY <1>1, <1>2, <1>4, DisconnectCloses DEF VideoTrackEnds, Closes, Leaves
<1>5. CASE VideoTrackArrives(a)
  <2>1. activeWebRTCConnections[udid[a]] = a
    BY <1>5, ListenerIsStored DEF VideoTrackArrives
  <2> QED BY <1>1, <1>5, <2>1 DEF VideoTrackArrives, Own, ClosableOK
<1>6. CASE ChannelArrives(a)
  <2>1. /\ activeWebRTCConnections[udid[a]] = a /\ a # None /\ at[a] = "done" /\ peer[a] = "open"
        /\ channel[a] = "none"
    BY <1>6, ListenerIsStored DEF ChannelArrives
  <2>2. /\ channel' = [channel EXCEPT ![a] = "connecting"] /\ dataChannel' = [dataChannel EXCEPT ![a] = a]
        /\ UNCHANGED <<at, peer, heartbeats, heartbeatInterval, sessionId, videoStreamSet>>
    BY <1>6, <2>1 DEF ChannelArrives
  <2>3. CASE b = a
    BY <1>1, <2>1, <2>2, <2>3 DEF Own, ClosableOK
  <2>4. CASE b # a
    BY <1>1, <2>2, <2>4 DEF Own, ClosableOK
  <2> QED BY <2>3, <2>4
<1>7. CASE ChannelOpens(a)
  <2>1. activeWebRTCConnections[udid[a]] = a /\ a # None /\ at[a] = "done" /\ peer[a] = "open"
    BY <1>7, ListenerIsStored DEF ChannelOpens
  <2>2. /\ channel' = [channel EXCEPT ![a] = "open"] /\ heartbeats' = heartbeats \cup {a}
        /\ dataChannel' = [dataChannel EXCEPT ![a] = a]
        /\ heartbeatInterval' = [heartbeatInterval EXCEPT ![a] = a]
        /\ UNCHANGED <<at, peer, sessionId, videoStreamSet>>
    BY <1>7, <2>1 DEF ChannelOpens
  <2>3. CASE b = a
    BY <1>1, <2>1, <2>2, <2>3 DEF Own, ClosableOK
  <2>4. CASE b # a
    BY <1>1, <2>2, <2>4 DEF Own, ClosableOK
  <2> QED BY <2>3, <2>4
<1>8. CASE ChannelCloses(a)
  <2>1. activeWebRTCConnections[udid[a]] = a /\ a # None /\ at[a] = "done"
    BY <1>8, ListenerIsStored DEF ChannelCloses
  <2>2. /\ channel' = [channel EXCEPT ![a] = "closed"]
        /\ heartbeats' = heartbeats \ {heartbeatInterval[a]}
        /\ dataChannel' = [dataChannel EXCEPT ![a] = None]
        /\ heartbeatInterval' = [heartbeatInterval EXCEPT ![a] = None]
        /\ UNCHANGED <<at, peer, sessionId, videoStreamSet>>
    BY <1>8, <2>1 DEF ChannelCloses, StillBeating
  <2>3. CASE b = a
    BY <1>1, <2>1, <2>2, <2>3 DEF Own, ClosableOK
  <2>4. CASE b # a
    BY <1>1, <2>2, <2>4 DEF Own, ClosableOK
  <2> QED BY <2>3, <2>4
<1>9. CASE HeartbeatStops(a)
  BY <1>2, <1>9 DEF HeartbeatStops, RecordSame
<1> QED BY <1>3, <1>4, <1>5, <1>6, <1>7, <1>8, <1>9 DEF PeerStep

LEMMA PageOwns ==
  ASSUME MapInv, OwnRecords,
         UserStep \/ DeviceUnlisted \/ (\E k \in Keys : DeviceStep(k)) \/ UNCHANGED vars
  PROVE  OwnRecords'
<1> USE DEF pageVars, rtcVars, recVars, runVars, userVars
<1> SUFFICES ASSUME NEW b \in Attempts PROVE Own(b)'
  BY DEF OwnRecords
<1>1. Own(b) /\ deviceRegistry \in Keys /\ (dialog # NoDialog => dialog \in Keys)
      /\ peer \in [Attempts -> Peers]
  BY DEF OwnRecords, MapInv, TypeInv, CardOK, ClosableOK
<1>2. ASSUME NoAnswer(b), RecordSame(b) \/ RecordGone(b) PROVE Own(b)'
  BY <1>1, <1>2, OwnKept
<1>3. ASSUME UNCHANGED <<at, rtcVars, recVars>> PROVE Own(b)'
  BY <1>2, <1>3 DEF RecordSame, NoAnswer
<1>4. ASSUME NEW k \in Keys, UNCHANGED at, Disconnect(k) PROVE Own(b)'
  BY <1>2, <1>4, DisconnectCloses DEF Closes, Leaves, NoAnswer
<1>5. ASSUME NEW k \in Keys, UNCHANGED at, Stored(k), NEW s, CloseStored(k, peer, s) PROVE Own(b)'
  BY <1>1, <1>2, <1>5, CloseStoredCloses DEF Closes, NoAnswer
<1>6. ASSUME NEW k \in Keys, startDeviceStream(k) PROVE Own(b)'
  <2>1. NoAnswer(b)
    BY <1>6 DEF startDeviceStream, NoAnswer, MapInv, TypeInv, RunOK
  <2>2. RecordSame(b)
    BY <1>6 DEF startDeviceStream, RecordSame
  <2> QED BY <1>2, <2>1, <2>2
<1>7. CASE UserStep
  <2>1. CASE ConnectClick \/ BatchConnect
    BY <1>1, <1>6, <2>1 DEF ConnectClick, BatchConnect
  <2>2. CASE DisconnectClick \/ CancelDisconnect
    BY <1>3, <2>2 DEF DisconnectClick, CancelDisconnect
  <2>3. CASE ConfirmDisconnect \/ BatchDisconnect
    BY <1>1, <1>4, <2>3 DEF ConfirmDisconnect, BatchDisconnect
  <2> QED BY <1>7, <2>1, <2>2, <2>3 DEF UserStep
<1>8. ASSUME NEW k \in Keys, DeviceStep(k) PROVE Own(b)'
  <2>1. CASE DeviceOffline(k)
    BY <1>3, <1>5, <2>1 DEF DeviceOffline
  <2>2. CASE DeviceOnline(k) \/ DeviceListed(k)
    BY <1>3, <2>2 DEF DeviceOnline, DeviceListed
  <2> QED BY <1>8, <2>1, <2>2 DEF DeviceStep
<1>9. CASE DeviceUnlisted
  BY <1>1, <1>3, <1>5, <1>9 DEF DeviceUnlisted
<1>10. CASE UNCHANGED vars
  BY <1>3, <1>10 DEF vars
<1> QED BY <1>7, <1>8, <1>9, <1>10

\* A peer that lives and is not stored stays so.
LEMMA ReplacedForGood ==
  ASSUME MapInv, MapStep, NoneReplaced' PROVE NoneReplaced
<1> SUFFICES ASSUME NEW b \in Attempts, peer[b] \in {"open", "failed"},
                    activeWebRTCConnections[udid[b]] # b
             PROVE  FALSE
  BY DEF NoneReplaced
<1>1. /\ activeWebRTCConnections \in [Keys -> Holders] /\ peer \in [Attempts -> Peers]
      /\ udid \in [Attempts -> Keys] /\ b # None
  BY HolderFacts DEF MapInv, TypeInv, ClosableOK, RunOK
<1>2. peer'[b] \in {"open", "failed"} => activeWebRTCConnections'[udid'[b]] = b
  BY DEF NoneReplaced
<1>3. ~Quiet /\ ~Strays
  BY <1>2 DEF Quiet, Strays
<1>4. ASSUME NEW k \in Keys, Takes(k) PROVE FALSE
  <2>1. b # activeWebRTCConnections[k]
    BY <1>4, StoredPeer DEF Takes
  <2>2. peer'[b] \in {"open", "failed"} /\ udid'[b] = udid[b]
    BY <1>4, <2>1 DEF Takes
  <2> QED BY <1>1, <1>2, <1>4, <2>2 DEF Takes
<1>5. ASSUME NEW a \in Attempts, Stores(a) PROVE FALSE
  <2>1. b # a /\ peer'[b] = peer[b] /\ udid'[b] = udid[b]
    BY <1>1, <1>5 DEF Stores
  <2> QED BY <1>1, <1>2, <1>5, <2>1 DEF Stores
<1> QED BY <1>3, <1>4, <1>5 DEF MapStep

StatesRight == \A k \in Keys : deviceConnectionStates[k] = "connected" <=> OpenChannel(k)

LEMMA OpenIs ==
  ASSUME MapInv, OwnRecords, NEW k \in Keys
  PROVE  OpenChannel(k) <=> \E a \in Attempts : /\ activeWebRTCConnections[k] = a
                                                /\ dataChannel[a] = a /\ channel[a] = "open"
<1> DEFINE a == activeWebRTCConnections[k]
<1>1. a # None => a \in Attempts
  BY HolderFacts DEF MapInv, TypeInv, ClosableOK
<1>2. a # None => dataChannel[a] \in {None, a}
  BY <1>1 DEF OwnRecords, Own
<1> QED BY <1>1, <1>2, HolderFacts DEF OpenChannel

\* A step that changes the state, the map, the record and the channel of no key but k.
OnlyAt(k) ==
  /\ \A j \in Keys : j # k => /\ activeWebRTCConnections'[j] = activeWebRTCConnections[j]
                              /\ deviceConnectionStates'[j] = deviceConnectionStates[j]
  /\ \A a \in Attempts :
       peer[a] = "open" /\ udid[a] # k => dataChannel'[a] = dataChannel[a] /\ channel'[a] = channel[a]

LEMMA StatesRightBut ==
  ASSUME MapInv, OwnRecords, MapInv', OwnRecords', StatesRight, NEW k \in Keys, OnlyAt(k),
         deviceConnectionStates'[k] = "connected" <=> OpenChannel(k)'
  PROVE  StatesRight'
<1> SUFFICES ASSUME NEW j \in Keys, j # k
             PROVE  deviceConnectionStates'[j] = "connected" <=> OpenChannel(j)'
  BY DEF StatesRight
<1>1. activeWebRTCConnections'[j] = activeWebRTCConnections[j]
  BY DEF OnlyAt
<1>2. ASSUME NEW a \in Attempts, activeWebRTCConnections[j] = a
      PROVE  dataChannel'[a] = dataChannel[a] /\ channel'[a] = channel[a]
  <2>1. peer[a] = "open" /\ udid[a] = j
    BY <1>2, StoredPeer, HolderFacts DEF Stored
  <2> QED BY <2>1 DEF OnlyAt
<1>3. OpenChannel(j)' <=> \E a \in Attempts : /\ activeWebRTCConnections'[j] = a
                                              /\ dataChannel'[a] = a /\ channel'[a] = "open"
  <2> DEFINE a == activeWebRTCConnections[j]
  <2>1. a # None => a \in Attempts
    BY HolderFacts DEF MapInv, TypeInv, ClosableOK
  <2>2. a # None => dataChannel'[a] \in {None, a}
    BY <2>1 DEF OwnRecords, Own
  <2> QED BY <1>1, <2>1, <2>2, HolderFacts DEF OpenChannel
<1>4. OpenChannel(j)' <=> OpenChannel(j)
  BY <1>1, <1>2, <1>3, OpenIs
<1> QED BY <1>4 DEF StatesRight, OnlyAt

\* A key without a connection has no open channel.
LEMMA NoneOpen == ASSUME NEW k, ~Stored(k) PROVE ~OpenChannel(k)
BY DEF Stored, OpenChannel

LEMMA ClosedStatesRight ==
  ASSUME MapInv, OwnRecords, MapInv', OwnRecords', StatesRight, NEW k \in Keys,
         Closes(k) \/ (Leaves /\ ~Stored(k)),
         \A j \in Keys : j # k => deviceConnectionStates'[j] = deviceConnectionStates[j],
         deviceConnectionStates'[k] # "connected"
  PROVE  StatesRight'
<1>1. activeWebRTCConnections \in [Keys -> Holders]
  BY DEF MapInv, TypeInv, ClosableOK
<1>2. ~Stored(k)'
  BY <1>1 DEF Closes, Leaves, Stored
<1>3. OnlyAt(k)
  <2>1. CASE Closes(k)
    <3>1. udid[activeWebRTCConnections[k]] = k
      BY <2>1, StoredPeer DEF Closes
    <3> QED BY <1>1, <2>1, <3>1 DEF Closes, OnlyAt, RecordSame
  <2>2. CASE Leaves
    BY <2>2 DEF Leaves, OnlyAt, RecordSame
  <2> QED BY <2>1, <2>2
<1>4. ~OpenChannel(k)'
  BY <1>2 DEF Stored, OpenChannel
<1> QED BY <1>3, <1>4, StatesRightBut

\* The states follow the channels until a device message moves them.
LEMMA AttemptStates ==
  ASSUME MapInv, OwnRecords, MapInv', OwnRecords', StatesRight, NEW a \in Attempts,
         NoneReplaced', AttemptStep(a)
  PROVE  StatesRight'
<1> USE DEF pageVars, rtcVars, recVars, runVars, userVars
<1>1. udid[a] \in Keys /\ ClosableOK /\ RunOK
  BY DEF MapInv, TypeInv, RunOK
<1>2. ASSUME UNCHANGED <<deviceConnectionStates, activeWebRTCConnections, channel, dataChannel>>
      PROVE  StatesRight'
  BY <1>2 DEF StatesRight, OpenChannel
<1>3. ASSUME NEW k \in Keys, Disconnect(k) PROVE StatesRight'
  BY <1>1, <1>3, DisconnectCloses, ClosedStatesRight DEF ClosableOK
<1>4. CASE DeviceFetched(a)
  BY <1>1, <1>2, <1>3, <1>4 DEF DeviceFetched, CleanupIfStored
<1>5. CASE LocalDescriptionFails(a) \/ OfferFails(a) \/ RemoteDescriptionFails(a)
  BY <1>1, <1>3, <1>5 DEF LocalDescriptionFails, OfferFails, RemoteDescriptionFails, Fails
<1>6. CASE DeviceNotFetched(a) \/ LocalDescriptionSet(a) \/ OfferRetried(a) \/ RetryWait(a)
           \/ RemoteDescriptionSet(a) \/ OfferAnswered(a)
  BY <1>2, <1>6 DEF DeviceNotFetched, LocalDescriptionSet, OfferRetried, RetryWait,
     RemoteDescriptionSet, OfferAnswered
\* The new record has no channel yet, and there was none to replace.
<1>7. CASE IceServersFetched(a)
  <2> PICK k \in Keys : k = udid[a]
    BY <1>1
  <2>1. /\ at[a] = "ice" /\ peer' = [peer EXCEPT ![a] = "open"]
        /\ activeWebRTCConnections' = [activeWebRTCConnections EXCEPT ![k] = a]
        /\ UNCHANGED <<deviceConnectionStates, channel, dataChannel, udid>>
    BY <1>7 DEF IceServersFetched
  <2>2. ~Stored(k)
    <3>1. ASSUME Stored(k) PROVE FALSE
      <4> DEFINE c == activeWebRTCConnections[k]
      <4>1. c \in Attempts /\ peer[c] = "open" /\ udid[c] = k
        BY <1>1, <3>1, StoredPeer
      <4>2. peer[a] = "none"
        BY <2>1 DEF MapInv, PeersBornLate
      <4>3. c # a /\ peer'[c] = "open"
        BY <1>1, <2>1, <4>1, <4>2 DEF ClosableOK
      <4>4. activeWebRTCConnections'[k] = c
        BY <2>1, <4>1, <4>3 DEF NoneReplaced
      <4> QED BY <1>1, <2>1, <4>3, <4>4 DEF ClosableOK
    <3> QED BY <3>1
  <2>3. OnlyAt(k)
    BY <1>1, <2>1 DEF OnlyAt, ClosableOK
  <2>4. channel[a] = "none"
    BY <2>1 DEF OwnRecords, Own
  <2>5. ~OpenChannel(k)'
    <3>1. activeWebRTCConnections'[k] = a
      BY <1>1, <2>1 DEF ClosableOK
    <3>2. dataChannel'[a] \in {None, a} /\ channel'[a] = "none"
      BY <2>1, <2>4 DEF OwnRecords, Own
    <3> QED BY <3>1, <3>2 DEF OpenChannel
  <2>6. deviceConnectionStates'[k] # "connected"
    BY <1>1, <2>1, <2>2, NoneOpen DEF StatesRight
  <2> QED BY <1>1, <2>3, <2>5, <2>6, StatesRightBut
<1> QED BY <1>4, <1>5, <1>6, <1>7 DEF AttemptStep

LEMMA PeerStates ==
  ASSUME MapInv, OwnRecords, MapInv', OwnRecords', StatesRight, NEW a \in Attempts,
         NoneReplaced, PeerStep(a) \/ HeartbeatStops(a)
  PROVE  StatesRight'
<1> USE DEF pageVars, rtcVars, recVars, runVars, userVars
<1>1. udid[a] \in Keys /\ ClosableOK
  BY DEF MapInv, TypeInv, RunOK
<1> PICK k \in Keys : k = udid[a]
  BY <1>1
<1>2. ASSUME UNCHANGED <<deviceConnectionStates, activeWebRTCConnections, channel, dataChannel>>
      PROVE  StatesRight'
  BY <1>2 DEF StatesRight, OpenChannel
<1>3. CASE PeerFails(a)
  <2> DEFINE p == [peer EXCEPT ![a] = "failed"]
  <2>1. Stored(k) /\ activeWebRTCConnections[k] = a
    BY <1>3, ListenerIsStored DEF PeerFails
  <2>2. CloseStored(k, p, deviceConnectionStates)
    BY <1>3, <2>1 DEF PeerFails
  <2>3. p \in [Attempts -> Peers] /\ \A d \in Attempts : d # a => p[d] = peer[d]
    BY <1>1 DEF ClosableOK, Peers
  <2>4. Closes(k)
    BY <1>1, <2>1, <2>2, <2>3, CloseStoredCloses
  <2>5. deviceConnectionStates' = [deviceConnectionStates EXCEPT ![k] = "disconnected"]
    BY <2>2 DEF CloseStored, WithDisconnected
  <2> QED BY <1>1, <2>4, <2>5, ClosedStatesRight DEF ClosableOK
<1>4. CASE VideoTrackEnds(a)
  BY <1>1, <1>4, DisconnectCloses, ClosedStatesRight DEF VideoTrackEnds, ClosableOK
<1>5. CASE VideoTrackArrives(a) \/ HeartbeatStops(a)
  BY <1>2, <1>5 DEF VideoTrackArrives, HeartbeatStops
<1>6. ASSUME Listens(a), NEW s, NEW r, NEW h, h \in {None, a},
             channel' = [channel EXCEPT ![a] = s], dataChannel' = [dataChannel EXCEPT ![a] = h],
             UNCHANGED activeWebRTCConnections,
             deviceConnectionStates' = [deviceConnectionStates EXCEPT ![k] = r],
             r = "connected" <=> h = a /\ s = "open"
      PROVE  StatesRight'
  <2>1. activeWebRTCConnections[k] = a /\ a # None
    BY <1>6, ListenerIsStored
  <2>2. OnlyAt(k)
    BY <1>1, <1>6 DEF OnlyAt, ClosableOK
  <2>3. OpenChannel(k)' <=> h = a /\ s = "open"
    BY <1>1, <1>6, <2>1 DEF OpenChannel, ClosableOK
  <2>4. deviceConnectionStates'[k] = r
    BY <1>1, <1>6 DEF ClosableOK
  <2> QED BY <1>1, <1>6, <2>2, <2>3, <2>4, StatesRightBut
<1>7. CASE ChannelArrives(a)
  <2>1. /\ Listens(a) /\ channel[a] = "none" /\ activeWebRTCConnections[k] = a /\ a # None
    BY <1>7, ListenerIsStored DEF ChannelArrives
  <2>2. /\ channel' = [channel EXCEPT ![a] = "connecting"] /\ dataChannel' = [dataChannel EXCEPT ![a] = a]
        /\ UNCHANGED <<activeWebRTCConnections, deviceConnectionStates>>
    BY <1>7, <2>1 DEF ChannelArrives
  <2>3. deviceConnectionStates[k] # "connected"
    <3>1. dataChannel[a] \in {None, a}
      BY DEF OwnRecords, Own
    <3> QED BY <1>1, <2>1, <3>1 DEF StatesRight, OpenChannel
  <2>4. deviceConnectionStates' = [deviceConnectionStates EXCEPT ![k] = deviceConnectionStates[k]]
    BY <1>1, <2>2 DEF ClosableOK
  <2> QED BY <1>6, <2>1, <2>2, <2>3, <2>4
<1>8. CASE ChannelOpens(a)
  <2>1. Listens(a) /\ activeWebRTCConnections[k] = a /\ a # None
    BY <1>8, ListenerIsStored DEF ChannelOpens
  <2>2. /\ channel' = [channel EXCEPT ![a] = "open"] /\ dataChannel' = [dataChannel EXCEPT ![a] = a]
        /\ deviceConnectionStates' = [deviceConnectionStates EXCEPT ![k] = "connected"]
        /\ UNCHANGED activeWebRTCConnections
    BY <1>8, <2>1 DEF ChannelOpens, SetState
  <2> QED BY <1>6, <2>1, <2>2
<1>9. CASE ChannelCloses(a)
  <2>1. Listens(a) /\ activeWebRTCConnections[k] = a /\ a # None
    BY <1>9, ListenerIsStored DEF ChannelCloses
  <2>2. /\ channel' = [channel EXCEPT ![a] = "closed"] /\ dataChannel' = [dataChannel EXCEPT ![a] = None]
        /\ deviceConnectionStates' = [deviceConnectionStates EXCEPT ![k] = "disconnected"]
        /\ UNCHANGED activeWebRTCConnections
    BY <1>9, <2>1 DEF ChannelCloses, SetState
  <2> QED BY <1>6, <2>1, <2>2
<1> QED BY <1>3, <1>4, <1>5, <1>7, <1>8, <1>9 DEF PeerStep

LEMMA UserStates ==
  ASSUME MapInv, OwnRecords, MapInv', OwnRecords', StatesRight, UserStep
  PROVE  StatesRight'
<1> USE DEF pageVars, rtcVars, recVars, runVars, userVars
<1>1. deviceRegistry \in Keys /\ (dialog # NoDialog => dialog \in Keys) /\ ClosableOK
  BY DEF MapInv, TypeInv, CardOK
<1>2. ASSUME NEW k \in Keys, startDeviceStream(k) PROVE StatesRight'
  <2>1. /\ ~Stored(k) /\ deviceConnectionStates' = [deviceConnectionStates EXCEPT ![k] = "connecting"]
        /\ UNCHANGED <<activeWebRTCConnections, rtcVars, recVars>>
    BY <1>2 DEF startDeviceStream, SetState
  <2>2. Leaves
    BY <2>1 DEF Leaves, RecordSame
  <2> QED BY <1>1, <2>1, <2>2, ClosedStatesRight DEF ClosableOK
<1>3. CASE ConnectClick \/ BatchConnect
  BY <1>1, <1>2, <1>3 DEF ConnectClick, BatchConnect
<1>4. CASE DisconnectClick \/ CancelDisconnect
  BY <1>4 DEF DisconnectClick, CancelDisconnect, StatesRight, OpenChannel
<1>5. CASE ConfirmDisconnect \/ BatchDisconnect
  BY <1>1, <1>5, DisconnectCloses, ClosedStatesRight DEF ConfirmDisconnect, BatchDisconnect, ClosableOK
<1> QED BY <1>3, <1>4, <1>5 DEF UserStep

RecordInv ==
  /\ MapInv
  /\ NoneReplaced => OwnRecords
  /\ NoneReplaced /\ changes = 0 => StatesRight

LEMMA RecordInvKept == ASSUME RecordInv, [Next]_vars PROVE RecordInv'
<1> USE DEF userVars
<1>1. MapInv /\ MapInv' /\ (NoneReplaced' => NoneReplaced)
  BY MapInvKept, EveryStepMoves, ReplacedForGood DEF RecordInv
<1>2. ASSUME NoneReplaced' PROVE OwnRecords'
  BY <1>1, <1>2, AttemptOwns, PeerOwns, PageOwns DEF RecordInv, Next
<1>3. ASSUME NoneReplaced', changes' = 0 PROVE StatesRight'
  <2>1. OwnRecords /\ OwnRecords' /\ NoneReplaced /\ changes \in Nat
    BY <1>1, <1>2, <1>3, ConnectionAssumption DEF RecordInv, MapInv, TypeInv, CardOK
  <2>2. ~DeviceUnlisted /\ ~\E k \in Keys : DeviceStep(k)
    BY <1>3, <2>1 DEF DeviceUnlisted, DeviceStep, DeviceOnline, DeviceOffline, DeviceListed
  <2>3. changes = 0
    BY <1>3, <2>2 DEF Next, AttemptStep, DeviceFetched, DeviceNotFetched, IceServersFetched,
       LocalDescriptionSet, LocalDescriptionFails, OfferAnswered, OfferRetried, OfferFails,
       RetryWait, RemoteDescriptionSet, RemoteDescriptionFails, Fails, PeerStep, PeerFails,
       VideoTrackEnds, VideoTrackArrives, ChannelArrives, ChannelOpens, ChannelCloses,
       HeartbeatStops, UserStep, ConnectClick, BatchConnect, DisconnectClick, ConfirmDisconnect,
       CancelDisconnect, BatchDisconnect, vars
  <2>4. StatesRight
    BY <2>1, <2>3 DEF RecordInv
  <2>5. CASE UNCHANGED vars
    BY <2>4, <2>5 DEF vars, pageVars, rtcVars, recVars, StatesRight, OpenChannel
  <2> QED BY <1>1, <1>3, <2>1, <2>2, <2>4, <2>5, AttemptStates, PeerStates, UserStates DEF Next
<1> QED BY <1>1, <1>2, <1>3 DEF RecordInv

LEMMA RecordInvInit == Init => RecordInv
<1> SUFFICES ASSUME Init PROVE RecordInv
  OBVIOUS
<1>1. OwnRecords
  BY HolderFacts DEF Init, OwnRecords, Own
<1>2. StatesRight
  BY DEF Init, StatesRight, OpenChannel
<1> QED BY <1>1, <1>2, MapInvInit DEF RecordInv

\* HandlersFindTheirRecord for any number of attempts, keys and messages: the handlers
\* of a peer look their record up by apiUdid when they run (app.js:3295, 3344, 3384),
\* and while no record was replaced they find the one of their own attempt.
THEOREM HandlersFindTheirOwn == Spec => []HandlersFindTheirRecord
<1>1. RecordInv => HandlersFindTheirRecord
  <2> SUFFICES ASSUME RecordInv, NoneReplaced
               PROVE  /\ \A a \in heartbeats : /\ activeWebRTCConnections[udid[a]] = a
                                               /\ channel[a] = "open" /\ heartbeatInterval[a] = a
                      /\ \A a \in Attempts : dataChannel[a] \in {None, a} /\ videoStreamSet[a] \in {None, a}
    BY DEF HandlersFindTheirRecord
  <2>1. heartbeats \subseteq Attempts /\ OwnRecords
    BY DEF RecordInv, MapInv, TypeInv, ClosableOK
  <2> QED BY <2>1 DEF OwnRecords, Own, NoneReplaced
<1> QED BY <1>1, RecordInvInit, RecordInvKept, PTL DEF Spec

\* ButtonsFollowChannel for any number of attempts and retries: setDeviceConnectionState
\* is called wherever the channel of the card's connection opens, closes or goes with
\* its record (app.js:3295, 3344, 3933).
THEOREM ButtonsSayWhatIsOpen == Spec => []ButtonsFollowChannel
<1>1. RecordInv => ButtonsFollowChannel
  BY DEF RecordInv, ButtonsFollowChannel, StatesRight, getDeviceConnectionState, MapInv, TypeInv, CardOK
<1> QED BY <1>1, RecordInvInit, RecordInvKept, PTL DEF Spec

(* Whose session a record has *)

\* An attempt that asks, waits for its answer or uses it has made its peer.
Asking == {"offer", "ask", "wait", "flush", "done"}
AskersHavePeers == \A a \in Attempts : at[a] \in Asking => peer[a] # "none"

\* A record has its own session, or one of an attempt that is over for its key.
SessionFits(a) ==
  /\ peer[a] = "none" => sessionId[a] = None
  /\ \/ sessionId[a] \in {None, a}
     \/ udid[sessionId[a]] = udid[a] /\ peer[sessionId[a]] = "closed"

SessionInv ==
  /\ RecordInv /\ AskersHavePeers
  /\ NoneReplaced => \A a \in Attempts : SessionFits(a)

\* Apart from an answer, a step leaves the sessions alone or drops one.
SessionsDrop == \A a \in Attempts : sessionId'[a] \in {sessionId[a], None}

LEMMA OnlyAnswersGiveSessions ==
  ASSUME MapInv, [Next]_vars, \A b \in Attempts : ~OfferAnswered(b) PROVE SessionsDrop
<1> USE DEF pageVars, rtcVars, recVars, runVars, userVars
<1>1. sessionId \in [Attempts -> Holders]
  BY DEF MapInv, TypeInv, ClosableOK
<1>2. ASSUME UNCHANGED sessionId PROVE SessionsDrop
  BY <1>2 DEF SessionsDrop
<1>3. ASSUME NEW k, NEW p, NEW s, CloseStored(k, p, s) PROVE SessionsDrop
  BY <1>1, <1>3 DEF CloseStored, SessionsDrop
<1>4. ASSUME NEW k, Disconnect(k) \/ CleanupIfStored(k) PROVE SessionsDrop
  BY <1>2, <1>3, <1>4 DEF Disconnect, CleanupIfStored
<1>5. ASSUME NEW a \in Attempts, AttemptStep(a) PROVE SessionsDrop
  <2>1. CASE DeviceFetched(a) \/ Fails(a)
    BY <1>4, <2>1 DEF DeviceFetched, Fails
  <2>2. CASE \/ DeviceNotFetched(a) \/ IceServersFetched(a) \/ LocalDescriptionSet(a)
             \/ OfferRetried(a) \/ RetryWait(a) \/ RemoteDescriptionSet(a)
    BY <1>2, <2>2 DEF DeviceNotFetched, IceServersFetched, LocalDescriptionSet, OfferRetried,
       RetryWait, RemoteDescriptionSet
  <2> QED BY <1>5, <2>1, <2>2
          DEF AttemptStep, LocalDescriptionFails, OfferFails, RemoteDescriptionFails
<1>6. ASSUME NEW a \in Attempts, PeerStep(a) \/ HeartbeatStops(a) PROVE SessionsDrop
  <2>1. CASE PeerFails(a) \/ VideoTrackEnds(a)
    BY <1>2, <1>3, <1>4, <2>1 DEF PeerFails, VideoTrackEnds
  <2>2. CASE \/ VideoTrackArrives(a) \/ ChannelArrives(a) \/ ChannelOpens(a)
             \/ ChannelCloses(a) \/ HeartbeatStops(a)
    BY <1>2, <2>2 DEF VideoTrackArrives, ChannelArrives, ChannelOpens, ChannelCloses, HeartbeatStops
  <2> QED BY <1>6, <2>1, <2>2 DEF PeerStep
<1>7. CASE UserStep
  <2>1. CASE ConnectClick \/ BatchConnect \/ DisconnectClick \/ CancelDisconnect
    BY <1>2, <2>1 DEF ConnectClick, BatchConnect, DisconnectClick, CancelDisconnect, startDeviceStream
  <2>2. CASE ConfirmDisconnect \/ BatchDisconnect
    BY <1>4, <2>2 DEF ConfirmDisconnect, BatchDisconnect
  <2> QED BY <1>7, <2>1, <2>2 DEF UserStep
<1>8. ASSUME NEW k \in Keys, DeviceStep(k) PROVE SessionsDrop
  BY <1>2, <1>3, <1>8 DEF DeviceStep, DeviceOnline, DeviceOffline, DeviceListed
<1>9. CASE DeviceUnlisted
  BY <1>2, <1>3, <1>9 DEF DeviceUnlisted
<1>10. CASE UNCHANGED vars
  BY <1>2, <1>10 DEF vars
<1> QED BY <1>5, <1>6, <1>7, <1>8, <1>9, <1>10 DEF Next

\* A peer that was made stays made, for its key; one that was closed stays closed.
LEMMA PeersStay ==
  ASSUME MapInv, MapStep, NEW a \in Attempts, peer[a] # "none"
  PROVE  /\ peer'[a] # "none" /\ udid'[a] = udid[a]
         /\ peer[a] = "closed" => peer'[a] = "closed"
<1>1. CASE Quiet \/ Strays
  BY <1>1 DEF Quiet, Strays
<1>2. ASSUME NEW k \in Keys, Takes(k)
      PROVE  /\ peer'[a] # "none" /\ udid'[a] = udid[a]
             /\ peer[a] = "closed" => peer'[a] = "closed"
  BY <1>2 DEF Takes
<1>3. ASSUME NEW b \in Attempts, Stores(b)
      PROVE  /\ peer'[a] # "none" /\ udid'[a] = udid[a]
             /\ peer[a] = "closed" => peer'[a] = "closed"
  BY <1>3 DEF Stores, MapInv, TypeInv, ClosableOK
<1> QED BY <1>1, <1>2, <1>3 DEF MapStep

LEMMA AskersKeepPeers ==
  ASSUME MapInv, AskersHavePeers, [Next]_vars PROVE AskersHavePeers'
<1> SUFFICES ASSUME NEW b \in Attempts, at'[b] \in Asking PROVE peer'[b] # "none"
  BY DEF AskersHavePeers
<1> USE DEF pageVars, rtcVars, recVars, runVars, userVars, Asking
<1>1. at \in [Attempts -> Places] /\ peer \in [Attempts -> Peers]
  BY DEF MapInv, TypeInv, RunOK, ClosableOK
<1>2. ASSUME at[b] \in Asking PROVE peer'[b] # "none"
  BY <1>2, EveryStepMoves, PeersStay DEF AskersHavePeers
<1>3. ASSUME NEW a \in Attempts, AttemptStep(a), at[b] \notin Asking PROVE peer'[b] # "none"
  BY <1>1, <1>3 DEF AttemptStep, DeviceFetched, DeviceNotFetched, IceServersFetched,
     LocalDescriptionSet, LocalDescriptionFails, AskOrStop, OfferAnswered, OfferRetried, OfferFails,
     RetryWait, RemoteDescriptionSet, RemoteDescriptionFails, Fails
<1>4. ASSUME NEW a \in Attempts, PeerStep(a) \/ HeartbeatStops(a) PROVE at[b] \in Asking
  BY <1>4 DEF PeerStep, HeartbeatStops, PeerFails, VideoTrackEnds, VideoTrackArrives,
     ChannelArrives, ChannelOpens, ChannelCloses
<1>5. CASE UserStep
  <2>1. ASSUME NEW k, startDeviceStream(k) PROVE at[b] \in Asking
    BY <1>1, <2>1 DEF startDeviceStream
  <2>2. at[b] \in Asking
    BY <1>5, <2>1 DEF UserStep, ConnectClick, BatchConnect, DisconnectClick,
       ConfirmDisconnect, CancelDisconnect, BatchDisconnect
  <2> QED BY <1>2, <2>2
<1>6. ASSUME NEW k \in Keys, DeviceStep(k) PROVE at[b] \in Asking
  BY <1>6 DEF DeviceStep, DeviceOnline, DeviceOffline, DeviceListed
<1>7. CASE DeviceUnlisted \/ UNCHANGED vars
  BY <1>2, <1>7 DEF DeviceUnlisted, vars
<1> QED BY <1>2, <1>3, <1>4, <1>5, <1>6, <1>7 DEF Next

\* The record an answer finds is its own, unless its peer was closed before.
LEMMA AnswerFits ==
  ASSUME MapInv, AskersHavePeers, NoneReplaced, NEW b \in Attempts, OfferAnswered(b),
         \A a \in Attempts : SessionFits(a)
  PROVE  \A a \in Attempts : SessionFits(a)'
<1> SUFFICES ASSUME NEW a \in Attempts PROVE SessionFits(a)'
  OBVIOUS
<1> DEFINE c == activeWebRTCConnections[udid[b]]
<1>1. /\ udid[b] \in Keys /\ peer[b] \in Peers /\ sessionId \in [Attempts -> Holders]
      /\ UNCHANGED <<peer, udid>> /\ peer[b] # "none" /\ sessionId' = SessionsWith(b)
  BY DEF MapInv, TypeInv, RunOK, ClosableOK, OfferAnswered, rtcVars, AskersHavePeers, Asking
<1>2. CASE sessionId'[a] = sessionId[a]
  BY <1>1, <1>2 DEF SessionFits
<1>3. CASE sessionId'[a] # sessionId[a]
  <2>1. c # None /\ a = c /\ sessionId'[a] = b
    BY <1>1, <1>3 DEF SessionsWith
  <2>2. peer[a] = "open" /\ udid[a] = udid[b]
    BY <1>1, <2>1, StoredPeer DEF Stored
  <2>3. b = a \/ peer[b] = "closed"
    BY <1>1, <2>1 DEF NoneReplaced, Peers
  <2> QED BY <1>1, <2>1, <2>2, <2>3 DEF SessionFits
<1> QED BY <1>2, <1>3

LEMMA SessionsKeepFitting ==
  ASSUME MapInv, MapStep, SessionsDrop, \A a \in Attempts : SessionFits(a)
  PROVE  \A a \in Attempts : SessionFits(a)'
<1> SUFFICES ASSUME NEW a \in Attempts, sessionId'[a] # None PROVE SessionFits(a)'
  BY HolderFacts DEF SessionFits
<1> DEFINE s == sessionId[a]
<1>1. s \in Attempts /\ sessionId'[a] = s /\ peer[a] # "none"
  BY HolderFacts DEF SessionsDrop, SessionFits, MapInv, TypeInv, ClosableOK
<1>2. peer'[a] # "none" /\ udid'[a] = udid[a]
  BY <1>1, PeersStay
<1>3. CASE s = a
  BY <1>1, <1>2, <1>3 DEF SessionFits
<1>4. CASE s # a
  <2>1. udid[s] = udid[a] /\ peer[s] = "closed"
    BY <1>1, <1>4, HolderFacts DEF SessionFits
  <2>2. peer'[s] = "closed" /\ udid'[s] = udid[s]
    BY <1>1, <2>1, PeersStay
  <2> QED BY <1>1, <1>2, <2>1, <2>2 DEF SessionFits
<1> QED BY <1>3, <1>4

LEMMA SessionInvKept == ASSUME SessionInv, [Next]_vars PROVE SessionInv'
<1>1. MapInv /\ MapStep /\ RecordInv' /\ AskersHavePeers' /\ (NoneReplaced' => NoneReplaced)
  BY EveryStepMoves, RecordInvKept, AskersKeepPeers, ReplacedForGood DEF SessionInv, RecordInv
<1>2. ASSUME NoneReplaced' PROVE \A a \in Attempts : SessionFits(a)'
  <2>1. AskersHavePeers /\ NoneReplaced /\ \A a \in Attempts : SessionFits(a)
    BY <1>1, <1>2 DEF SessionInv
  <2>2. ASSUME NEW b \in Attempts, OfferAnswered(b) PROVE \A a \in Attempts : SessionFits(a)'
    BY <1>1, <2>1, <2>2, AnswerFits
  <2>3. CASE \A b \in Attempts : ~OfferAnswered(b)
    BY <1>1, <2>1, <2>3, OnlyAnswersGiveSessions, SessionsKeepFitting
  <2> QED BY <2>2, <2>3
<1> QED BY <1>1, <1>2 DEF SessionInv

LEMMA SessionInvInit == Init => SessionInv
<1> SUFFICES ASSUME Init PROVE SessionInv
  OBVIOUS
<1>1. \A a \in Attempts : SessionFits(a)
  BY DEF Init, SessionFits
<1> QED BY <1>1, RecordInvInit DEF Init, SessionInv, AskersHavePeers, Asking

\* ConnectedHasSession for any number of keys, attempts, retries and messages: a channel
\* opens after the answer with its session (app.js:3657), cleanupWebRTCConnection drops
\* both, and only the answer of an attempt that was cleaned up can put another session
\* into the record.
THEOREM SessionsKnown == Spec => []ConnectedHasSession
<1>1. SessionInv => ConnectedHasSession
  <2> SUFFICES ASSUME SessionInv, NoneReplaced, NEW k \in Keys, OpenChannel(k),
                      NEW a \in Attempts, activeWebRTCConnections[k] = a, channel[a] = "open"
               PROVE  \/ sessionId[a] = a
                      \/ /\ sessionId[a] # None /\ udid[sessionId[a]] = k
                         /\ peer[sessionId[a]] = "closed"
    <3>1. SessionInv /\ NoneReplaced => MapInv /\ OwnRecords
      BY DEF SessionInv, RecordInv
    <3> QED BY <3>1, OpenIs DEF ConnectedHasSession
  <2>1. MapInv /\ OwnRecords /\ SessionFits(a)
    BY DEF SessionInv, RecordInv
  <2>2. sessionId[a] # None
    BY <2>1 DEF OwnRecords, Own
  <2>3. udid[a] = k
    BY <2>1, StoredPeer, HolderFacts DEF Stored
  <2> QED BY <2>1, <2>2, <2>3 DEF SessionFits
<1> QED BY <1>1, SessionInvInit, SessionInvKept, PTL DEF Spec
=============================================================================

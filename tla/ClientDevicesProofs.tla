------------------------- MODULE ClientDevicesProofs -------------------------
(***************************************************************************)
(* The boxes of the device list, for any devices, changes on the server,   *)
(* messages, lists and breaks of the socket. That the cards end up as the  *)
(* server's tables are is liveness, which TLC checks.                      *)
(***************************************************************************)
EXTENDS ClientDevices, TLAPS

States == {"none", "online", "offline"}
Load   == [at : {"idle", "sent", "read"}, list : [Devices -> States]]

DrawnTypes ==
  /\ cards \in [Devices -> States] /\ status \in [Devices -> {"online", "offline"}]
  /\ loads \in [Loads -> Load]

Quiet == ~lost /\ IdleLoads = Loads

SectionsRight ==
  \A e \in Endpoints : sections[e] = Mark(InSection(Cards(cards), e), selected)

\* A view that is not drawn yet, or a box that was left as it was, waits for a list.
BoxInv ==
  /\ DrawnTypes
  /\ selected \subseteq Cards(cards)
  /\ selectAll = Mark(Cards(cards), selected)
  /\ Quiet => viewMode = shownMode /\ (shownMode = "sections" => SectionsRight)

LEMMA SentTyped == NoLoad \in Load /\ Sent \in Load
BY DEF Load, NoLoad, Sent, NoList, States

LEMMA LoadSent ==
  ASSUME DrawnTypes, loadDevices
  PROVE  \E l \in Loads : /\ loads[l] = NoLoad /\ loads'[l] = Sent
                          /\ loads' = [loads EXCEPT ![l] = Sent] /\ loads' \in [Loads -> Load]
<1>1. PICK l \in IdleLoads : loads' = [loads EXCEPT ![l] = Sent]
  BY DEF loadDevices
<1>2. l \in Loads /\ loads[l] = NoLoad
  BY DEF IdleLoads
<1>3. loads' \in [Loads -> Load] /\ loads'[l] = Sent
  BY <1>1, <1>2, SentTyped DEF DrawnTypes
<1> QED BY <1>1, <1>2, <1>3

LEMMA LoadBegins ==
  ASSUME DrawnTypes, loadDevices
  PROVE  loads' \in [Loads -> Load] /\ IdleLoads' # Loads
BY LoadSent DEF IdleLoads, Sent, NoLoad

\* Nothing that is drawn changes, and no list ends.
LEMMA NothingDrawn ==
  ASSUME BoxInv, UNCHANGED <<cards, viewMode, shownMode, boxVars>>,
         status' \in [Devices -> {"online", "offline"}], loads' \in [Loads -> Load],
         Quiet' => Quiet
  PROVE  BoxInv'
BY DEF BoxInv, DrawnTypes, SectionsRight, boxVars, Cards, Quiet

LEMMA BoxesChosen ==
  ASSUME BoxInv, NEW chosen \in SUBSET Cards(cards), Choose(chosen)
  PROVE  BoxInv'
<1>1. UNCHANGED <<status, loads, cards, viewMode, shownMode, lost>>
  BY DEF Choose, listVars, serverVars, tableVars
<1>2. selected' = chosen /\ selectAll' = Mark(Cards(cards), chosen)
  BY DEF Choose, updateSelectAllCheckbox
<1>3. ASSUME viewMode = "sections", shownMode = "sections" PROVE SectionsRight'
  <2>1. sections' = [e \in Endpoints |-> Mark(InSection(Cards(cards), e), chosen)]
    BY <1>3 DEF Choose, updateSelectAllCheckbox
  <2> QED BY <1>1, <1>2, <2>1 DEF SectionsRight, Cards
<1>4. Quiet' <=> Quiet
  BY <1>1 DEF Quiet, IdleLoads
<1> QED BY <1>1, <1>2, <1>3, <1>4 DEF BoxInv, DrawnTypes, Cards

LEMMA ListDraws == ASSUME BoxInv, NEW l \in Loads, ListApplied(l) PROVE BoxInv'
<1>1. loads[l] \in Load /\ loads' = [loads EXCEPT ![l] = NoLoad]
  BY DEF ListApplied, BoxInv, DrawnTypes
<1>2. cards' = loads[l].list /\ loads[l].list \in [Devices -> States]
  BY <1>1 DEF ListApplied, Load
<1>3. DrawnTypes'
  BY <1>1, <1>2, SentTyped DEF ListApplied, BoxInv, DrawnTypes, serverVars, tableVars
<1>4. selected' = selected \cap Cards(cards') /\ selectAll' = Mark(Cards(cards'), selected')
  BY DEF ListApplied, updateSelectAllCheckbox
<1>5. viewMode' = shownMode'
  BY DEF ListApplied
<1>6. ASSUME shownMode' = "sections" PROVE SectionsRight'
  <2>1. sections' = [e \in Endpoints |-> Mark(InSection(Cards(cards'), e), selected')]
    BY <1>6 DEF ListApplied, updateSelectAllCheckbox
  <2> QED BY <2>1 DEF SectionsRight, Cards
<1> QED BY <1>3, <1>4, <1>5, <1>6 DEF BoxInv, Cards

LEMMA StatusDraws ==
  ASSUME BoxInv, NEW s \in {"online", "offline"}, updateDeviceStatus(s)
  PROVE  BoxInv'
<1> DEFINE d == Head(mail).device
<1>1. cards' = IF cards[d] # "none" THEN [cards EXCEPT ![d] = s] ELSE cards
  BY DEF updateDeviceStatus
<1>2. UNCHANGED <<status, viewMode, shownMode, lost, boxVars>>
  BY DEF updateDeviceStatus, Took, serverVars, tableVars
<1>3. cards' \in [Devices -> States]
  BY <1>1 DEF BoxInv, DrawnTypes, States
<1>4. Cards(cards') = Cards(cards)
  BY <1>1 DEF Cards, BoxInv, DrawnTypes
<1>5. loads' \in [Loads -> Load] /\ (Quiet' => Quiet)
  <2>1. lost' = lost
    BY <1>2
  <2>2. CASE loadDevices
    BY <2>2, LoadBegins DEF BoxInv, Quiet
  <2>3. CASE UNCHANGED loads
    BY <2>1, <2>3 DEF BoxInv, DrawnTypes, Quiet, IdleLoads
  <2> QED BY <2>2, <2>3 DEF updateDeviceStatus, ListAsked
<1>6. SectionsRight => SectionsRight'
  BY <1>2, <1>4 DEF SectionsRight, boxVars, Cards
<1>7. selected' \subseteq Cards(cards') /\ selectAll' = Mark(Cards(cards'), selected')
  BY <1>2, <1>4 DEF BoxInv, boxVars
<1> QED BY <1>2, <1>3, <1>5, <1>6, <1>7 DEF BoxInv, DrawnTypes, Cards

\* The server and its hub leave the page to what it fetches and is told.
LEMMA ServerKeepsPage ==
  ASSUME ServerStep, status \in [Devices -> {"online", "offline"}]
  PROVE  UNCHANGED browserVars /\ status' \in [Devices -> {"online", "offline"}]
<1> USE DEF tableVars
<1>1. ASSUME NEW e \in Endpoints, WatcherStep(e)
      PROVE  UNCHANGED browserVars /\ status' \in [Devices -> {"online", "offline"}]
  <2>1. CASE EndpointLost(e)
    BY <2>1 DEF EndpointLost, AdbEvent
  <2>2. ASSUME NEW d, Discovered(d) \/ Disconnected(d)
        PROVE  UNCHANGED browserVars /\ status' \in [Devices -> {"online", "offline"}]
    BY <2>2 DEF Discovered, Disconnected, AdbEvent
  <2>3. ASSUME NEW d, NEW s \in {"online", "offline"}, StatusChanges(d, s)
        PROVE  UNCHANGED browserVars /\ status' \in [Devices -> {"online", "offline"}]
    BY <2>3 DEF StatusChanges, AdbEvent
  <2> QED BY <1>1, <2>1, <2>2, <2>3 DEF WatcherStep
<1>2. ASSUME NEW e \in Endpoints, WatcherTells(e)
      PROVE  UNCHANGED browserVars /\ status' \in [Devices -> {"online", "offline"}]
  <2>1. CASE Say(e) \/ Tell(e) \/ LostTell(e)
    BY <2>1 DEF Say, Tell, LostTell
  <2>2. CASE SayDropped(e)
    BY <2>2 DEF SayDropped
  <2>3. CASE LostSay(e)
    BY <2>3 DEF LostSay
  <2>4. CASE EndpointGone(e)
    BY <2>4 DEF EndpointGone, RemoveEndpoint
  <2> QED BY <1>2, <2>1, <2>2, <2>3, <2>4 DEF WatcherTells
<1>3. ASSUME NEW e \in Endpoints, HandleRemoveEndpoint(e) \/ HandleAddEndpoint(e)
      PROVE  UNCHANGED browserVars /\ status' \in [Devices -> {"online", "offline"}]
  BY <1>3 DEF HandleRemoveEndpoint, HandleAddEndpoint, Request, RemoveEndpoint
<1>4. CASE AdminTells
  BY <1>4 DEF AdminTells, SetWSHub, BroadcastEndpointsChanged
<1>5. CASE TickerTells
  BY <1>5 DEF TickerTells, Tick, TickSay, TickTell
<1> QED BY <1>1, <1>2, <1>3, <1>4, <1>5 DEF ServerStep

LEMMA BoxInvKept == ASSUME BoxInv, [Next]_vars PROVE BoxInv'
<1> USE DEF serverVars, tableVars, socketVars, listVars, hubVars, pageVars
<1>1. DrawnTypes
  BY DEF BoxInv
<1>2. ASSUME UNCHANGED <<status, cards, viewMode, shownMode, boxVars>>, loadDevices
      PROVE  BoxInv'
  BY <1>1, <1>2, LoadBegins, NothingDrawn DEF DrawnTypes, Quiet
<1>3. ASSUME UNCHANGED <<status, cards, viewMode, shownMode, boxVars, loads, lost>>
      PROVE  BoxInv'
  BY <1>1, <1>3, NothingDrawn DEF DrawnTypes, Quiet, IdleLoads
<1>4. CASE ServerStep
  <2>1. UNCHANGED browserVars /\ status' \in [Devices -> {"online", "offline"}]
    BY <1>1, <1>4, ServerKeepsPage DEF DrawnTypes
  <2> QED BY <1>1, <2>1, NothingDrawn DEF browserVars, DrawnTypes, Quiet, IdleLoads
<1>5. CASE SocketCloses \/ initWebSocket \/ SocketFails
  BY <1>3, <1>5 DEF SocketCloses, initWebSocket, SocketFails
<1>19. CASE Upgrade \/ RegisterClient \/ SocketOpens
  BY <1>3, <1>19 DEF Upgrade, RegisterClient, SocketOpens, browserVars
<1>6. CASE OnOpen
  BY <1>2, <1>6 DEF OnOpen
<1>7. CASE EndpointsChanged
  BY <1>2, <1>7 DEF EndpointsChanged, Took
<1>8. CASE updateDeviceStatus("online") \/ updateDeviceStatus("offline")
  BY <1>8, StatusDraws
<1>9. ASSUME NEW chosen \in SUBSET Cards(cards), Choose(chosen) PROVE BoxInv'
  BY <1>9, BoxesChosen
<1>10. selected \subseteq Cards(cards)
  BY DEF BoxInv
<1>11. CASE SelectAllClick
  BY <1>9, <1>11 DEF SelectAllClick
<1>12. ASSUME NEW d \in Devices, toggleDeviceSelection(d) PROVE BoxInv'
  BY <1>9, <1>10, <1>12 DEF toggleDeviceSelection
<1>13. ASSUME NEW e \in Endpoints, SectionClick(e) PROVE BoxInv'
  <2>1. InSection(Cards(cards), e) \subseteq Cards(cards)
    BY DEF InSection
  <2> QED BY <1>9, <1>10, <1>13, <2>1 DEF SectionClick
<1>14. CASE handleRefreshDevices
  BY <1>2, <1>14 DEF handleRefreshDevices
<1>15. CASE ViewModeClick
  <2>1. loads' \in [Loads -> Load] /\ ~Quiet'
    BY <1>1, <1>15, LoadBegins DEF ViewModeClick, Quiet
  <2> QED BY <1>15, <2>1 DEF ViewModeClick, BoxInv, DrawnTypes, boxVars, Cards
<1>16. ASSUME NEW l \in Loads, ListRead(l) PROVE BoxInv'
  <2> DEFINE L == [d \in Devices |-> IF d \in listed THEN status[d] ELSE "none"]
  <2>1. /\ loads[l] \in Load /\ loads[l].at = "sent"
        /\ loads' = [loads EXCEPT ![l] = [at |-> "read", list |-> L]]
    BY <1>1, <1>16 DEF ListRead, DrawnTypes
  <2>2. [at |-> "read", list |-> L] \in Load
    <3>1. L \in [Devices -> States]
      BY <1>1 DEF DrawnTypes, States
    <3> QED BY <3>1 DEF Load
  <2>3. loads' \in [Loads -> Load]
    BY <1>1, <2>1, <2>2 DEF DrawnTypes
  <2>4. IdleLoads' # Loads
    <3>1. loads'[l] # NoLoad
      BY <1>1, <2>1 DEF DrawnTypes, NoLoad
    <3> QED BY <3>1 DEF IdleLoads
  <2> QED BY <1>1, <1>16, <2>3, <2>4, NothingDrawn DEF ListRead, DrawnTypes, Quiet
<1>17. ASSUME NEW l \in Loads, ListFails(l) PROVE BoxInv'
  <2>1. loads' \in [Loads -> Load] /\ ~Quiet'
    BY <1>1, <1>17, SentTyped DEF ListFails, DrawnTypes, Quiet
  <2> QED BY <1>1, <1>17, <2>1, NothingDrawn DEF ListFails, DrawnTypes
<1>18. CASE UNCHANGED vars
  BY <1>3, <1>18 DEF vars
<1> QED BY <1>4, <1>5, <1>6, <1>7, <1>8, <1>11, <1>12, <1>13, <1>14, <1>15, <1>16, <1>17, <1>18,
           <1>19, ListDraws DEF Next, SocketStep, Reconnects, MessageTaken, UserStep

LEMMA InitBoxInv == ASSUME Init PROVE BoxInv
<1>1. DrawnTypes
  BY DevicesAssumption, SentTyped DEF Init, DrawnTypes, States, NoList
<1>2. Cards(cards) = {}
  BY DEF Init, Cards, NoList
<1>3. ~Quiet
  <2>1. 1 \in Loads
    BY DevicesAssumption DEF Loads
  <2> QED BY <2>1 DEF Init, Quiet, IdleLoads, Sent, NoLoad
<1> QED BY <1>1, <1>2, <1>3 DEF Init, BoxInv, Mark

\* BoxesTruthful for any devices, endpoints and lists: updateSelectAllCheckbox is
\* called wherever the cards or the selection change (app.js:594, 792, 897, 1075),
\* and a view that was switched waits for its list.
THEOREM BoxesSayWhatIsSelected == Spec => []BoxesTruthful
<1>1. Init => BoxInv
  BY InitBoxInv
<1>2. BoxInv => BoxesTruthful
  BY DEF BoxInv, BoxesTruthful, Quiet, SectionsRight
<1> QED BY <1>1, <1>2, BoxInvKept, PTL DEF Spec
=============================================================================

--------------------------- MODULE ClientDevices ---------------------------
(***************************************************************************)
(* The device list from the server to the browser. On the server the       *)
(* tables of the endpoints' device managers (internal/device), the         *)
(* goroutines that tell the hub what changed (the watchers, the ticker and *)
(* the endpoint callbacks of main.go, the handlers of internal/api), and   *)
(* the hub with the one client that is this page (internal/websocket). In  *)
(* the page (assets/web/static/js/app.js) the WebSocket, lists fetched     *)
(* without an order, the cards drawn from both, and what is selected.      *)
(*                                                                         *)
(* Endpoints have devices of different serials. Sorting, names, transport  *)
(* numbers and the panel of the endpoints are left out.                    *)
(***************************************************************************)
EXTENDS Naturals, FiniteSets, Sequences

CONSTANTS
  Devices,
  EndpointOf,   \* device -> its endpoint
  MaxLoads,     \* calls of loadDevices under way at once
  SendCap,      \* messages the hub lets a client be behind, 256 in the code
  Budgets       \* what may happen: the devices adb ever has, its events and requests
                \* of an administrator (changes), breaks of the WebSocket and lists
                \* that fail (outages), and what the user does (clicks)

ASSUME DevicesAssumption ==
  /\ IsFiniteSet(Devices) /\ EndpointOf = [d \in Devices |-> EndpointOf[d]]
  /\ MaxLoads \in Nat \ {0} /\ SendCap \in Nat \ {0}
  /\ Budgets \subseteq [devices : SUBSET Devices, changes : Nat, outages : Nat, clicks : Nat]

Endpoints == {EndpointOf[d] : d \in Devices}
On(e)     == {d \in Devices : EndpointOf[d] = e}
Loads     == 1..MaxLoads
NoList    == [d \in Devices |-> "none"]
NoLoad    == [at |-> "idle", list |-> NoList]
Sent      == [at |-> "sent", list |-> NoList]

VARIABLES
  managed,   \* endpoints UnifiedDeviceManager has a device manager for
  wsHub,     \* those whose manager has the hub
  listed,    \* devices in the tables of the managers
  status,    \* device -> Status of its latest Device object
  watcher,   \* endpoint -> what its watcher goroutine has to tell
  admin,     \* what a handler of the endpoints has to tell, or does to one
  round,     \* device -> the object of it the ticker has to tell of
  said,      \* what the ticker waits to hand to the hub
  budget,    \* what may still happen
  client,    \* the page in the hub
  mail,      \* messages on the WebSocket
  ws,
  wsReconnectPending,
  loads,     \* calls of loadDevices
  cards,     \* device -> status of its card, or "none"
  selected,  \* devices whose card is selected
  viewMode,  \* devicesListViewMode
  shownMode, \* the view the list was last drawn in
  selectAll, \* the box for all devices
  sections,  \* endpoint -> the box of its section
  lost       \* a list failed since one was last drawn

tableVars  == <<managed, wsHub, listed, status>>
tellerVars == <<watcher, admin, round, said>>
serverVars == <<tableVars, tellerVars>>
hubVars    == <<client, mail>>
pageVars   == <<ws, wsReconnectPending>>
socketVars == <<hubVars, pageVars>>
listVars   == <<cards, shownMode, viewMode, lost>>
boxVars    == <<selected, selectAll, sections>>
browserVars == <<pageVars, loads, listVars, boxVars>>
vars       == <<serverVars, socketVars, loads, listVars, boxVars, budget>>

\* A watcher between two events; after a change of the status of d, or after d has
\* left the table, which is to be told n times; with a status to hand to the hub;
\* or giving up its endpoint, with devices to tell of.
Idle           == [at |-> "idle"]
Changed(d)     == [at |-> "changed", of |-> d]
Dropped(d, n)  == [at |-> "dropped", of |-> d, n |-> n]
Says(d, s, n)  == [at |-> "says", of |-> d, status |-> s, n |-> n]
Losing(D)      == [at |-> "losing", todo |-> D]
LostSays(d, D) == [at |-> "lostSays", of |-> d, todo |-> D]

NoWord == [of |-> "nothing"]

Spend(what) == budget[what] > 0 /\ budget' = [budget EXCEPT ![what] = @ - 1]

\* main.go has set the endpoints up; initWebSocket and loadDevices have been called.
Init ==
  /\ budget \in Budgets
  /\ managed = {EndpointOf[d] : d \in budget.devices} /\ wsHub = managed
  /\ listed \in SUBSET budget.devices /\ status = [d \in Devices |-> "online"]
  /\ watcher = [e \in Endpoints |-> Idle] /\ admin = Idle
  /\ round = [d \in Devices |-> "none"] /\ said = NoWord
  /\ client = "none" /\ mail = <<>>
  /\ ws = "connecting" /\ wsReconnectPending = FALSE
  /\ loads = [l \in Loads |-> IF l = 1 THEN Sent ELSE NoLoad]
  /\ cards = NoList
  /\ viewMode = "sections" /\ shownMode = "single-grid"
  /\ selected = {} /\ selectAll = "none" /\ sections = [e \in Endpoints |-> "none"]
  /\ lost = FALSE

-----------------------------------------------------------------------------
(* The hub. Its channel has no room: whoever broadcasts waits for Run.     *)

\* A client whose channel is full is dropped; what it has got is still written.
Broadcast(msg) ==
  IF client # "registered"
  THEN UNCHANGED <<hubVars, budget>>
  ELSE \/ /\ Len(mail) < SendCap
          /\ mail' = Append(mail, msg)
          /\ UNCHANGED <<client, budget>>
       \/ /\ Len(mail) = SendCap /\ Spend("outages")
          /\ client' = "dropped"
          /\ UNCHANGED mail

DeviceStatus(d, s) == [type |-> s, device |-> d]

-----------------------------------------------------------------------------
(* A watcher, in its goroutine. It changes the table under the mutex, and  *)
(* looks for the hub and reads the status anew after that. One that was    *)
(* stopped ends what it does; the watcher of an endpoint that is added     *)
(* again begins after it.                                                  *)

AdbEvent(e) ==
  /\ e \in managed /\ watcher[e] = Idle /\ Spend("changes")
  /\ UNCHANGED <<managed, wsHub, admin, said, hubVars, browserVars>>

Goes(e, w) == watcher' = [watcher EXCEPT ![e] = w]

\* UpdateDeviceStatus. An offline or unauthorized device stays in the table.
StatusChanges(d, s) ==
  /\ AdbEvent(EndpointOf[d]) /\ d \in listed
  /\ status' = [status EXCEPT ![d] = s]
  /\ Goes(EndpointOf[d], Changed(d))
  /\ UNCHANGED <<listed, round>>

\* RegisterDevice, of the watcher or of the discovery that goes before it. The
\* object is a new one: a ticker under way keeps the old one with its status.
Discovered(d) ==
  /\ AdbEvent(EndpointOf[d]) /\ d \in budget.devices \ listed
  /\ listed' = listed \cup {d}
  /\ status' = [status EXCEPT ![d] = "online"]
  /\ round' = [round EXCEPT ![d] = IF @ = "object" THEN status[d] ELSE @]
  /\ Goes(EndpointOf[d], Changed(d))

\* RemoveDevice broadcasts, and so does its caller.
Disconnected(d) ==
  /\ AdbEvent(EndpointOf[d]) /\ d \in listed
  /\ listed' = listed \ {d}
  /\ Goes(EndpointOf[d], Dropped(d, 2))
  /\ UNCHANGED <<status, round>>

Say(e) ==
  /\ watcher[e].at = "changed"
  /\ Goes(e, IF e \in wsHub THEN Says(watcher[e].of, status[watcher[e].of], 0) ELSE Idle)
  /\ UNCHANGED <<tableVars, admin, round, said, hubVars, browserVars, budget>>

\* A device that has left the table becomes offline now.
SayDropped(e) ==
  LET w == watcher[e] IN
  /\ w.at = "dropped"
  /\ IF e \in wsHub
     THEN /\ status' = [status EXCEPT ![w.of] = "offline"]
          /\ Goes(e, Says(w.of, "offline", w.n - 1))
     ELSE /\ UNCHANGED status
          /\ Goes(e, IF w.n = 1 THEN Idle ELSE Dropped(w.of, w.n - 1))
  /\ UNCHANGED <<managed, wsHub, listed, admin, round, said, hubVars, browserVars, budget>>

Tell(e) ==
  LET w == watcher[e] IN
  /\ w.at = "says"
  /\ Broadcast(DeviceStatus(w.of, w.status))
  /\ Goes(e, IF w.n = 0 THEN Idle ELSE Dropped(w.of, w.n))
  /\ UNCHANGED <<tableVars, admin, round, said, browserVars>>

\* adb is lost for good and the endpoint has retry=0: the callback of main.go tells
\* of its devices as offline before it takes them off the list.
EndpointLost(e) ==
  /\ AdbEvent(e)
  /\ Goes(e, Losing(listed \cap On(e)))
  /\ UNCHANGED <<listed, status, round>>

LostSay(e) ==
  /\ watcher[e].at = "losing"
  /\ \E d \in watcher[e].todo :
       /\ status' = [status EXCEPT ![d] = "offline"]
       /\ Goes(e, LostSays(d, watcher[e].todo \ {d}))
  /\ UNCHANGED <<managed, wsHub, listed, admin, round, said, hubVars, browserVars, budget>>

LostTell(e) ==
  /\ watcher[e].at = "lostSays"
  /\ Broadcast(DeviceStatus(watcher[e].of, "offline"))
  /\ Goes(e, Losing(watcher[e].todo))
  /\ UNCHANGED <<tableVars, admin, round, said, browserVars>>

\* The devices of an endpoint go with its manager.
RemoveEndpoint(e) ==
  /\ managed' = managed \ {e} /\ wsHub' = wsHub \ {e}
  /\ listed' = listed \ On(e)
  /\ UNCHANGED status

EndpointGone(e) ==
  /\ watcher[e].at = "losing" /\ watcher[e].todo = {}
  /\ RemoveEndpoint(e)
  /\ Goes(e, Idle)
  /\ UNCHANGED <<admin, round, said, hubVars, browserVars, budget>>

-----------------------------------------------------------------------------
(* The handlers of the endpoints, one request at a time, and the ticker.   *)

Request ==
  /\ admin = Idle /\ Spend("changes")
  /\ UNCHANGED <<watcher, round, said, hubVars, browserVars>>

HandleRemoveEndpoint(e) ==
  /\ Request /\ e \in managed
  /\ RemoveEndpoint(e)
  /\ admin' = [at |-> "tells"]

\* The manager discovers devices before it has the hub.
HandleAddEndpoint(e) ==
  /\ Request /\ e \notin managed
  /\ managed' = managed \cup {e}
  /\ admin' = [at |-> "adds", of |-> e]
  /\ UNCHANGED <<wsHub, listed, status>>

SetWSHub ==
  /\ admin.at = "adds"
  /\ wsHub' = wsHub \cup ({admin.of} \cap managed)
  /\ admin' = [at |-> "tells"]
  /\ UNCHANGED <<managed, listed, status, watcher, round, said, hubVars, browserVars, budget>>

BroadcastEndpointsChanged ==
  /\ admin.at = "tells" /\ admin' = Idle
  /\ Broadcast([type |-> "endpoints_changed"])
  /\ UNCHANGED <<tableVars, watcher, round, said, browserVars>>

InRound == {d \in Devices : round[d] # "none"}

\* Every five seconds: of every device in the tables, one after the other.
Tick ==
  /\ InRound = {} /\ said = NoWord
  /\ round' = [d \in Devices |-> IF d \in listed THEN "object" ELSE "none"]
  /\ UNCHANGED <<tableVars, watcher, admin, said, hubVars, browserVars, budget>>

TickSay ==
  /\ said = NoWord
  /\ \E d \in InRound :
       /\ said' = [of |-> d, status |-> IF round[d] = "object" THEN status[d] ELSE round[d]]
       /\ round' = [round EXCEPT ![d] = "none"]
  /\ UNCHANGED <<tableVars, watcher, admin, hubVars, browserVars, budget>>

TickTell ==
  /\ said # NoWord /\ said' = NoWord
  /\ Broadcast(DeviceStatus(said.of, said.status))
  /\ UNCHANGED <<tableVars, watcher, admin, round, browserVars>>

-----------------------------------------------------------------------------
(* loadDevices.                                                            *)

IdleLoads == {l \in Loads : loads[l] = NoLoad}

\* The requests leave; nothing numbers the calls.
loadDevices ==
  /\ IdleLoads # {}
  /\ loads' = [loads EXCEPT ![CHOOSE l \in IdleLoads : TRUE] = Sent]

\* The server answers with its tables, of devices that are offline too.
ListRead(l) ==
  /\ loads[l].at = "sent"
  /\ loads' = [loads EXCEPT ![l] =
       [at |-> "read", list |-> [d \in Devices |-> IF d \in listed THEN status[d] ELSE "none"]]]
  /\ UNCHANGED <<serverVars, socketVars, listVars, boxVars, budget>>

Mark(shown, marked) ==
  IF shown \cap marked = {} THEN "none" ELSE IF shown \subseteq marked THEN "all" ELSE "some"

InSection(shown, e) == {d \in shown : EndpointOf[d] = e}

\* The boxes for the cards of shown, of which chosen are selected, in a page whose
\* list is drawn in drawn.
updateSelectAllBarOnly(shown, chosen, drawn) ==
  selectAll' = Mark(shown, chosen) /\ UNCHANGED sections
updateSelectAllCheckbox(shown, chosen, drawn) ==
  /\ selectAll' = Mark(shown, chosen)
  /\ sections' = IF viewMode = "sections" /\ drawn = "sections"
                 THEN [e \in Endpoints |-> Mark(InSection(shown, e), chosen)]
                 ELSE sections

Cards(shown) == {d \in Devices : shown[d] # "none"}

\* renderDevicesList, fillDeviceGrid and removeDeviceCard: a listed device has a card
\* with its status, the cards of the others go.
ListApplied(l) ==
  /\ loads[l].at = "read"
  /\ loads' = [loads EXCEPT ![l] = NoLoad]
  /\ cards' = loads[l].list
  /\ shownMode' = viewMode
  /\ selected' = selected \cap Cards(cards')
  /\ updateSelectAllCheckbox(Cards(cards'), selected', shownMode')
  /\ lost' = FALSE
  /\ UNCHANGED <<serverVars, socketVars, viewMode, budget>>

\* The list stays as it is.
ListFails(l) ==
  /\ loads[l].at = "sent" /\ Spend("outages")
  /\ loads' = [loads EXCEPT ![l] = NoLoad]
  /\ lost' = TRUE
  /\ UNCHANGED <<serverVars, socketVars, cards, shownMode, viewMode, boxVars>>

-----------------------------------------------------------------------------
(* The WebSocket.                                                          *)

\* The network breaks, or the hub dropped the client and all it had is written.
\* onclose walks over the cards as well, but hands updateDeviceStatus the apiUdid of
\* each, with its transport number, where a serial is looked for: it finds none.
SocketCloses ==
  /\ ws = "open"
  /\ \/ Spend("outages")
     \/ client = "dropped" /\ mail = <<>> /\ UNCHANGED budget
  /\ client' = "none" /\ mail' = <<>>
  /\ ws' = "closed" /\ wsReconnectPending' = TRUE
  /\ UNCHANGED <<serverVars, loads, listVars, boxVars>>

\* Five seconds later.
initWebSocket ==
  /\ ws = "closed" /\ ws' = "connecting"
  /\ UNCHANGED <<serverVars, hubVars, wsReconnectPending, loads, listVars, boxVars, budget>>

SocketFails ==
  /\ ws = "connecting" /\ Spend("outages")
  /\ client' = "none" /\ mail' = <<>>
  /\ ws' = "closed" /\ wsReconnectPending' = TRUE
  /\ UNCHANGED <<serverVars, loads, listVars, boxVars>>

\* The upgrade answers the page before handleWebSocket registers the client.
Upgrade ==
  /\ ws = "connecting" /\ client = "none" /\ client' = "upgraded"
  /\ UNCHANGED <<serverVars, mail, browserVars, budget>>

RegisterClient ==
  /\ client = "upgraded" /\ client' = "registered"
  /\ UNCHANGED <<serverVars, mail, browserVars, budget>>

SocketOpens ==
  /\ ws = "connecting" /\ client # "none" /\ ws' = "open"
  /\ UNCHANGED <<serverVars, hubVars, wsReconnectPending, loads, listVars, boxVars, budget>>

OnOpen ==
  /\ ws = "open" /\ wsReconnectPending
  /\ wsReconnectPending' = FALSE
  /\ loadDevices
  /\ UNCHANGED <<serverVars, hubVars, ws, listVars, boxVars, budget>>

\* A message waits for onopen.
Message(type) ==
  ws = "open" /\ mail # <<>> /\ ~wsReconnectPending /\ Head(mail).type = type
Took ==
  /\ mail' = Tail(mail)
  /\ UNCHANGED <<serverVars, client, pageVars, shownMode, viewMode, lost, boxVars, budget>>

NoListAsked(d, s) == UNCHANGED loads
\* The page has not heard of the device: its list is old.
ListAsked(d, s) ==
  IF cards[d] = "none" /\ s = "online" THEN loadDevices ELSE UNCHANGED loads

updateDeviceStatus(s) ==
  LET d == Head(mail).device IN
  /\ Message(s)
  /\ cards' = IF cards[d] # "none" THEN [cards EXCEPT ![d] = s] ELSE cards
  /\ ListAsked(d, s)
  /\ Took

EndpointsChanged ==
  /\ Message("endpoints_changed")
  /\ loadDevices
  /\ UNCHANGED cards
  /\ Took

-----------------------------------------------------------------------------
(* The user.                                                               *)

Choose(chosen) ==
  /\ Spend("clicks")
  /\ selected' = chosen
  /\ updateSelectAllCheckbox(Cards(cards), chosen, shownMode)
  /\ UNCHANGED <<serverVars, socketVars, loads, listVars>>

toggleDeviceSelection(d) ==
  /\ d \in Cards(cards)
  /\ Choose(IF d \in selected THEN selected \ {d} ELSE selected \cup {d})

\* A box that is not ticked, or only half, becomes ticked by the click.
SelectAllClick ==
  /\ Cards(cards) # {}
  /\ Choose(IF selectAll = "all" THEN {} ELSE Cards(cards))

SectionClick(e) ==
  LET shown == InSection(Cards(cards), e) IN
  /\ shownMode = "sections" /\ shown # {}
  /\ Choose(IF sections[e] = "all" THEN selected \ shown ELSE selected \cup shown)

handleRefreshDevices ==
  /\ Spend("clicks")
  /\ loadDevices
  /\ UNCHANGED <<serverVars, socketVars, listVars, boxVars>>

\* The list is drawn anew only when it has been fetched.
ViewModeClick ==
  /\ viewMode' = IF viewMode = "sections" THEN "single-grid" ELSE "sections"
  /\ Spend("clicks")
  /\ loadDevices
  /\ UNCHANGED <<serverVars, socketVars, cards, shownMode, lost, boxVars>>

-----------------------------------------------------------------------------
WatcherStep(e) ==
  \/ EndpointLost(e)
  \/ \E d \in On(e) : Discovered(d) \/ Disconnected(d) \/ \E s \in {"online", "offline"} : StatusChanges(d, s)

WatcherTells(e) == Say(e) \/ SayDropped(e) \/ Tell(e) \/ LostSay(e) \/ LostTell(e) \/ EndpointGone(e)

AdminTells == SetWSHub \/ BroadcastEndpointsChanged
TickerTells == Tick \/ TickSay \/ TickTell

ServerStep ==
  \/ \E e \in Endpoints : \/ WatcherStep(e) \/ WatcherTells(e)
                          \/ HandleRemoveEndpoint(e) \/ HandleAddEndpoint(e)
  \/ AdminTells \/ TickerTells

MessageTaken == updateDeviceStatus("online") \/ updateDeviceStatus("offline") \/ EndpointsChanged

Reconnects == initWebSocket \/ Upgrade \/ RegisterClient \/ SocketOpens \/ OnOpen

SocketStep == SocketCloses \/ SocketFails \/ Reconnects \/ MessageTaken

UserStep ==
  \/ SelectAllClick \/ handleRefreshDevices \/ ViewModeClick
  \/ \E d \in Devices : toggleDeviceSelection(d)
  \/ \E e \in Endpoints : SectionClick(e)

Next ==
  \/ ServerStep \/ SocketStep \/ UserStep
  \/ \E l \in Loads : ListRead(l) \/ ListApplied(l) \/ ListFails(l)

Spec == Init /\ [][Next]_vars

\* Goroutines run, the ticker ticks, requests are answered, a closed socket is
\* opened again after its timer, and the page takes what it is sent.
Fairness ==
  /\ \A e \in Endpoints : WF_vars(WatcherTells(e))
  /\ WF_vars(AdminTells) /\ WF_vars(TickerTells)
  /\ WF_vars(SocketCloses /\ client = "dropped")
  /\ WF_vars(initWebSocket) /\ WF_vars(Upgrade) /\ WF_vars(RegisterClient)
  /\ WF_vars(SocketOpens) /\ WF_vars(OnOpen) /\ WF_vars(MessageTaken)
  /\ \A l \in Loads : WF_vars(ListRead(l)) /\ WF_vars(ListApplied(l))

FairSpec == Spec /\ Fairness
-----------------------------------------------------------------------------
(* What the list promises.                                                 *)

\* The box for all devices says what is selected, while lists are applied and devices
\* go. So do the boxes of the sections, but for a click while the view is switched
\* there and back (app.js:1108): until the lists asked for by then are drawn, or the
\* next one where one of them failed.
BoxesTruthful ==
  /\ selected \subseteq Cards(cards)
  /\ selectAll = Mark(Cards(cards), selected)
  /\ shownMode = "sections" /\ ~lost /\ IdleLoads = Loads
       => \A e \in Endpoints : sections[e] = Mark(InSection(Cards(cards), e), selected)

\* A card says what the server's table says of its device, and a device that is
\* online has a card.
CardRight(d) ==
  d \in listed => /\ status[d] = "online" => cards[d] = "online"
                  /\ status[d] = "offline" => cards[d] # "online"

\* Whatever was told to nobody, too early, twice, out of order or to a page that was
\* dropped, and whatever list was overtaken by a message: the page ends up with what
\* the server has of the devices it lists. The ticker and the list that a message
\* for a missing card asks for do it; of devices that are not listed any more nobody
\* speaks again, and their cards are not part of this.
CardsCatchUp == <>[](\A d \in Devices : CardRight(d))
=============================================================================

---------------------------- MODULE ClientFocus ----------------------------
(***************************************************************************)
(* Full screen and the keyboard of the browser (assets/web/static/js/      *)
(* app.js): which device's control bars are in the full-screen view, and   *)
(* whether a key goes to a shell window, to a device or nowhere, while     *)
(* devices connect, disconnect and are plugged in anew.                    *)
(*                                                                         *)
(* The apiUdid of a device carries the transport number adb gives it, a    *)
(* new one each time it is plugged in. Cards stay in the page. The view    *)
(* covers the page (style.css:724): behind it nothing is clicked. Pictures *)
(* and layout are left out, and so is the sync mode: see ClientInput.      *)
(***************************************************************************)
EXTENDS Naturals, FiniteSets

CONSTANTS
  Devices,
  None,
  MaxTransport, \* transport numbers of a device
  MaxShells     \* shell windows opened

Udids  == Devices \X (1..MaxTransport)

ASSUME FocusAssumption ==
  None \notin Devices \cup Udids /\ MaxTransport \in Nat \ {0} /\ MaxShells \in Nat

Shells == 1..MaxShells

VARIABLES
  deviceRegistry,  \* device -> its transport number
  connections,     \* apiUdids with an entry in activeWebRTCConnections
  open,            \* those with an open data channel
  fullscreen,      \* currentFullscreenDeviceUDID
  active,          \* currentActiveDeviceUDID
  activeShell,     \* currentActiveShellWindow
  shellWindowCount,
  windows,         \* shell windows that are not closed
  shellWs,         \* of them, those whose WebSocket is open
  bottomPanel,     \* device -> where its bar of three keys is
  rightPanel,      \* device -> where its side bar is
  held             \* apiUdids whose channel was last told that the key is down

connectionVars == <<deviceRegistry, connections, open>>
panelVars      == <<fullscreen, bottomPanel, rightPanel>>
shellVars      == <<shellWindowCount, windows, shellWs>>
routeVars      == <<active, activeShell>>
vars           == <<connectionVars, panelVars, shellVars, routeVars, held>>

Init ==
  /\ deviceRegistry = [d \in Devices |-> 1]
  /\ connections = {} /\ open = {} /\ fullscreen = None /\ active = None
  /\ activeShell = None /\ shellWindowCount = 0 /\ windows = {} /\ shellWs = {}
  /\ bottomPanel = [d \in Devices |-> "card"] /\ rightPanel = [d \in Devices |-> "card"]
  /\ held = {}

-----------------------------------------------------------------------------
(* The control bars.                                                       *)

getApiUdid(d) == <<d, deviceRegistry[d]>>

\* The device an apiUdid belongs to by now, if any.
Owners(u) == {d \in Devices : getApiUdid(d) = u}

\* The bars are found by the device, and focus-controls is emptied by assigning
\* innerHTML: a bar still in it is gone for good.
Emptied(bottoms) == [d \in Devices |-> IF bottoms[d] = "view" THEN "lost" ELSE bottoms[d]]

HeaderKept(u) == [d \in Devices |-> IF d \in Owners(u) THEN "view" ELSE rightPanel[d]]
HeaderFor(u)  == [d \in Devices |-> IF d \in Owners(u) THEN "view" ELSE "card"]

\* First every side bar in the header goes back to its card.
createFullscreenControls(u) ==
  IF Owners(u) = {}
  THEN UNCHANGED <<bottomPanel, rightPanel>>
  ELSE /\ rightPanel' = HeaderFor(u)
       /\ bottomPanel' = [d \in Devices |->
            IF d \in Owners(u) /\ bottomPanel[d] # "lost" THEN "view"
                                                         ELSE Emptied(bottomPanel)[d]]

\* The view of u is drawn again after its connection came or went.
updateFullscreen(u) ==
  IF fullscreen = u THEN createFullscreenControls(u) ELSE UNCHANGED <<bottomPanel, rightPanel>>

\* The bars of u as they are once it has given them back.
RestoredNone(bars, u) == bars
Restored(bars, u) ==
  [d \in Devices |-> IF d \in Owners(u) /\ bars[d] = "view" THEN "card" ELSE bars[d]]

ActiveKept(u) == active
ActiveIn(u)   == u

EnterFullscreen(d) ==
  /\ fullscreen = None
  /\ createFullscreenControls(getApiUdid(d))
  /\ fullscreen' = getApiUdid(d)
  /\ active' = ActiveIn(getApiUdid(d))
  /\ UNCHANGED <<connectionVars, shellVars, activeShell, held>>

\* By its button or by Escape. The keyboard stays with the device.
ExitFullscreen ==
  /\ fullscreen # None
  /\ fullscreen' = None
  /\ rightPanel' = Restored(rightPanel, fullscreen)
  /\ bottomPanel' = Emptied(Restored(bottomPanel, fullscreen))
  /\ UNCHANGED <<connectionVars, shellVars, routeVars, held>>

-----------------------------------------------------------------------------
(* Clicks, as they arrive at the document. Buttons keep theirs.            *)

ClickView ==
  /\ fullscreen # None
  /\ active' = fullscreen /\ activeShell' = None
  /\ UNCHANGED <<connectionVars, panelVars, shellVars, held>>

\* The picture of a card. Its own handler names the apiUdid it was set up with,
\* the handler of the document, after it, the present one.
ClickCard(d) ==
  /\ fullscreen = None
  /\ active' = getApiUdid(d) /\ activeShell' = None
  /\ UNCHANGED <<connectionVars, panelVars, shellVars, held>>

ClickElsewhere ==
  /\ fullscreen = None
  /\ active' = None /\ activeShell' = None
  /\ UNCHANGED <<connectionVars, panelVars, shellVars, held>>

ClickShell(w) ==
  /\ w \in windows
  /\ active' = None /\ activeShell' = w
  /\ UNCHANGED <<connectionVars, panelVars, shellVars, held>>

Blur ==
  /\ active' = None
  /\ UNCHANGED <<connectionVars, panelVars, shellVars, activeShell, held>>

-----------------------------------------------------------------------------
(* Shell windows.                                                          *)

\* The button keeps its click: the keyboard is not routed to the new window.
openShellPanel ==
  /\ shellWindowCount < MaxShells
  /\ shellWindowCount' = shellWindowCount + 1
  /\ windows' = windows \cup {shellWindowCount'}
  /\ UNCHANGED <<connectionVars, panelVars, shellWs, routeVars, held>>

ShellOpens(w) ==
  /\ w \in windows \ shellWs
  /\ shellWs' = shellWs \cup {w}
  /\ UNCHANGED <<connectionVars, panelVars, shellWindowCount, windows, routeVars, held>>

ShellEnds(w) ==
  /\ w \in shellWs
  /\ shellWs' = shellWs \ {w}
  /\ UNCHANGED <<connectionVars, panelVars, shellWindowCount, windows, routeVars, held>>

closeShellWindow(w) ==
  /\ w \in windows
  /\ activeShell' = IF activeShell = w THEN None ELSE activeShell
  /\ windows' = windows \ {w} /\ shellWs' = shellWs \ {w}
  /\ UNCHANGED <<connectionVars, panelVars, shellWindowCount, active, held>>

-----------------------------------------------------------------------------
(* The key, pressed outside of the shell windows and of input fields.      *)

\* A key that goes down reaches an active shell with an open WebSocket, or the
\* active device.
DownReached == IF activeShell \in shellWs THEN {} ELSE {active} \cap open

KeyDown ==
  /\ held' = held \cup DownReached
  /\ UNCHANGED <<connectionVars, panelVars, shellVars, routeVars>>

\* Coming up it is not given to a device while a shell is active at all.
UpReached == IF activeShell # None THEN {} ELSE {active} \cap open

KeyUp ==
  /\ held' = held \ UpReached
  /\ UNCHANGED <<connectionVars, panelVars, shellVars, routeVars>>

-----------------------------------------------------------------------------
(* The devices.                                                            *)

\* startDeviceStream stores its connection under the apiUdid it began with; when
\* its picture is there the view is drawn again.
StreamStored(u) ==
  /\ u \notin connections /\ u[2] <= deviceRegistry[u[1]]
  /\ connections' = connections \cup {u}
  /\ updateFullscreen(u)
  /\ UNCHANGED <<deviceRegistry, open, fullscreen, shellVars, routeVars, held>>

ChannelOpens(u) ==
  /\ u \in connections \ open
  /\ open' = open \cup {u}
  /\ UNCHANGED <<deviceRegistry, connections, panelVars, shellVars, routeVars, held>>

ChannelCloses(u) ==
  /\ u \in open
  /\ open' = open \ {u} /\ held' = held \ {u}
  /\ UNCHANGED <<deviceRegistry, connections, panelVars, shellVars, routeVars>>

cleanupWebRTCConnection(u) ==
  /\ u \in connections
  /\ connections' = connections \ {u} /\ open' = open \ {u} /\ held' = held \ {u}
  /\ updateFullscreen(u)
  /\ active' = IF active = u THEN None ELSE active
  /\ UNCHANGED <<deviceRegistry, fullscreen, shellVars, activeShell>>

\* updateDeviceStatus or the device list give the card another apiUdid; what is
\* stored under the old one stays there.
PluggedIn(d) ==
  /\ deviceRegistry[d] < MaxTransport
  /\ deviceRegistry' = [deviceRegistry EXCEPT ![d] = @ + 1]
  /\ UNCHANGED <<connections, open, panelVars, shellVars, routeVars, held>>

-----------------------------------------------------------------------------
ShellStep(w) == ClickShell(w) \/ ShellOpens(w) \/ ShellEnds(w) \/ closeShellWindow(w)

ConnectionStep(u) ==
  StreamStored(u) \/ ChannelOpens(u) \/ ChannelCloses(u) \/ cleanupWebRTCConnection(u)

Next ==
  \/ \E d \in Devices : EnterFullscreen(d) \/ ClickCard(d) \/ PluggedIn(d)
  \/ ExitFullscreen \/ ClickView \/ ClickElsewhere \/ Blur
  \/ openShellPanel \/ \E w \in Shells : ShellStep(w)
  \/ KeyDown \/ KeyUp
  \/ \E u \in Udids : ConnectionStep(u)

Spec == Init /\ [][Next]_vars
-----------------------------------------------------------------------------
(* What the view and the keyboard promise.                                 *)

\* The view holds the bars of one device at most, also after a device whose bars
\* could not be given back was left behind in it (app.js:6599).
OneControlBar ==
  /\ Cardinality({d \in Devices : rightPanel[d] = "view"}) <= 1
  /\ Cardinality({d \in Devices : bottomPanel[d] = "view"}) <= 1

\* The keyboard follows what is there: in full screen a key goes down on the device
\* that is shown and on no other, and only while it has an open channel, whatever
\* was clicked before; a shell window that was closed gets none.
KeyboardRouted ==
  [][/\ fullscreen # None => held' \ held \subseteq {fullscreen} \cap open
     /\ activeShell' # None => activeShell' \in windows']_vars

\* Emptying the view destroys no bar (app.js:6418), unless the device got another
\* apiUdid while it was shown.
BottomBarKept ==
  [][\A d \in Devices :
       (bottomPanel[d] # "lost" /\ bottomPanel'[d] = "lost")
       => fullscreen[1] = d /\ fullscreen # getApiUdid(d)]_vars
=============================================================================

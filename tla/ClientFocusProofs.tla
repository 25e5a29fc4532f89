-------------------------- MODULE ClientFocusProofs --------------------------
EXTENDS ClientFocus, FiniteSetTheorems, TLAPS

(* The bars *)

Places == {"card", "view", "lost"}

\* A bottom bar in the view is the one of the device that is shown; a side bar may be
\* left behind in it, but not beside another one.
BarsInv ==
  /\ bottomPanel \in [Devices -> Places] /\ rightPanel \in [Devices -> Places]
  /\ deviceRegistry \in [Devices -> Nat] /\ fullscreen \in Udids \cup {None}
  /\ \A d \in Devices : bottomPanel[d] = "view" => fullscreen # None /\ fullscreen[1] = d
  /\ \A d, e \in Devices : rightPanel[d] = "view" /\ rightPanel[e] = "view" => d = e

LEMMA OwnerIsFirst == \A u, d : d \in Owners(u) => d \in Devices /\ u = getApiUdid(d) /\ u[1] = d
BY DEF Owners, getApiUdid

LEMMA BarsCreated ==
  ASSUME BarsInv, NEW u, createFullscreenControls(u),
         fullscreen' = u, u \in Udids,
         \/ fullscreen = u
         \/ fullscreen = None /\ Owners(u) # {}
  PROVE  /\ bottomPanel' \in [Devices -> Places] /\ rightPanel' \in [Devices -> Places]
         /\ \A d \in Devices : bottomPanel'[d] = "view" => u[1] = d
         /\ \A d, e \in Devices : rightPanel'[d] = "view" /\ rightPanel'[e] = "view" => d = e
         /\ \A d \in Devices : bottomPanel'[d] = "lost" => bottomPanel[d] = "lost"
<1>1. CASE Owners(u) = {}
  BY <1>1 DEF createFullscreenControls, BarsInv
<1>2. CASE Owners(u) # {}
  <2>1. /\ rightPanel' = [d \in Devices |-> IF d \in Owners(u) THEN "view" ELSE "card"]
        /\ bottomPanel' = [d \in Devices |->
             IF d \in Owners(u) /\ bottomPanel[d] # "lost" THEN "view"
             ELSE IF bottomPanel[d] = "view" THEN "lost" ELSE bottomPanel[d]]
    BY <1>2 DEF createFullscreenControls, HeaderFor, Emptied
  <2>2. ASSUME NEW d \in Devices, bottomPanel[d] = "view" PROVE d \in Owners(u)
    <3>1. fullscreen = u /\ u[1] = d
      BY <2>2, FocusAssumption DEF BarsInv
    <3>2. PICK e \in Devices : e \in Owners(u)
      BY <1>2, OwnerIsFirst
    <3> QED BY <3>1, <3>2, OwnerIsFirst
  <2>3. bottomPanel' \in [Devices -> Places] /\ rightPanel' \in [Devices -> Places]
    BY <2>1 DEF BarsInv, Places
  <2>4. \A d \in Devices : bottomPanel'[d] = "view" => u[1] = d
    BY <2>1, OwnerIsFirst
  <2>5. \A d, e \in Devices : rightPanel'[d] = "view" /\ rightPanel'[e] = "view" => d = e
    BY <2>1, OwnerIsFirst
  <2>6. \A d \in Devices : bottomPanel'[d] = "lost" => bottomPanel[d] = "lost"
    BY <2>1, <2>2
  <2> QED BY <2>3, <2>4, <2>5, <2>6
<1> QED BY <1>1, <1>2

LEMMA BarsUpdated ==
  ASSUME BarsInv, NEW u, u \in Udids, updateFullscreen(u), UNCHANGED <<deviceRegistry, fullscreen>>
  PROVE  BarsInv' /\ \A d \in Devices : bottomPanel'[d] = "lost" => bottomPanel[d] = "lost"
<1>1. CASE fullscreen = u
  <2>1. createFullscreenControls(u)
    BY <1>1 DEF updateFullscreen
  <2> QED BY <1>1, <2>1, BarsCreated, FocusAssumption DEF BarsInv
<1>2. CASE fullscreen # u
  BY <1>2 DEF updateFullscreen, BarsInv
<1> QED BY <1>1, <1>2

LEMMA BarsEntered ==
  ASSUME BarsInv, NEW d \in Devices, EnterFullscreen(d), getApiUdid(d) \in Udids
  PROVE  BarsInv' /\ \A e \in Devices : bottomPanel'[e] = "lost" => bottomPanel[e] = "lost"
<1> DEFINE u == getApiUdid(d)
<1>1. /\ fullscreen = None /\ fullscreen' = u /\ createFullscreenControls(u)
      /\ deviceRegistry' = deviceRegistry
  BY DEF EnterFullscreen, connectionVars
<1>2. d \in Owners(u)
  BY DEF Owners
<1>3. Owners(u) # {} /\ u # None
  BY <1>2, FocusAssumption
<1>4. u \in Udids
  OBVIOUS
<1> HIDE DEF u
<1>5. /\ bottomPanel' \in [Devices -> Places] /\ rightPanel' \in [Devices -> Places]
      /\ \A e \in Devices : bottomPanel'[e] = "view" => u[1] = e
      /\ \A e, f \in Devices : rightPanel'[e] = "view" /\ rightPanel'[f] = "view" => e = f
      /\ \A e \in Devices : bottomPanel'[e] = "lost" => bottomPanel[e] = "lost"
  BY <1>1, <1>3, <1>4, BarsCreated
<1> QED BY <1>1, <1>3, <1>4, <1>5 DEF BarsInv

LEMMA BarsGivenBack ==
  ASSUME BarsInv, ExitFullscreen
  PROVE  /\ BarsInv'
         /\ \A d \in Devices : bottomPanel'[d] = "lost" =>
              bottomPanel[d] = "lost" \/ (fullscreen[1] = d /\ fullscreen # getApiUdid(d))
<1> DEFINE back(bars) == [d \in Devices |->
             IF d \in Owners(fullscreen) /\ bars[d] = "view" THEN "card" ELSE bars[d]]
<1>1. /\ rightPanel' = back(rightPanel)
      /\ bottomPanel' = [d \in Devices |-> IF back(bottomPanel)[d] = "view" THEN "lost"
                                           ELSE back(bottomPanel)[d]]
      /\ fullscreen' = None /\ deviceRegistry' = deviceRegistry
  BY DEF ExitFullscreen, Restored, Emptied, connectionVars
<1>2. ASSUME NEW d \in Devices, bottomPanel[d] = "view", d \notin Owners(fullscreen)
      PROVE  fullscreen[1] = d /\ fullscreen # getApiUdid(d)
  BY <1>2 DEF BarsInv, Owners
<1>3. BarsInv'
  BY <1>1 DEF BarsInv, Places
<1> QED BY <1>1, <1>2, <1>3

RegistryOK == deviceRegistry \in [Devices -> 1..MaxTransport]

LEMMA RegistryKept == ASSUME RegistryOK, [Next]_vars PROVE RegistryOK'
<1>1. ASSUME NEW d \in Devices, PluggedIn(d) PROVE RegistryOK'
  <2>1. deviceRegistry[d] + 1 \in 1..MaxTransport
    BY <1>1, FocusAssumption DEF PluggedIn, RegistryOK
  <2> QED BY <1>1, <2>1 DEF PluggedIn, RegistryOK
<1>2. CASE ~\E d \in Devices : PluggedIn(d)
  BY <1>2 DEF Next, EnterFullscreen, ExitFullscreen, ClickView, ClickCard, ClickElsewhere,
     ClickShell, Blur, openShellPanel, ShellStep, ShellOpens, ShellEnds, closeShellWindow,
     KeyDown, KeyUp, ConnectionStep, StreamStored, ChannelOpens, ChannelCloses,
     cleanupWebRTCConnection, connectionVars, vars, RegistryOK
<1> QED BY <1>1, <1>2

\* What a step takes from the view.
Loses == \A d \in Devices : bottomPanel'[d] = "lost" =>
           bottomPanel[d] = "lost" \/ (fullscreen[1] = d /\ fullscreen # getApiUdid(d))

LEMMA BarsKept ==
  ASSUME BarsInv, RegistryOK, [Next]_vars PROVE BarsInv' /\ Loses
<1> USE DEF connectionVars, panelVars
<1>1. ASSUME NEW d \in Devices, EnterFullscreen(d) PROVE BarsInv' /\ Loses
  <2>1. getApiUdid(d) \in Udids
    BY DEF getApiUdid, Udids, RegistryOK
  <2> QED BY <1>1, <2>1, BarsEntered DEF Loses
<1>2. CASE ExitFullscreen
  BY <1>2, BarsGivenBack DEF Loses
<1>3. ASSUME NEW u \in Udids, StreamStored(u) \/ cleanupWebRTCConnection(u)
      PROVE  BarsInv' /\ Loses
  BY <1>3, BarsUpdated DEF StreamStored, cleanupWebRTCConnection, Loses
<1>4. ASSUME NEW d \in Devices, PluggedIn(d) PROVE BarsInv' /\ Loses
  BY <1>4 DEF PluggedIn, BarsInv, Loses
<1>5. ASSUME UNCHANGED <<panelVars, deviceRegistry>> PROVE BarsInv' /\ Loses
  BY <1>5 DEF BarsInv, Loses
<1>6. ASSUME NEW u \in Udids, ChannelOpens(u) \/ ChannelCloses(u) PROVE BarsInv' /\ Loses
  BY <1>5, <1>6 DEF ChannelOpens, ChannelCloses
<1>7. CASE \/ ClickView \/ ClickElsewhere \/ Blur \/ openShellPanel \/ KeyDown \/ KeyUp
           \/ (\E d \in Devices : ClickCard(d)) \/ (\E w \in Shells : ShellStep(w))
           \/ UNCHANGED vars
  BY <1>5, <1>7 DEF ClickView, ClickElsewhere, Blur, openShellPanel, KeyDown, KeyUp, ClickCard,
     ShellStep, ClickShell, ShellOpens, ShellEnds, closeShellWindow, vars
<1> QED BY <1>1, <1>2, <1>3, <1>4, <1>6, <1>7 DEF Next, ConnectionStep

LEMMA BarsInit == Init => BarsInv /\ RegistryOK
BY FocusAssumption DEF Init, BarsInv, RegistryOK, Places

LEMMA OneAtMost ==
  ASSUME NEW S, \A x, y \in S : x = y PROVE Cardinality(S) <= 1
<1>1. CASE S = {}
  BY <1>1, FS_EmptySet
<1>2. CASE S # {}
  <2>1. PICK x \in S : S = {x}
    BY <1>2
  <2> QED BY <2>1, FS_Singleton
<1> QED BY <1>1, <1>2

\* OneControlBar for any devices and transport numbers: createFullscreenControls (app.js:6599)
\* never leaves the bars of two devices in the view, whatever was left behind in it.
THEOREM OneBarInView == Spec => []OneControlBar
<1>1. ASSUME BarsInv PROVE OneControlBar
  <2>1. Cardinality({d \in Devices : rightPanel[d] = "view"}) <= 1
    BY <1>1, OneAtMost DEF BarsInv
  <2>2. Cardinality({d \in Devices : bottomPanel[d] = "view"}) <= 1
    BY <1>1, OneAtMost DEF BarsInv
  <2> QED BY <2>1, <2>2 DEF OneControlBar
<1> QED BY <1>1, BarsInit, BarsKept, RegistryKept, PTL DEF Spec

\* BottomBarKept: exitFullscreen (app.js:6418) and createFullscreenControls empty the view
\* only of what they have given back, but for a device that was plugged in again.
THEOREM BarsNotDestroyed == Spec => BottomBarKept
<1>1. ASSUME BarsInv, RegistryOK, [Next]_vars
      PROVE  [\A d \in Devices :
                (bottomPanel[d] # "lost" /\ bottomPanel'[d] = "lost")
                => fullscreen[1] = d /\ fullscreen # getApiUdid(d)]_vars
  BY <1>1, BarsKept DEF Loses
<1> QED BY <1>1, BarsInit, BarsKept, RegistryKept, PTL DEF Spec, BottomBarKept

(* The keyboard *)

KeysInv ==
  /\ fullscreen # None => active \in {fullscreen, None}
  /\ activeShell # None => activeShell \in windows
  /\ open \subseteq Udids

LEMMA KeysKept == ASSUME KeysInv, [Next]_vars PROVE KeysInv'
<1> USE DEF KeysInv, connectionVars, panelVars, shellVars, routeVars
<1>1. ASSUME NEW d \in Devices, EnterFullscreen(d) \/ ClickCard(d) \/ PluggedIn(d) PROVE KeysInv'
  BY <1>1 DEF EnterFullscreen, ActiveIn, ClickCard, PluggedIn
<1>2. CASE ExitFullscreen \/ ClickView \/ ClickElsewhere \/ Blur \/ openShellPanel
  BY <1>2 DEF ExitFullscreen, ClickView, ClickElsewhere, Blur, openShellPanel
<1>3. ASSUME NEW w \in Shells, ShellStep(w) PROVE KeysInv'
  BY <1>3 DEF ShellStep, ClickShell, ShellOpens, ShellEnds, closeShellWindow
<1>4. ASSUME NEW u \in Udids, ConnectionStep(u) PROVE KeysInv'
  BY <1>4 DEF ConnectionStep, StreamStored, ChannelOpens, ChannelCloses, cleanupWebRTCConnection
<1>5. CASE KeyDown \/ KeyUp \/ UNCHANGED vars
  BY <1>5 DEF KeyDown, KeyUp, vars
<1> QED BY <1>1, <1>2, <1>3, <1>4, <1>5 DEF Next

\* KeyboardRouted: in full screen a key reaches the device that is shown or nothing, and no
\* closed shell window is ever the active one.
THEOREM KeysGoWhereShown == Spec => KeyboardRouted
<1>1. Init => KeysInv
  BY DEF Init, KeysInv
<1>2. ASSUME KeysInv, KeysInv', [Next]_vars
      PROVE  [ /\ fullscreen # None => held' \ held \subseteq {fullscreen} \cap open
               /\ activeShell' # None => activeShell' \in windows' ]_vars
  <2>1. None \notin open
    BY <1>2, FocusAssumption DEF KeysInv
  <2>2. CASE KeyDown
    <3>1. held' \ held \subseteq {active} \cap open
      BY <2>2 DEF KeyDown, DownReached
    <3> QED BY <1>2, <2>1, <3>1 DEF KeysInv
  <2>3. CASE ~KeyDown /\ ~UNCHANGED vars
    <3>1. held' \subseteq held
      BY <1>2, <2>3 DEF Next, EnterFullscreen, ExitFullscreen, ClickView, ClickCard, ClickElsewhere,
         ClickShell, Blur, openShellPanel, ShellStep, ShellOpens, ShellEnds, closeShellWindow,
         KeyUp, PluggedIn, ConnectionStep, StreamStored, ChannelOpens, ChannelCloses,
         cleanupWebRTCConnection
    <3> QED BY <1>2, <3>1 DEF KeysInv
  <2> QED BY <1>2, <2>2, <2>3
<1> QED BY <1>1, <1>2, KeysKept, PTL DEF Spec, KeyboardRouted
=============================================================================

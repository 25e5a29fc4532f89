---------------------------- MODULE ClientInput ----------------------------
(***************************************************************************)
(* Mouse, buttons and sync mode of the browser (assets/web/static/js/      *)
(* app.js and control.js): what the video elements' mouse handlers and the *)
(* control buttons send, to which devices sendControlMessage delivers it,  *)
(* and what that leaves pressed there.                                     *)
(*                                                                         *)
(* Every device has one video element. A screen is one axis of Width[d]    *)
(* pixels, the other one is computed alike. A device is known by one key.  *)
(***************************************************************************)
EXTENDS Integers, FiniteSets, Sequences, SequencesExt

CONSTANTS
  Devices,
  Width,      \* device -> pixels of its video
  Modifiers,  \* of the keys "Control" and "Shift"
  Keys,       \* keycodes; which button sends which is left open
  None,
  MaxTimers,  \* timeouts of one key of one device that are pending at once
  MaxChanges  \* how often channels, the selection and the sync box change

Pointers == {"mouse", "generic", "virtual"}
Pair     == {"generic", "virtual"}

ASSUME InputAssumption ==
  /\ IsFiniteSet(Devices) /\ None \notin Devices
  /\ Keys \cap Pointers = {}
  /\ Width \in [Devices -> Nat \ {0}]
  /\ MaxTimers \in Nat /\ MaxChanges \in Nat

VARIABLES
  open,                 \* devices whose data channel is open
  selected,             \* devices whose card is selected
  syncOperationEnabled,
  isTwoFingerMode, isDragging,  \* of the video of a device
  firstFingerX, secondFingerX,  \* of that video, 0 out of two-finger mode
  stale,    \* devices with a discarded video left in two-finger mode
  over,     \* the device whose video the mouse is over
  button,   \* the left button is down
  mods,     \* the modifier keys that are down
  fingers,  \* device -> pointers the messages of its channel left down
  keys,     \* device -> keys they left down
  missed,   \* devices that were touched beside their screen
  timers,   \* device, key -> pending timeouts that release the key
  changes

channelVars == <<open, stale>>
syncVars    == <<selected, changes>>
mouseVars   == <<over, button, mods>>
gestureVars == <<isTwoFingerMode, isDragging, firstFingerX, secondFingerX>>
sentVars    == <<fingers, keys, missed, syncOperationEnabled>>
vars == <<channelVars, syncVars, mouseVars, gestureVars, sentVars, timers>>

\* A page on which some cards have been connected and selected, and the box ticked.
Init ==
  /\ open \in SUBSET Devices /\ selected \in SUBSET Devices
  /\ syncOperationEnabled \in {FALSE, selected # {}}
  /\ isTwoFingerMode = [d \in Devices |-> FALSE]
  /\ isDragging = [d \in Devices |-> FALSE]
  /\ firstFingerX = [d \in Devices |-> 0] /\ secondFingerX = [d \in Devices |-> 0]
  /\ stale = {} /\ over = None /\ button = FALSE /\ mods = {}
  /\ fingers = [d \in Devices |-> {}] /\ keys = [d \in Devices |-> {}]
  /\ missed = {}
  /\ timers = [d \in Devices |-> [k \in Keys |-> 0]]
  /\ changes = 0

-----------------------------------------------------------------------------
(* Coordinates.                                                            *)

Pixels(d) == 0..(Width[d] - 1)
Clamp(x, d) == IF x < 0 THEN 0 ELSE IF x < Width[d] THEN x ELSE Width[d] - 1

\* Math.round(x / w * v) of non-negative numbers.
RoundedShare(x, w, v) == (2 * x * v + w) \div (2 * w)

\* parseControlMessage makes a position relative to the screen of its source,
\* handleTouchEvent places it on the screen of a target.
PlacedUnclamped(x, s, d) == RoundedShare(x, Width[s], Width[d])
Placed(x, s, d) == Clamp(RoundedShare(x, Width[s], Width[d]), d)

UnclampedFinger(x, d) == IF Cardinality(mods) = 2 THEN x ELSE Width[d] - x

\* Both modifiers together leave this axis as it is.
calculateVirtualFinger(x, d) ==
  IF Cardinality(mods) = 2 THEN x ELSE Clamp(Width[d] - x, d)

-----------------------------------------------------------------------------
(* sendControlMessage.                                                     *)

Connected == selected \cap open

\* The devices a message of s reaches.
Reached(s, sync) ==
  IF sync /\ Connected = {} THEN {}
  ELSE IF sync /\ s \in Connected THEN Connected
  ELSE {s} \cap open

\* Without a device to sync to, the first message of a handler is dropped and
\* turns the mode off, and the next ones go to their source.
SyncAfter == syncOperationEnabled /\ Connected # {}
ReachedButUps(ms, i) ==
  IF ms[i].action = "up" THEN {ms[i].from} \cap open
  ELSE Reached(ms[i].from, IF i = 1 THEN syncOperationEnabled ELSE SyncAfter)
ReachedBy(ms, i) ==
  Reached(ms[i].from, IF i = 1 THEN syncOperationEnabled ELSE SyncAfter)

Touch(s, p, act, x) == [from |-> s, id |-> p, action |-> act, x |-> x]
Key(s, k, act)      == [from |-> s, id |-> k, action |-> act, x |-> None]

\* The numbers of the messages of ms that reach d.
Arrivals(d, ms) == {i \in DOMAIN ms : d \in ReachedBy(ms, i)}

Ids(d, ms, act) == {ms[i].id : i \in {j \in Arrivals(d, ms) : ms[j].action = act}}

\* One handler sends the messages ms, in this order.
Send(ms) ==
  /\ fingers' = [d \in Devices |->
       (fingers[d] \cup (Ids(d, ms, "down") \cap Pointers)) \ Ids(d, ms, "up")]
  /\ keys' = [d \in Devices |->
       (keys[d] \cup (Ids(d, ms, "down") \cap Keys)) \ Ids(d, ms, "up")]
  /\ missed' = missed \cup
       {d \in Devices : \E i \in Arrivals(d, ms) :
          ms[i].id \in Pointers /\ Placed(ms[i].x, ms[i].from, d) \notin Pixels(d)}
  /\ syncOperationEnabled' = IF ms = <<>> THEN syncOperationEnabled ELSE SyncAfter

-----------------------------------------------------------------------------
(* setupVideoMouseEvents.                                                  *)

LiftVirtual(d) == << Touch(d, "virtual", "up", firstFingerX[d]),
                     Touch(d, "virtual", "up", secondFingerX[d]) >>
Lift(d) == << Touch(d, "virtual", "up", firstFingerX[d]),
              Touch(d, "generic", "up", secondFingerX[d]) >>

\* The messages of one video after another.
LiftAll(order) == [i \in 1..(2 * Len(order)) |-> Lift(order[(i + 1) \div 2])[2 - (i % 2)]]

TwoFingers(d, act, x) ==
  << Touch(d, "generic", act, x), Touch(d, "virtual", act, calculateVirtualFinger(x, d)) >>

SetFingers(d, first, second) ==
  /\ firstFingerX' = [firstFingerX EXCEPT ![d] = first]
  /\ secondFingerX' = [secondFingerX EXCEPT ![d] = second]

LeaveTwoFingerMode(d) ==
  /\ isTwoFingerMode' = [isTwoFingerMode EXCEPT ![d] = FALSE]
  /\ SetFingers(d, 0, 0)

\* A mode that is still on is only switched off.
MouseDown(d) ==
  /\ over = d /\ ~button /\ button' = TRUE
  /\ isDragging' = [isDragging EXCEPT ![d] = FALSE]
  /\ \E x \in Pixels(d) :
       IF mods # {}
       THEN /\ isTwoFingerMode' = [isTwoFingerMode EXCEPT ![d] = TRUE]
            /\ SetFingers(d, calculateVirtualFinger(x, d), x)
            /\ Send(TwoFingers(d, "down", x))
       ELSE /\ LeaveTwoFingerMode(d)
            /\ Send(<<Touch(d, "mouse", "down", x)>>)
  /\ UNCHANGED <<channelVars, syncVars, over, mods, timers>>

\* The modifiers are gone: one finger stays.
MouseMoveWithoutModifier(d) ==
  /\ over = d /\ button /\ isTwoFingerMode[d] /\ mods = {}
  /\ \E x \in Pixels(d) : Send(Lift(d) \o <<Touch(d, "mouse", "down", x)>>)
  /\ LeaveTwoFingerMode(d)
  /\ isDragging' = [isDragging EXCEPT ![d] = FALSE]
  /\ UNCHANGED <<channelVars, syncVars, mouseVars, timers>>

MoveTwoFingers(d) ==
  /\ over = d /\ button /\ isTwoFingerMode[d] /\ mods # {}
  /\ \E x \in Pixels(d) :
       /\ SetFingers(d, calculateVirtualFinger(x, d), x)
       /\ Send(TwoFingers(d, "move", x))
  /\ UNCHANGED <<channelVars, syncVars, mouseVars, isTwoFingerMode, isDragging, timers>>

\* It is a drag from the first event that is more than five pixels away on.
MoveOneFinger(d) ==
  /\ over = d /\ button /\ ~isTwoFingerMode[d]
  /\ \E x \in Pixels(d), far \in BOOLEAN :
       /\ isDragging' = [isDragging EXCEPT ![d] = @ \/ far]
       /\ Send(IF isDragging'[d] THEN <<Touch(d, "mouse", "move", x)>> ELSE <<>>)
  /\ UNCHANGED <<channelVars, syncVars, mouseVars, isTwoFingerMode, firstFingerX,
                 secondFingerX, timers>>

MouseUp(d) ==
  /\ over = d /\ button /\ button' = FALSE
  /\ \E x \in Pixels(d) :
       Send(IF isTwoFingerMode[d] THEN Lift(d) ELSE <<Touch(d, "mouse", "up", x)>>)
  /\ LeaveTwoFingerMode(d)
  /\ isDragging' = [isDragging EXCEPT ![d] = FALSE]
  /\ UNCHANGED <<channelVars, syncVars, over, mods, timers>>

EndGestureKeepingMode(d) == UNCHANGED <<isTwoFingerMode, firstFingerX, secondFingerX>>
EndGesture(d) == LeaveTwoFingerMode(d)

\* A press that is no drag is left as it is.
MouseLeave(d) ==
  /\ over = d /\ over' = None
  /\ \E x \in Pixels(d) :
       Send(IF isTwoFingerMode[d] THEN Lift(d)
            ELSE IF isDragging[d] THEN <<Touch(d, "mouse", "up", x)>> ELSE <<>>)
  /\ EndGesture(d)
  /\ isDragging' =
       IF isTwoFingerMode[d] THEN isDragging ELSE [isDragging EXCEPT ![d] = FALSE]
  /\ UNCHANGED <<channelVars, syncVars, button, mods, timers>>

\* Elsewhere the button is pressed and released without a handler.
MouseElsewhere ==
  /\ over = None
  /\ \/ over' \in Devices /\ UNCHANGED button
     \/ button' = ~button /\ UNCHANGED over
  /\ Send(<<>>)
  /\ UNCHANGED <<channelVars, syncVars, mods, gestureVars, timers>>

ModifierDown(k) ==
  /\ k \notin mods /\ mods' = mods \cup {k}
  /\ Send(<<>>)
  /\ UNCHANGED <<channelVars, syncVars, over, button, gestureVars, timers>>

\* Every video that was ever set up listens on the document, in some order, also
\* the ones that were discarded.
ModifierUp(k) ==
  /\ k \in mods /\ mods' = mods \ {k}
  /\ \E order \in SetToSeqs({d \in Devices : isTwoFingerMode[d]} \cup stale) :
       Send(LiftAll(order))
  /\ isTwoFingerMode' = [d \in Devices |-> FALSE]
  /\ firstFingerX' = [d \in Devices |-> 0] /\ secondFingerX' = [d \in Devices |-> 0]
  /\ stale' = {}
  /\ UNCHANGED <<open, syncVars, over, button, isDragging, timers>>

\* The key is released while another window has the keyboard.
ModifierUpUnseen(k) ==
  /\ k \in mods /\ mods' = mods \ {k}
  /\ Send(<<>>)
  /\ UNCHANGED <<channelVars, syncVars, over, button, gestureVars, timers>>

-----------------------------------------------------------------------------
(* Keys and commands.                                                      *)

Wait(d, k) == [timers EXCEPT ![d][k] = @ + 1]

\* The back, home, menu and power buttons, and the right and the middle mouse
\* button: the key goes down, and up 50 ms later.
PressKey(d, k) ==
  /\ d \in open \/ over = d
  /\ timers[d][k] < MaxTimers
  /\ Send(<<Key(d, k, "down")>>)
  /\ timers' = Wait(d, k)
  /\ UNCHANGED <<channelVars, syncVars, mouseVars, gestureVars>>

\* handleControlAction picks the synced devices itself for volume and mute.
VolumeTargets(d) == IF syncOperationEnabled /\ d \in Connected THEN Connected ELSE {d}

VolumePresses(d, k) ==
  {[i \in DOMAIN order |-> Key(order[i], k, "down")] : order \in SetToSeqs(VolumeTargets(d))}

PressVolume(d, k) ==
  /\ d \in open
  /\ \A t \in VolumeTargets(d) : timers[t][k] < MaxTimers
  /\ \E ms \in VolumePresses(d, k) : Send(ms)
  /\ timers' = [t \in Devices |->
       IF t \in VolumeTargets(d) THEN Wait(t, k)[t] ELSE timers[t]]
  /\ UNCHANGED <<channelVars, syncVars, mouseVars, gestureVars>>

ReleaseLost(d, k) == <<>>
Release(d, k) == <<Key(d, k, "up")>>

\* The targets are looked up again.
KeyTimer(d, k) ==
  /\ timers[d][k] > 0
  /\ Send(Release(d, k))
  /\ timers' = [timers EXCEPT ![d][k] = @ - 1]
  /\ UNCHANGED <<channelVars, syncVars, mouseVars, gestureVars>>

\* Text, scrolling, panels, clipboard, display, rotation: nothing is left down.
Command(d) ==
  /\ d \in open \/ over = d
  /\ Send(<<[from |-> d, id |-> "command", action |-> "sent", x |-> None]>>)
  /\ UNCHANGED <<channelVars, syncVars, mouseVars, gestureVars, timers>>

-----------------------------------------------------------------------------
(* The cards, the sync box and the connections.                            *)

Change == changes < MaxChanges /\ changes' = changes + 1 /\ UNCHANGED missed

toggleDeviceSelection(d) ==
  /\ Change
  /\ selected' = IF d \in selected THEN selected \ {d} ELSE selected \cup {d}
  /\ UNCHANGED <<channelVars, mouseVars, gestureVars, fingers, keys,
                 syncOperationEnabled, timers>>

\* The box springs back when no card is selected.
SyncClick ==
  /\ Change
  /\ syncOperationEnabled' = (~syncOperationEnabled /\ selected # {})
  /\ UNCHANGED <<channelVars, selected, mouseVars, gestureVars, fingers, keys, timers>>

\* A new channel knows nothing of what an earlier one left down.
ChannelOpens(d) ==
  /\ d \notin open /\ Change
  /\ open' = open \cup {d}
  /\ UNCHANGED <<stale, selected, mouseVars, gestureVars, fingers, keys,
                 syncOperationEnabled, timers>>

Forgotten(d) ==
  /\ open' = open \ {d}
  /\ fingers' = [fingers EXCEPT ![d] = {}] /\ keys' = [keys EXCEPT ![d] = {}]

ChannelCloses(d) ==
  /\ d \in open /\ Change
  /\ Forgotten(d)
  /\ UNCHANGED <<stale, selected, mouseVars, gestureVars, syncOperationEnabled, timers>>

\* cleanupWebRTCConnection takes the video out of the page.
ConnectionCleaned(d) ==
  /\ d \in open /\ Change
  /\ Forgotten(d)
  /\ stale' = IF isTwoFingerMode[d] THEN stale \cup {d} ELSE stale
  /\ isTwoFingerMode' = [isTwoFingerMode EXCEPT ![d] = FALSE]
  /\ isDragging' = [isDragging EXCEPT ![d] = FALSE]
  /\ over' = IF over = d THEN None ELSE over
  /\ UNCHANGED <<selected, button, mods, firstFingerX, secondFingerX,
                 syncOperationEnabled, timers>>

-----------------------------------------------------------------------------
MouseStep(d) ==
  \/ MouseDown(d) \/ MouseMoveWithoutModifier(d) \/ MoveTwoFingers(d)
  \/ MoveOneFinger(d) \/ MouseUp(d) \/ MouseLeave(d)

DeviceStep(d) ==
  \/ Command(d)
  \/ toggleDeviceSelection(d)
  \/ ChannelOpens(d) \/ ChannelCloses(d) \/ ConnectionCleaned(d)

Next ==
  \/ \E d \in Devices : MouseStep(d) \/ DeviceStep(d)
  \/ \E d \in Devices, k \in Keys : PressKey(d, k) \/ PressVolume(d, k) \/ KeyTimer(d, k)
  \/ \E k \in Modifiers : ModifierDown(k) \/ ModifierUp(k) \/ ModifierUpUnseen(k)
  \/ MouseElsewhere \/ SyncClick

Spec == Init /\ [][Next]_vars

\* Only timers are owed a step.
FairSpec == Spec /\ \A d \in Devices, k \in Keys : WF_vars(KeyTimer(d, k))
-----------------------------------------------------------------------------
(* What the input promises.                                                *)

\* The variables hold what their declarations say; the fingers a video remembers
\* are on its screen, also the mirrored one (app.js:5035).
InputTypeOK ==
  /\ open \subseteq Devices /\ selected \subseteq Devices /\ stale \subseteq Devices
  /\ syncOperationEnabled \in BOOLEAN /\ button \in BOOLEAN
  /\ isTwoFingerMode \in [Devices -> BOOLEAN] /\ isDragging \in [Devices -> BOOLEAN]
  /\ \A d \in Devices : firstFingerX[d] \in Pixels(d) /\ secondFingerX[d] \in Pixels(d)
  /\ over \in Devices \cup {None} /\ mods \subseteq Modifiers
  /\ fingers \in [Devices -> SUBSET Pointers] /\ keys \in [Devices -> SUBSET Keys]
  /\ missed \subseteq Devices
  /\ timers \in [Devices -> [Keys -> 0..MaxTimers]] /\ changes \in 0..MaxChanges

\* A gesture lives only while the button is down over its video: however leaving,
\* modifier keys and lost connections interleave, a later click does not find an
\* old gesture still on (the case app.js:5048 guards against).
GestureIsPressed ==
  \A d \in Devices : isTwoFingerMode[d] \/ isDragging[d] => over = d /\ button

\* A touch that is synced to another screen size lands on that screen.
TouchesOnScreen == missed = {}

\* The two fingers of the two-finger gesture are down together or up together on
\* every device, whatever changes between its events, as long as the sync mode
\* is never on without a connected card to sync to.
FingersPaired ==
  [](syncOperationEnabled => Connected # {})
  => [](\A d \in Devices : Pair \subseteq fingers[d] \/ Pair \cap fingers[d] = {})

\* While the sync mode is on, devices that are in the same state of input stay in
\* the same state, whichever of them or of the others the user touches.
MirrorsStayEqual ==
  [][\A d, e \in Connected :
       (/\ syncOperationEnabled /\ {d, e} \subseteq open'
        /\ fingers[d] = fingers[e] /\ keys[d] = keys[e])
       => fingers'[d] = fingers'[e] /\ keys'[d] = keys'[e]]_vars

\* Without the sync mode every key that a button put down comes up again, or its
\* channel is gone.
KeysReleased ==
  []~syncOperationEnabled
  => \A d \in Devices, k \in Keys : (k \in keys[d]) ~> (k \notin keys[d])
=============================================================================

------------------------- MODULE ClientInputProofs -------------------------
(***************************************************************************)
(* What the mouse, the buttons and the sync mode send and leave pressed,   *)
(* for any devices, screens, keys and modifiers: first what a handler may  *)
(* send, then what any such messages do.                                   *)
(***************************************************************************)
EXTENDS ClientInput, FiniteSetTheorems, TLAPS

\* A mode of two fingers is no drag.
OneGesture == \A d \in Devices : ~(isTwoFingerMode[d] /\ isDragging[d])

FingerTypes == firstFingerX \in [Devices -> Int] /\ secondFingerX \in [Devices -> Int]

InputInv == InputTypeOK /\ FingerTypes /\ OneGesture /\ GestureIsPressed /\ TouchesOnScreen

-----------------------------------------------------------------------------
(* Coordinates *)

\* Any position is clamped to a pixel, as long as the screen has one.
LEMMA ClampOnScreen ==
  ASSUME NEW d \in Devices, NEW x \in Int PROVE Clamp(x, d) \in Pixels(d)
BY InputAssumption DEF Clamp, Pixels

LEMMA PixelsAreIntegers ==
  ASSUME NEW d \in Devices PROVE Pixels(d) \subseteq Int /\ Width[d] \in Nat \ {0} /\ 0 \in Pixels(d)
BY InputAssumption DEF Pixels

\* A position on one screen is placed on any other.
LEMMA PlacedOnScreen ==
  ASSUME NEW s \in Devices, NEW d \in Devices, NEW x \in Pixels(s) PROVE Placed(x, s, d) \in Pixels(d)
<1>1. x \in Int /\ Width[s] \in Nat \ {0} /\ Width[d] \in Nat
  BY PixelsAreIntegers
<1>2. 2 * x * Width[d] + Width[s] \in Int
  BY <1>1
<1>3. 2 * Width[s] \in Int /\ 2 * Width[s] > 0
  BY <1>1
<1>4. RoundedShare(x, Width[s], Width[d]) \in Int
  BY <1>2, <1>3 DEF RoundedShare
<1> QED BY <1>4, ClampOnScreen DEF Placed

LEMMA VirtualOnScreen ==
  ASSUME NEW d \in Devices, NEW x \in Pixels(d) PROVE calculateVirtualFinger(x, d) \in Pixels(d)
<1>1. Width[d] - x \in Int
  BY PixelsAreIntegers
<1> QED BY <1>1, ClampOnScreen DEF calculateVirtualFinger

-----------------------------------------------------------------------------
(* What is sent *)

\* A touch is on the screen of the video it was made on.
WellSent(ms) ==
  \A i \in DOMAIN ms : /\ ms[i].from \in Devices
                       /\ ms[i].id \in Pointers => ms[i].x \in Pixels(ms[i].from)

\* What one of the two fingers does, the other one does in the same handler.
SentInPairs(ms) ==
  \A i \in DOMAIN ms, p \in Pair :
    ms[i].id \in Pair =>
      \E j \in DOMAIN ms :
        ms[j].id = p /\ ms[j].from = ms[i].from /\ ms[j].action = ms[i].action

Sends == \E ms : Send(ms) /\ WellSent(ms) /\ SentInPairs(ms)

\* Nothing is sent; a channel that ends takes with it what it left down.
SendsNothing ==
  /\ UNCHANGED missed
  /\ \A d \in Devices : \/ fingers'[d] = fingers[d] /\ keys'[d] = keys[d]
                        \/ d \notin open' /\ fingers'[d] = {}

LEMMA NothingWellSent == WellSent(<<>>) /\ SentInPairs(<<>>)
BY DEF WellSent, SentInPairs

LEMMA OneWellSent ==
  ASSUME NEW m, m.from \in Devices, m.id \in Pointers => m.x \in Pixels(m.from), m.id \notin Pair
  PROVE  WellSent(<<m>>) /\ SentInPairs(<<m>>)
BY DEF WellSent, SentInPairs

LEMMA TwoWellSent ==
  ASSUME NEW m, NEW n, m.from \in Devices, n.from = m.from, n.action = m.action,
         {m.id, n.id} = Pair, m.x \in Pixels(m.from), n.x \in Pixels(m.from)
  PROVE  WellSent(<<m, n>>) /\ SentInPairs(<<m, n>>)
<1> DEFINE ms == <<m, n>>
<1>1. DOMAIN ms = 1..2 /\ ms[1] = m /\ ms[2] = n
  OBVIOUS
<1>2. WellSent(ms)
  BY <1>1 DEF WellSent
<1>3. SentInPairs(ms)
  BY <1>1 DEF SentInPairs
<1> QED BY <1>2, <1>3

LEMMA LiftWellSent ==
  ASSUME InputTypeOK, NEW d \in Devices
  PROVE  /\ WellSent(Lift(d)) /\ SentInPairs(Lift(d))
         /\ DOMAIN Lift(d) = 1..2 /\ Lift(d)[1].id = "virtual" /\ Lift(d)[2].id = "generic"
         /\ \A i \in 1..2 : Lift(d)[i].from = d /\ Lift(d)[i].action = "up" /\ Lift(d)[i].x \in Pixels(d)
<1>1. firstFingerX[d] \in Pixels(d) /\ secondFingerX[d] \in Pixels(d)
  BY DEF InputTypeOK
<1>2. WellSent(Lift(d)) /\ SentInPairs(Lift(d))
  BY <1>1, TwoWellSent DEF Lift, Touch, Pair
<1> QED BY <1>1, <1>2 DEF Lift, Touch

LEMMA TwoFingersWellSent ==
  ASSUME NEW d \in Devices, NEW x \in Pixels(d), NEW act
  PROVE  WellSent(TwoFingers(d, act, x)) /\ SentInPairs(TwoFingers(d, act, x))
BY VirtualOnScreen, TwoWellSent DEF TwoFingers, Touch, Pair

LEMMA LiftAndPressWellSent ==
  ASSUME InputTypeOK, NEW d \in Devices, NEW x \in Pixels(d)
  PROVE  LET ms == Lift(d) \o <<Touch(d, "mouse", "down", x)>>
         IN  WellSent(ms) /\ SentInPairs(ms)
<1> DEFINE m == Touch(d, "mouse", "down", x)
           ms == Lift(d) \o <<m>>
<1>1. DOMAIN ms = 1..3 /\ ms[1] = Lift(d)[1] /\ ms[2] = Lift(d)[2] /\ ms[3] = m
  BY DEF Lift
<1>2. m.from = d /\ m.id = "mouse" /\ m.x = x
  BY DEF Touch
<1> HIDE DEF m, ms
<1>3. \A i \in 1..3 : ms[i].from = d /\ ms[i].x \in Pixels(d)
  BY <1>1, <1>2, LiftWellSent
<1>4. WellSent(ms)
  BY <1>1, <1>3 DEF WellSent
<1>5. SentInPairs(ms)
  BY <1>1, <1>2, LiftWellSent DEF SentInPairs, Pair
<1> QED BY <1>4, <1>5 DEF ms, m

LEMMA LiftAllWellSent ==
  ASSUME InputTypeOK, NEW held \in SUBSET Devices, NEW order \in SetToSeqs(held)
  PROVE  WellSent(LiftAll(order)) /\ SentInPairs(LiftAll(order))
<1> DEFINE n == Cardinality(held)
           ms == LiftAll(order)
<1>1. n \in Nat
  BY InputAssumption, FS_Subset, FS_CardinalityType
<1>2. order \in [1..n -> Devices] /\ Len(order) = n
  BY <1>1 DEF SetToSeqs
<1> HIDE DEF n
<1>3. /\ DOMAIN ms = 1..(2 * n)
      /\ \A i \in 1..(2 * n) : ms[i] = Lift(order[(i + 1) \div 2])[2 - (i % 2)]
  BY <1>2 DEF LiftAll
<1> HIDE DEF ms
<1>4. ASSUME NEW i \in 1..(2 * n)
      PROVE  (i + 1) \div 2 \in 1..n /\ 2 - (i % 2) \in 1..2
  BY <1>1
\* The messages of the video that message i is of are numbered 2 * k - 1 and 2 * k.
<1>5. ASSUME NEW k \in 1..n, NEW c \in 1..2
      PROVE  /\ 2 * k + c - 2 \in 1..(2 * n) /\ (2 * k + c - 2 + 1) \div 2 = k
             /\ 2 - ((2 * k + c - 2) % 2) = c
  BY <1>1
<1>6. WellSent(ms)
  <2> SUFFICES ASSUME NEW i \in DOMAIN ms
               PROVE  ms[i].from \in Devices /\ ms[i].x \in Pixels(ms[i].from)
    BY DEF WellSent
  <2>1. PICK k \in 1..n, c \in 1..2 : ms[i] = Lift(order[k])[c]
    BY <1>3, <1>4
  <2> QED BY <1>2, <2>1, LiftWellSent
<1>7. SentInPairs(ms)
  <2> SUFFICES ASSUME NEW i \in DOMAIN ms, NEW p \in Pair
               PROVE  \E j \in DOMAIN ms :
                        ms[j].id = p /\ ms[j].from = ms[i].from /\ ms[j].action = ms[i].action
    BY DEF SentInPairs
  <2>1. PICK k \in 1..n, c \in 1..2 : ms[i] = Lift(order[k])[c]
    BY <1>3, <1>4
  <2>2. PICK e \in 1..2 : Lift(order[k])[e].id = p
    BY <1>2, LiftWellSent DEF Pair
  <2> DEFINE j == 2 * k + e - 2
  <2>3. j \in DOMAIN ms /\ ms[j] = Lift(order[k])[e]
    BY <1>3, <1>5
  <2> QED BY <1>2, <2>1, <2>2, <2>3, LiftWellSent
<1> QED BY <1>6, <1>7 DEF ms

\* Everything a handler sends is well sent.
LEMMA StepSends == ASSUME InputInv, Next PROVE Sends \/ SendsNothing
<1>1. InputTypeOK
  BY DEF InputInv
<1>2. ASSUME NEW m, m.from \in Devices, m.id \in Pointers => m.x \in Pixels(m.from),
             m.id \notin Pair, Send(<<m>>)
      PROVE  Sends
  BY <1>2, OneWellSent DEF Sends
<1>3. Send(<<>>) => Sends
  BY NothingWellSent DEF Sends
<1>4. ASSUME NEW d \in Devices, Send(Lift(d)) PROVE Sends
  BY <1>1, <1>4, LiftWellSent DEF Sends
<1>5. ASSUME NEW d \in Devices, NEW x \in Pixels(d), NEW act, Send(<<Touch(d, "mouse", act, x)>>)
      PROVE  Sends
  <2> DEFINE m == Touch(d, "mouse", act, x)
  <2>1. m.from = d /\ m.id = "mouse" /\ m.x = x
    BY DEF Touch
  <2> HIDE DEF m
  <2>2. Send(<<m>>)
    BY <1>5 DEF m
  <2> QED BY <1>2, <2>1, <2>2 DEF Pair
<1>6. ASSUME NEW d \in Devices, NEW k \in Keys, NEW act, Send(<<Key(d, k, act)>>) PROVE Sends
  <2> DEFINE m == Key(d, k, act)
  <2>1. m.from = d /\ m.id = k
    BY DEF Key
  <2>2. k \notin Pointers /\ k \notin Pair
    BY InputAssumption DEF Pointers, Pair
  <2> HIDE DEF m
  <2>3. Send(<<m>>)
    BY <1>6 DEF m
  <2> QED BY <1>2, <2>1, <2>2, <2>3
<1>7. ASSUME NEW d \in Devices, NEW x \in Pixels(d), NEW act, Send(TwoFingers(d, act, x)) PROVE Sends
  BY <1>7, TwoFingersWellSent DEF Sends
<1>8. ASSUME NEW d \in Devices, MouseStep(d) PROVE Sends
  <2>1. CASE MouseDown(d)
    BY <1>5, <1>7, <2>1 DEF MouseDown
  <2>2. CASE MouseMoveWithoutModifier(d)
    BY <1>1, <2>2, LiftAndPressWellSent DEF MouseMoveWithoutModifier, Sends
  <2>3. CASE MoveTwoFingers(d)
    BY <1>7, <2>3 DEF MoveTwoFingers
  <2>4. CASE MoveOneFinger(d)
    BY <1>3, <1>5, <2>4 DEF MoveOneFinger
  <2>5. CASE MouseUp(d)
    BY <1>4, <1>5, <2>5 DEF MouseUp
  <2>6. CASE MouseLeave(d)
    BY <1>3, <1>4, <1>5, <2>6 DEF MouseLeave
  <2> QED BY <1>8, <2>1, <2>2, <2>3, <2>4, <2>5, <2>6 DEF MouseStep
<1>9. ASSUME NEW d \in Devices, Command(d) PROVE Sends
  <2> DEFINE m == [from |-> d, id |-> "command", action |-> "sent", x |-> None]
  <2>1. m.from = d /\ m.id = "command" /\ "command" \notin Pointers /\ "command" \notin Pair
    BY DEF Pointers, Pair
  <2> HIDE DEF m
  <2>2. Send(<<m>>)
    BY <1>9 DEF Command, m
  <2> QED BY <1>2, <2>1, <2>2
<1>10. ASSUME NEW d \in Devices,
              toggleDeviceSelection(d) \/ ChannelOpens(d) \/ ChannelCloses(d) \/ ConnectionCleaned(d)
       PROVE  SendsNothing
  <2>1. fingers \in [Devices -> SUBSET Pointers] /\ keys \in [Devices -> SUBSET Keys]
    BY <1>1 DEF InputTypeOK
  <2>2. CASE toggleDeviceSelection(d) \/ ChannelOpens(d)
    BY <2>2 DEF toggleDeviceSelection, ChannelOpens, Change, SendsNothing
  <2>3. CASE ChannelCloses(d) \/ ConnectionCleaned(d)
    BY <2>1, <2>3 DEF ChannelCloses, ConnectionCleaned, Forgotten, Change, SendsNothing
  <2> QED BY <1>10, <2>2, <2>3
<1>11. ASSUME NEW d \in Devices, NEW k \in Keys, PressKey(d, k) \/ KeyTimer(d, k) PROVE Sends
  BY <1>6, <1>11 DEF PressKey, KeyTimer, Release
<1>12. ASSUME NEW d \in Devices, NEW k \in Keys, PressVolume(d, k) PROVE Sends
  <2>1. PICK ms \in VolumePresses(d, k) : Send(ms)
    BY <1>12 DEF PressVolume
  <2>2. PICK order \in SetToSeqs(VolumeTargets(d)) :
          ms = [i \in DOMAIN order |-> Key(order[i], k, "down")]
    BY <2>1 DEF VolumePresses
  <2>3. VolumeTargets(d) \subseteq Devices
    BY <1>1 DEF VolumeTargets, Connected, InputTypeOK
  <2>4. \A i \in DOMAIN order : order[i] \in Devices
    BY <2>3 DEF SetToSeqs
  <2>5. k \notin Pointers /\ k \notin Pair
    BY InputAssumption DEF Pointers, Pair
  <2>6. \A i \in DOMAIN ms : ms[i].from \in Devices /\ ms[i].id = k
    BY <2>2, <2>4 DEF Key
  <2> QED BY <2>1, <2>5, <2>6 DEF Sends, WellSent, SentInPairs
<1>13. ASSUME NEW k \in Modifiers, ModifierUp(k) PROVE Sends
  <2> DEFINE held == {d \in Devices : isTwoFingerMode[d]} \cup stale
  <2>1. held \in SUBSET Devices
    BY <1>1 DEF InputTypeOK
  <2>2. PICK order \in SetToSeqs(held) : Send(LiftAll(order))
    BY <1>13 DEF ModifierUp
  <2> HIDE DEF held
  <2> QED BY <1>1, <2>1, <2>2, LiftAllWellSent DEF Sends
<1>14. ASSUME NEW k \in Modifiers, ModifierDown(k) \/ ModifierUpUnseen(k) PROVE Sends
  BY <1>3, <1>14 DEF ModifierDown, ModifierUpUnseen
<1>15. CASE MouseElsewhere
  BY <1>3, <1>15 DEF MouseElsewhere
<1>16. CASE SyncClick
  BY <1>16 DEF SyncClick, Change, SendsNothing
<1> QED BY <1>8, <1>9, <1>10, <1>11, <1>12, <1>13, <1>14, <1>15, <1>16 DEF Next, DeviceStep

-----------------------------------------------------------------------------
(* What the messages do *)

LEMMA SendTyped ==
  ASSUME InputTypeOK, NEW ms, Send(ms)
  PROVE  /\ fingers' \in [Devices -> SUBSET Pointers] /\ keys' \in [Devices -> SUBSET Keys]
         /\ missed' \subseteq Devices /\ syncOperationEnabled' \in BOOLEAN
<1>1. fingers' \in [Devices -> SUBSET Pointers] /\ keys' \in [Devices -> SUBSET Keys]
  BY DEF Send, InputTypeOK
<1>2. missed' \subseteq Devices
  BY DEF Send, InputTypeOK
<1>3. syncOperationEnabled' \in BOOLEAN
  <2>1. syncOperationEnabled' = syncOperationEnabled \/ syncOperationEnabled' = SyncAfter
    BY DEF Send
  <2>2. SyncAfter \in BOOLEAN
    BY DEF SyncAfter
  <2> QED BY <2>1, <2>2 DEF InputTypeOK
<1> QED BY <1>1, <1>2, <1>3

LEMMA SendsLand == ASSUME TouchesOnScreen, Sends PROVE TouchesOnScreen'
<1>1. PICK ms : Send(ms) /\ WellSent(ms)
  BY DEF Sends
<1>2. ASSUME NEW d \in Devices, NEW i \in Arrivals(d, ms), ms[i].id \in Pointers
      PROVE  Placed(ms[i].x, ms[i].from, d) \in Pixels(d)
  BY <1>1, <1>2, PlacedOnScreen DEF WellSent, Arrivals
<1> QED BY <1>1, <1>2 DEF Send, TouchesOnScreen

\* A device that is synced to another hears the same of every message.
LEMMA MirrorsHearTheSame ==
  ASSUME NEW d \in Connected, NEW e \in Connected, d \in Devices, e \in Devices,
         syncOperationEnabled, NEW ms
  PROVE  Arrivals(d, ms) = Arrivals(e, ms)
<1>1. Connected # {} /\ SyncAfter
  BY DEF SyncAfter
<1>2. ASSUME NEW i \in DOMAIN ms PROVE d \in ReachedBy(ms, i) <=> e \in ReachedBy(ms, i)
  <2>1. ReachedBy(ms, i) = IF ms[i].from \in Connected THEN Connected ELSE {ms[i].from} \cap open
    BY <1>1 DEF ReachedBy, Reached
  <2> QED BY <2>1
<1> QED BY <1>2 DEF Arrivals

LEMMA SendsMirror ==
  ASSUME InputTypeOK, Sends, syncOperationEnabled, NEW d \in Connected, NEW e \in Connected,
         fingers[d] = fingers[e], keys[d] = keys[e]
  PROVE  fingers'[d] = fingers'[e] /\ keys'[d] = keys'[e]
<1>1. d \in Devices /\ e \in Devices
  BY DEF Connected, InputTypeOK
<1>2. PICK ms : Send(ms)
  BY DEF Sends
<1>3. \A act : Ids(d, ms, act) = Ids(e, ms, act)
  BY <1>1, MirrorsHearTheSame DEF Ids
<1> QED BY <1>1, <1>2, <1>3 DEF Send

\* Two fingers are down together or up together.
Paired(down) == Pair \subseteq down \/ Pair \cap down = {}

SyncHasTarget == syncOperationEnabled => Connected # {}

\* All messages of one source take the same way, so none of a pair is lost.
LEMMA SendsPaired ==
  ASSUME InputTypeOK, SyncHasTarget, Sends, NEW d \in Devices, Paired(fingers[d])
  PROVE  Paired(fingers'[d])
<1>1. PICK ms : Send(ms) /\ SentInPairs(ms)
  BY DEF Sends
<1>2. ASSUME NEW i \in DOMAIN ms, NEW j \in DOMAIN ms, ms[i].from = ms[j].from
      PROVE  d \in ReachedBy(ms, i) <=> d \in ReachedBy(ms, j)
  <2>1. CASE syncOperationEnabled
    BY <1>2, <2>1 DEF ReachedBy, SyncAfter, SyncHasTarget
  <2>2. CASE ~syncOperationEnabled
    BY <1>2, <2>2 DEF ReachedBy, SyncAfter, Reached
  <2> QED BY <2>1, <2>2
<1>3. ASSUME NEW act, NEW p \in Pair, NEW q \in Pair, p \in Ids(d, ms, act)
      PROVE  q \in Ids(d, ms, act)
  <2>1. PICK i \in Arrivals(d, ms) : ms[i].action = act /\ ms[i].id = p
    BY <1>3 DEF Ids
  <2>2. PICK j \in DOMAIN ms : ms[j].id = q /\ ms[j].from = ms[i].from /\ ms[j].action = ms[i].action
    BY <1>1, <2>1 DEF SentInPairs, Arrivals
  <2>3. j \in Arrivals(d, ms)
    BY <1>2, <2>1, <2>2 DEF Arrivals
  <2> QED BY <2>1, <2>2, <2>3 DEF Ids
<1>4. \A act : Paired(Ids(d, ms, act))
  BY <1>3 DEF Paired
<1>5. fingers'[d] = (fingers[d] \cup (Ids(d, ms, "down") \cap Pointers)) \ Ids(d, ms, "up")
  BY <1>1 DEF Send
<1> QED BY <1>4, <1>5 DEF Paired, Pair, Pointers

-----------------------------------------------------------------------------
(* The gestures *)

GestureInv == FingerTypes /\ OneGesture /\ GestureIsPressed

LEMMA TwoFingerModeLeft ==
  ASSUME InputTypeOK, FingerTypes, NEW d \in Devices, LeaveTwoFingerMode(d)
  PROVE  /\ isTwoFingerMode' \in [Devices -> BOOLEAN] /\ FingerTypes'
         /\ \A e \in Devices : firstFingerX'[e] \in Pixels(e) /\ secondFingerX'[e] \in Pixels(e)
         /\ ~isTwoFingerMode'[d] /\ \A e \in Devices : e # d => isTwoFingerMode'[e] = isTwoFingerMode[e]
BY PixelsAreIntegers DEF LeaveTwoFingerMode, SetFingers, InputTypeOK, FingerTypes

LEMMA TwoFingersSet ==
  ASSUME InputTypeOK, FingerTypes, NEW d \in Devices, NEW x \in Pixels(d),
         SetFingers(d, calculateVirtualFinger(x, d), x)
  PROVE  /\ FingerTypes'
         /\ \A e \in Devices : firstFingerX'[e] \in Pixels(e) /\ secondFingerX'[e] \in Pixels(e)
<1>1. calculateVirtualFinger(x, d) \in Pixels(d) /\ Pixels(d) \subseteq Int
  BY VirtualOnScreen, PixelsAreIntegers
<1> QED BY <1>1 DEF SetFingers, InputTypeOK, FingerTypes

LEMMA MouseKeepsGestures ==
  ASSUME InputInv, NEW d \in Devices, MouseStep(d)
  PROVE  InputTypeOK' /\ GestureInv'
<1> USE DEF channelVars, syncVars, mouseVars
<1>1. InputTypeOK /\ FingerTypes /\ OneGesture /\ GestureIsPressed
  BY DEF InputInv
<1>2. ASSUME NEW ms, Send(ms)
      PROVE  /\ fingers' \in [Devices -> SUBSET Pointers] /\ keys' \in [Devices -> SUBSET Keys]
             /\ missed' \subseteq Devices /\ syncOperationEnabled' \in BOOLEAN
  BY <1>1, <1>2, SendTyped
<1>3. CASE MouseDown(d)
  <2>1. /\ over = d /\ over' = d /\ button'
        /\ UNCHANGED <<open, stale, selected, changes, mods, timers>>
        /\ isDragging' = [isDragging EXCEPT ![d] = FALSE]
    BY <1>3 DEF MouseDown
  <2>2. isDragging' \in [Devices -> BOOLEAN] /\ \A e \in Devices : ~isDragging'[e]
    BY <1>1, <2>1 DEF InputTypeOK, GestureIsPressed
  <2>3. PICK x \in Pixels(d) :
          IF mods # {}
          THEN /\ isTwoFingerMode' = [isTwoFingerMode EXCEPT ![d] = TRUE]
               /\ SetFingers(d, calculateVirtualFinger(x, d), x)
               /\ Send(TwoFingers(d, "down", x))
          ELSE LeaveTwoFingerMode(d) /\ Send(<<Touch(d, "mouse", "down", x)>>)
    BY <1>3 DEF MouseDown
  <2>4. /\ isTwoFingerMode' \in [Devices -> BOOLEAN] /\ FingerTypes'
        /\ \A e \in Devices : firstFingerX'[e] \in Pixels(e) /\ secondFingerX'[e] \in Pixels(e)
        /\ \A e \in Devices : e # d => isTwoFingerMode'[e] = isTwoFingerMode[e]
    <3>1. CASE mods # {}
      BY <1>1, <2>3, <3>1, TwoFingersSet DEF InputTypeOK
    <3>2. CASE mods = {}
      BY <1>1, <2>3, <3>2, TwoFingerModeLeft
    <3> QED BY <3>1, <3>2
  <2>5. InputTypeOK'
    BY <1>1, <1>2, <2>1, <2>2, <2>3, <2>4 DEF InputTypeOK, Pixels
  <2> QED BY <1>1, <2>1, <2>2, <2>4, <2>5 DEF GestureInv, OneGesture, GestureIsPressed
<1>4. ASSUME LeaveTwoFingerMode(d), NEW ms, Send(ms), button' \in BOOLEAN, over' \in Devices \cup {None},
             UNCHANGED <<open, stale, selected, changes, mods, timers>>,
             isDragging' \in [Devices -> BOOLEAN],
             \A e \in Devices : ~isDragging'[e],
             over = d
      PROVE  InputTypeOK' /\ GestureInv'
  <2>1. \A e \in Devices : ~isTwoFingerMode'[e]
    BY <1>1, <1>4, TwoFingerModeLeft DEF GestureIsPressed
  <2>2. InputTypeOK'
    BY <1>1, <1>2, <1>4, TwoFingerModeLeft DEF InputTypeOK, Pixels
  <2> QED BY <1>1, <1>4, <2>1, <2>2, TwoFingerModeLeft DEF GestureInv, OneGesture, GestureIsPressed
<1>5. ASSUME isDragging' = [isDragging EXCEPT ![d] = FALSE], over = d
      PROVE  isDragging' \in [Devices -> BOOLEAN] /\ \A e \in Devices : ~isDragging'[e]
  BY <1>1, <1>5 DEF InputTypeOK, GestureIsPressed
<1>6. CASE MouseMoveWithoutModifier(d)
  <2>1. PICK ms : Send(ms)
    BY <1>6 DEF MouseMoveWithoutModifier
  <2> QED BY <1>1, <1>4, <1>5, <1>6, <2>1 DEF MouseMoveWithoutModifier, InputTypeOK
<1>7. CASE MoveTwoFingers(d)
  <2>1. PICK x \in Pixels(d) :
          SetFingers(d, calculateVirtualFinger(x, d), x) /\ Send(TwoFingers(d, "move", x))
    BY <1>7 DEF MoveTwoFingers
  <2>2. UNCHANGED <<open, stale, selected, changes, over, button, mods, isTwoFingerMode, isDragging, timers>>
    BY <1>7 DEF MoveTwoFingers
  <2>3. InputTypeOK'
    BY <1>1, <1>2, <2>1, <2>2, TwoFingersSet DEF InputTypeOK, Pixels
  <2> QED BY <1>1, <2>1, <2>2, <2>3, TwoFingersSet DEF GestureInv, OneGesture, GestureIsPressed
<1>8. CASE MoveOneFinger(d)
  <2>1. /\ over = d /\ button /\ ~isTwoFingerMode[d]
        /\ UNCHANGED <<open, stale, selected, changes, over, button, mods, isTwoFingerMode,
                       firstFingerX, secondFingerX, timers>>
    BY <1>8 DEF MoveOneFinger
  <2>2. PICK far, ms :
          far \in BOOLEAN /\ isDragging' = [isDragging EXCEPT ![d] = @ \/ far] /\ Send(ms)
    BY <1>8 DEF MoveOneFinger
  <2>3. isDragging' \in [Devices -> BOOLEAN] /\ \A e \in Devices : e # d => isDragging'[e] = isDragging[e]
    BY <1>1, <2>2 DEF InputTypeOK
  <2>4. InputTypeOK'
    BY <1>1, <1>2, <2>1, <2>2, <2>3 DEF InputTypeOK, Pixels
  <2> QED BY <1>1, <2>1, <2>3, <2>4 DEF GestureInv, OneGesture, GestureIsPressed, FingerTypes
<1>9. CASE MouseUp(d)
  <2>1. PICK ms : Send(ms)
    BY <1>9 DEF MouseUp
  <2> QED BY <1>1, <1>4, <1>5, <1>9, <2>1 DEF MouseUp, InputTypeOK
<1>10. CASE MouseLeave(d)
  <2>1. PICK ms : Send(ms)
    BY <1>10 DEF MouseLeave
  <2>2. isDragging' \in [Devices -> BOOLEAN] /\ \A e \in Devices : ~isDragging'[e]
    <3>1. CASE isTwoFingerMode[d]
      BY <1>1, <1>10, <3>1 DEF MouseLeave, OneGesture, InputTypeOK, GestureIsPressed
    <3>2. CASE ~isTwoFingerMode[d]
      BY <1>5, <1>10, <3>2 DEF MouseLeave
    <3> QED BY <3>1, <3>2
  <2> QED BY <1>1, <1>4, <1>10, <2>1, <2>2 DEF MouseLeave, EndGesture, InputTypeOK
<1> QED BY <1>3, <1>6, <1>7, <1>8, <1>9, <1>10 DEF MouseStep

\* Nothing but the mouse begins a gesture; the others leave what the mouse is over.
LEMMA OthersKeepGestures ==
  ASSUME InputInv, Next, ~\E d \in Devices : MouseStep(d)
  PROVE  InputTypeOK' /\ GestureInv'
<1> USE DEF channelVars, syncVars, mouseVars, gestureVars
<1>1. InputTypeOK /\ FingerTypes /\ OneGesture /\ GestureIsPressed
  BY DEF InputInv
<1>2. ASSUME NEW ms, Send(ms)
      PROVE  /\ fingers' \in [Devices -> SUBSET Pointers] /\ keys' \in [Devices -> SUBSET Keys]
             /\ missed' \subseteq Devices /\ syncOperationEnabled' \in BOOLEAN
  BY <1>1, <1>2, SendTyped
<1>3. ASSUME UNCHANGED gestureVars, UNCHANGED <<over, button>> \/ over = None
      PROVE  GestureInv'
  BY <1>1, <1>3, InputAssumption DEF GestureInv, FingerTypes, OneGesture, GestureIsPressed
<1>4. ASSUME NEW d \in Devices, Command(d) PROVE InputTypeOK' /\ GestureInv'
  <2>1. InputTypeOK'
    BY <1>1, <1>2, <1>4 DEF Command, InputTypeOK, Pixels
  <2> QED BY <1>3, <1>4, <2>1 DEF Command
<1>5. changes \in Nat /\ MaxChanges \in Nat /\ (Change => changes' \in 0..MaxChanges)
  BY <1>1, InputAssumption DEF InputTypeOK, Change
<1>6. ASSUME NEW d \in Devices,
             toggleDeviceSelection(d) \/ ChannelOpens(d) \/ ChannelCloses(d)
      PROVE  InputTypeOK' /\ GestureInv'
  <2>1. Change /\ UNCHANGED <<stale, over, button, mods, gestureVars, syncOperationEnabled, timers>>
    BY <1>6 DEF toggleDeviceSelection, ChannelOpens, ChannelCloses
  <2>2. open' \subseteq Devices /\ selected' \subseteq Devices
    BY <1>1, <1>6 DEF toggleDeviceSelection, ChannelOpens, ChannelCloses, Forgotten, InputTypeOK
  <2>3. fingers' \in [Devices -> SUBSET Pointers] /\ keys' \in [Devices -> SUBSET Keys]
    BY <1>1, <1>6 DEF toggleDeviceSelection, ChannelOpens, ChannelCloses, Forgotten, InputTypeOK
  <2>4. InputTypeOK'
    BY <1>1, <1>5, <2>1, <2>2, <2>3 DEF InputTypeOK, Pixels, Change
  <2> QED BY <1>3, <2>1, <2>4
<1>7. ASSUME NEW d \in Devices, ConnectionCleaned(d) PROVE InputTypeOK' /\ GestureInv'
  <2>1. /\ isTwoFingerMode' \in [Devices -> BOOLEAN] /\ isDragging' \in [Devices -> BOOLEAN]
        /\ ~isTwoFingerMode'[d] /\ ~isDragging'[d]
        /\ \A e \in Devices : e # d => isTwoFingerMode'[e] = isTwoFingerMode[e]
        /\ \A e \in Devices : e # d => isDragging'[e] = isDragging[e]
    BY <1>1, <1>7 DEF ConnectionCleaned, InputTypeOK
  <2>2. /\ Change /\ over' = (IF over = d THEN None ELSE over)
        /\ stale' = (IF isTwoFingerMode[d] THEN stale \cup {d} ELSE stale)
        /\ UNCHANGED <<selected, button, mods, firstFingerX, secondFingerX, syncOperationEnabled, timers>>
    BY <1>7 DEF ConnectionCleaned
  <2>3. /\ open' \subseteq Devices /\ fingers' \in [Devices -> SUBSET Pointers]
        /\ keys' \in [Devices -> SUBSET Keys]
    BY <1>1, <1>7 DEF ConnectionCleaned, Forgotten, InputTypeOK
  <2>4. stale' \subseteq Devices /\ over' \in Devices \cup {None}
    BY <1>1, <2>2 DEF InputTypeOK
  <2>5. InputTypeOK'
    BY <1>1, <1>5, <2>1, <2>2, <2>3, <2>4 DEF InputTypeOK, Pixels, Change
  <2>6. FingerTypes' /\ OneGesture'
    <3>1. FingerTypes'
      BY <1>1, <2>2 DEF FingerTypes
    <3>2. OneGesture'
      BY <1>1, <2>1 DEF OneGesture
    <3> QED BY <3>1, <3>2
  <2>7. GestureIsPressed'
    <3> SUFFICES ASSUME NEW e \in Devices, isTwoFingerMode'[e] \/ isDragging'[e]
                 PROVE  over' = e /\ button'
      BY DEF GestureIsPressed
    <3>1. e # d /\ (isTwoFingerMode[e] \/ isDragging[e])
      BY <2>1
    <3> QED BY <1>1, <2>2, <3>1 DEF GestureIsPressed
  <2> QED BY <2>5, <2>6, <2>7 DEF GestureInv
<1>8. ASSUME NEW d \in Devices, NEW k \in Keys, PressKey(d, k) \/ PressVolume(d, k) \/ KeyTimer(d, k)
      PROVE  InputTypeOK' /\ GestureInv'
  <2>1. PICK ms : Send(ms)
    BY <1>8 DEF PressKey, PressVolume, KeyTimer
  <2>2. UNCHANGED <<open, stale, selected, changes, over, button, mods, gestureVars>>
    BY <1>8 DEF PressKey, PressVolume, KeyTimer
  <2>3. \A t \in Devices, j \in Keys : timers[t][j] \in Nat /\ timers[t][j] <= MaxTimers
    BY <1>1, InputAssumption DEF InputTypeOK
  <2>4. timers \in [Devices -> [Keys -> 0..MaxTimers]]
    BY <1>1 DEF InputTypeOK
  <2>5. ASSUME NEW t \in Devices, timers[t][k] < MaxTimers
        PROVE  Wait(t, k) \in [Devices -> [Keys -> 0..MaxTimers]]
    <3>1. timers[t][k] + 1 \in 0..MaxTimers
      BY <2>3, <2>5, InputAssumption
    <3> QED BY <2>4, <3>1 DEF Wait
  <2>6. timers' \in [Devices -> [Keys -> 0..MaxTimers]]
    <3>1. CASE PressKey(d, k)
      BY <2>5, <3>1 DEF PressKey
    <3>2. CASE PressVolume(d, k)
      <4>1. \A t \in VolumeTargets(d) : timers[t][k] < MaxTimers
        BY <3>2 DEF PressVolume
      <4>2. \A t \in Devices : timers'[t] = IF t \in VolumeTargets(d) THEN Wait(t, k)[t] ELSE timers[t]
        BY <3>2 DEF PressVolume
      <4>3. \A t \in Devices : timers'[t] \in [Keys -> 0..MaxTimers]
        BY <2>4, <2>5, <4>1, <4>2
      <4> QED BY <3>2, <4>3 DEF PressVolume
    <3>3. CASE KeyTimer(d, k)
      <4>1. timers[d][k] - 1 \in 0..MaxTimers
        BY <2>3, <3>3, InputAssumption DEF KeyTimer
      <4> QED BY <2>4, <3>3, <4>1 DEF KeyTimer
    <3> QED BY <1>8, <3>1, <3>2, <3>3
  <2>7. InputTypeOK'
    BY <1>1, <1>2, <2>1, <2>2, <2>6 DEF InputTypeOK, Pixels
  <2> QED BY <1>3, <2>2, <2>7
<1>9. ASSUME NEW k \in Modifiers, ModifierUp(k) PROVE InputTypeOK' /\ GestureInv'
  <2>1. PICK ms : Send(ms)
    BY <1>9 DEF ModifierUp
  <2>2. /\ isTwoFingerMode' = [d \in Devices |-> FALSE] /\ mods' = mods \ {k} /\ stale' = {}
        /\ firstFingerX' = [d \in Devices |-> 0] /\ secondFingerX' = [d \in Devices |-> 0]
        /\ UNCHANGED <<open, selected, changes, over, button, isDragging, timers>>
    BY <1>9 DEF ModifierUp
  <2>3. InputTypeOK'
    BY <1>1, <1>2, <2>1, <2>2, PixelsAreIntegers DEF InputTypeOK, Pixels
  <2> QED BY <1>1, <2>2, <2>3 DEF GestureInv, FingerTypes, OneGesture, GestureIsPressed
<1>10. ASSUME NEW k \in Modifiers, ModifierDown(k) \/ ModifierUpUnseen(k)
       PROVE  InputTypeOK' /\ GestureInv'
  <2>1. /\ Send(<<>>) /\ UNCHANGED <<open, stale, selected, changes, over, button, gestureVars, timers>>
        /\ mods' \subseteq Modifiers
    BY <1>1, <1>10 DEF ModifierDown, ModifierUpUnseen, InputTypeOK
  <2>2. InputTypeOK'
    BY <1>1, <1>2, <2>1 DEF InputTypeOK, Pixels
  <2> QED BY <1>3, <2>1, <2>2
<1>11. CASE MouseElsewhere
  <2>1. /\ Send(<<>>) /\ UNCHANGED <<open, stale, selected, changes, mods, gestureVars, timers>>
        /\ over = None /\ over' \in Devices \cup {None} /\ button' \in BOOLEAN
    BY <1>1, <1>11 DEF MouseElsewhere, InputTypeOK
  <2>2. InputTypeOK'
    BY <1>1, <1>2, <2>1 DEF InputTypeOK, Pixels
  <2> QED BY <1>3, <2>1, <2>2
<1>12. CASE SyncClick
  <2>1. /\ Change /\ syncOperationEnabled' \in BOOLEAN
        /\ UNCHANGED <<open, stale, selected, over, button, mods, gestureVars, fingers, keys, timers>>
    BY <1>12 DEF SyncClick
  <2>2. InputTypeOK'
    BY <1>1, <1>5, <2>1 DEF InputTypeOK, Pixels, Change
  <2> QED BY <1>3, <2>1, <2>2
<1>13. ASSUME NEW d \in Devices, DeviceStep(d) PROVE InputTypeOK' /\ GestureInv'
  BY <1>4, <1>6, <1>7, <1>13 DEF DeviceStep
<1>14. \/ \E d \in Devices : DeviceStep(d)
       \/ \E d \in Devices, k \in Keys : PressKey(d, k) \/ PressVolume(d, k) \/ KeyTimer(d, k)
       \/ \E k \in Modifiers : ModifierDown(k) \/ ModifierUp(k) \/ ModifierUpUnseen(k)
       \/ MouseElsewhere \/ SyncClick
  BY DEF Next
<1> QED BY <1>8, <1>9, <1>10, <1>11, <1>12, <1>13, <1>14

LEMMA InitInput == Init => InputInv
<1> SUFFICES ASSUME Init PROVE InputInv
  OBVIOUS
<1>1. InputTypeOK
  <2>1. 0 \in 0..MaxTimers /\ 0 \in 0..MaxChanges
    BY InputAssumption
  <2> QED BY <2>1, PixelsAreIntegers DEF Init, InputTypeOK
<1> QED BY <1>1 DEF Init, InputInv, FingerTypes, OneGesture, GestureIsPressed, TouchesOnScreen

LEMMA InputInvKept == ASSUME InputInv, [Next]_vars PROVE InputInv'
<1>1. CASE UNCHANGED vars
  BY <1>1 DEF vars, channelVars, syncVars, mouseVars, gestureVars, sentVars, InputInv, InputTypeOK,
              FingerTypes, OneGesture, GestureIsPressed, TouchesOnScreen, Pixels
<1>2. CASE Next
  <2>1. InputTypeOK' /\ GestureInv'
    BY <1>2, MouseKeepsGestures, OthersKeepGestures
  <2>2. TouchesOnScreen'
    BY <1>2, StepSends, SendsLand DEF InputInv, SendsNothing, TouchesOnScreen
  <2> QED BY <2>1, <2>2 DEF InputInv, GestureInv
<1> QED BY <1>1, <1>2

\* The variables hold what their declarations say, for any screens: the fingers a
\* video remembers are on it, also the mirrored one that calculateVirtualFinger
\* computes (app.js:5024).
THEOREM InputTypesHold == Spec => []InputTypeOK
<1>1. InputInv => InputTypeOK
  BY DEF InputInv
<1> QED BY <1>1, InitInput, InputInvKept, PTL DEF Spec

\* However mouse, modifiers and lost connections interleave, a gesture lives only
\* while the button is down over its video (app.js:5042, 5189, 5214, 5231).
THEOREM GesturesEndWithButton == Spec => []GestureIsPressed
<1>1. InputInv => GestureIsPressed
  BY DEF InputInv
<1> QED BY <1>1, InitInput, InputInvKept, PTL DEF Spec

\* Whatever the sizes of the screens, a touch of one is rounded and clamped to a
\* pixel of every other (app.js:4352, 4456).
THEOREM TouchesLand == Spec => []TouchesOnScreen
<1>1. InputInv => TouchesOnScreen
  BY DEF InputInv
<1> QED BY <1>1, InitInput, InputInvKept, PTL DEF Spec

LEMMA StepMirrors ==
  ASSUME InputInv, [Next]_vars, syncOperationEnabled,
         NEW d \in Connected, NEW e \in Connected, {d, e} \subseteq open',
         fingers[d] = fingers[e], keys[d] = keys[e]
  PROVE  fingers'[d] = fingers'[e] /\ keys'[d] = keys'[e]
<1>1. d \in Devices /\ e \in Devices
  BY DEF Connected, InputInv, InputTypeOK
<1>2. CASE Sends
  BY <1>2, SendsMirror DEF InputInv
<1>3. CASE SendsNothing
  BY <1>1, <1>3 DEF SendsNothing
<1>4. CASE UNCHANGED vars
  BY <1>4 DEF vars, sentVars
<1> QED BY <1>2, <1>3, <1>4, StepSends

\* Devices that are synced and in the same state of input hear the same messages of
\* each handler: broadcastEventToDevices (app.js:4564) leaves none out.
THEOREM MirrorsAreEqual == Spec => MirrorsStayEqual
<1>1. InputInv /\ [Next]_vars =>
        [\A d, e \in Connected :
           (/\ syncOperationEnabled /\ {d, e} \subseteq open'
            /\ fingers[d] = fingers[e] /\ keys[d] = keys[e])
           => fingers'[d] = fingers'[e] /\ keys'[d] = keys'[e]]_vars
  BY StepMirrors
<1> QED BY <1>1, InitInput, InputInvKept, PTL DEF Spec, MirrorsStayEqual

AllPaired == \A d \in Devices : Paired(fingers[d])

LEMMA StepPaired ==
  ASSUME InputInv, SyncHasTarget, AllPaired, [Next]_vars PROVE AllPaired'
<1> SUFFICES ASSUME NEW d \in Devices PROVE Paired(fingers'[d])
  BY DEF AllPaired
<1>1. Paired(fingers[d]) /\ InputTypeOK
  BY DEF AllPaired, InputInv
<1>2. CASE Sends
  BY <1>1, <1>2, SendsPaired
<1>3. CASE SendsNothing
  BY <1>1, <1>3 DEF SendsNothing, Paired
<1>4. CASE UNCHANGED vars
  BY <1>1, <1>4 DEF vars, sentVars
<1> QED BY <1>2, <1>3, <1>4, StepSends

\* As long as the sync mode has a device to sync to, a device never keeps one of the
\* two fingers of a gesture: both handlers that lift fingers lift both (app.js:5195,
\* 5231), and sendControlMessage sends both the same way.
THEOREM FingersStayPaired == Spec => FingersPaired
<1>1. Init => AllPaired
  BY DEF Init, AllPaired, Paired
<1>2. InputInv /\ SyncHasTarget /\ AllPaired /\ [Next]_vars => AllPaired'
  BY StepPaired
<1>3. InputInv /\ [Next]_vars => InputInv'
  BY InputInvKept
<1>4. SyncHasTarget <=> (syncOperationEnabled => Connected # {})
  BY DEF SyncHasTarget
<1>5. AllPaired => \A d \in Devices : Pair \subseteq fingers[d] \/ Pair \cap fingers[d] = {}
  BY DEF AllPaired, Paired
<1> QED BY <1>1, <1>2, <1>3, <1>4, <1>5, InitInput, PTL DEF Spec, FingersPaired
=============================================================================

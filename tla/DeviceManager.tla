--------------------------- MODULE DeviceManager ---------------------------
(***************************************************************************)
(* The device manager of one adb endpoint (internal/device/device.go): its *)
(* device table, the watcher that follows adb's track-devices stream       *)
(* (third_party/adb/device_watcher.go), and the reconnection that runs     *)
(* when the watcher loses adb. The callbacks a reconnection makes are in   *)
(* EndpointLife, which adds the endpoint's life around this module.        *)
(*                                                                         *)
(* Goroutine 0 is the one that calls StartWatcher; goroutine w > 0 reads   *)
(* the events of watcher w. A goroutine that loses adb reconnects itself,  *)
(* so its stack holds one frame of the retry loop for each reconnection it *)
(* has not returned from: depth counts them.                               *)
(***************************************************************************)
EXTENDS Integers, Sequences

CONSTANTS
  Serials,     (* adb serials                                             *)
  MaxTid,      (* adb's transport ids are 1 .. MaxTid                     *)
  MaxChanges   (* how many times adb, its devices or the network change   *)

ASSUME DeviceAssumption ==
  /\ MaxTid \in Nat \ {0}
  /\ MaxChanges \in Nat

\* A watcher ends only when its connection breaks, so there are no more than these.
Watchers   == 1 .. MaxChanges + 1
Goroutines == 0 .. MaxChanges + 1

Tids   == 1 .. MaxTid
Keys   == Serials \X Tids                                \* DeviceKey
States == {"absent", "device", "offline", "unauthorized"}
Forever == -1                                            \* retryCount < 0

VARIABLES
  \* adb: the server answers, the devices it has
  adbUp, plugged, changes,
  \* the manager
  table,       \* devices: the status of each key, "none" when it is not there
  stopped,     \* stopChan is closed
  retry,       \* retryCount
  \* the library's watchers
  conn,        \* the track-devices connection
  wire,        \* messages adb has sent on it and the watcher has not read
  known,       \* lastKnownStates
  events,      \* events of the last message the manager has not taken yet
  heard,       \* history: the serials this watcher has been told of
  \* the goroutines
  pc, depth, attempts

adbVars     == <<adbUp, plugged, changes>>
managerVars == <<table, stopped, retry>>
watchVars   == <<conn, wire, known, events, heard>>
goVars      == <<pc, depth, attempts>>
dvars       == <<adbVars, managerVars, watchVars, goVars>>

Pcs   == {"none", "check", "consume", "retry", "lost", "dropping", "removing", "unwind", "done"}
Unheard == [s \in Serials |-> "absent"]

\* A device adb may have in one of these states; one that is absent has no id.
Plug(states) == [st : states \ {"absent"}, tid : Tids] \cup [st : states \cap {"absent"}, tid : {1}]

DInit ==
  /\ adbUp = TRUE /\ changes = MaxChanges
  /\ plugged \in [Serials -> Plug({"absent", "device"})]
  /\ table = [k \in Keys |-> "none"]
  /\ stopped = FALSE
  /\ conn = [w \in Watchers |-> "none"]
  /\ wire = [w \in Watchers |-> <<>>]
  /\ known = [w \in Watchers |-> Unheard]
  /\ events = [w \in Watchers |-> {}]
  /\ heard = [w \in Watchers |-> {}]
  /\ pc = [g \in Goroutines |-> "none"]
  /\ depth = [g \in Goroutines |-> 0]
  /\ attempts = [g \in Goroutines |-> 0]

-----------------------------------------------------------------------------
(* adb. Every change goes out on each track-devices connection.             *)

Change == changes > 0 /\ changes' = changes - 1

Broken(c) == IF c = "track" THEN "eof" ELSE c

\* A device is plugged in, pulled out, or changes its state; one that comes has
\* any transport id.
DeviceChanges(s) ==
  /\ Change /\ adbUp
  /\ \E d \in Plug(States \ {plugged[s].st}) :
       /\ "absent" \in {plugged[s].st, d.st} \/ d.tid = plugged[s].tid
       /\ plugged' = [plugged EXCEPT ![s] = d]
  /\ wire' = [w \in Watchers |->
                IF conn[w] = "track"
                  THEN Append(wire[w], [x \in Serials |-> plugged'[x].st]) ELSE wire[w]]
  /\ UNCHANGED <<adbUp, managerVars, conn, known, events, heard, goVars>>

\* The adb server goes away; when it comes back its devices may be others.
AdbDown ==
  /\ Change /\ adbUp
  /\ adbUp' = FALSE
  /\ conn' = [w \in Watchers |-> Broken(conn[w])]
  /\ UNCHANGED <<plugged, managerVars, wire, known, events, heard, goVars>>

AdbBack ==
  /\ ~adbUp
  /\ adbUp' = TRUE
  /\ plugged' \in [Serials -> Plug({"absent", "device"})]
  /\ UNCHANGED <<changes, managerVars, watchVars, goVars>>

\* A connection breaks and the server stays.
ConnBreaks(w) ==
  /\ Change /\ conn[w] = "track"
  /\ conn' = [conn EXCEPT ![w] = "eof"]
  /\ UNCHANGED <<adbUp, plugged, managerVars, wire, known, events, heard, goVars>>

AdbStep ==
  \/ \E s \in Serials : DeviceChanges(s)
  \/ \E w \in Watchers : ConnBreaks(w)
  \/ AdbDown \/ AdbBack

-----------------------------------------------------------------------------
(* publishDevices.                                                          *)

\* connectToTrackDevices: adb answers with its list, or the watcher ends.
WatchDial(w) ==
  /\ conn[w] = "dial"
  /\ \/ /\ adbUp
        /\ conn' = [conn EXCEPT ![w] = "track"]
        /\ wire' = [wire EXCEPT ![w] = <<[s \in Serials |-> plugged[s].st]>>]
     \/ /\ ~adbUp
        /\ conn' = [conn EXCEPT ![w] = "closed"]
        /\ UNCHANGED wire
  /\ UNCHANGED <<adbVars, managerVars, known, events, heard, goVars>>

\* calculateStateDiffs, then one send per event on a channel without a buffer.
Diffs(old, new) ==
  {[serial |-> s, state |-> new[s]] : s \in {x \in Serials : old[x] # new[x]}}

WatchRead(w) ==
  /\ conn[w] \in {"track", "eof"}
  /\ events[w] = {} /\ wire[w] # <<>>
  /\ LET new == Head(wire[w]) IN
     /\ events' = [events EXCEPT ![w] = Diffs(known[w], new)]
     /\ known' = [known EXCEPT ![w] = new]
     /\ heard' = [heard EXCEPT ![w] = @ \cup {s \in Serials : new[s] # "absent"}]
  /\ wire' = [wire EXCEPT ![w] = Tail(@)]
  /\ UNCHANGED <<adbVars, managerVars, conn, goVars>>

\* Mutant: lastKnownStates is forgotten when the watcher reconnects.
WatchLostForgets(w) ==
  /\ conn[w] = "eof" /\ events[w] = {}
  /\ \E c \in {"dial", "closed"} : conn' = [conn EXCEPT ![w] = c]
  /\ wire' = [wire EXCEPT ![w] = <<>>]
  /\ known' = [known EXCEPT ![w] = Unheard]
  /\ UNCHANGED <<adbVars, managerVars, events, heard, goVars>>

\* A read fails: a connection reset is followed by another dial, with what was
\* last known; any other error ends the watcher. What was not read is lost.
WatchLost(w) ==
  /\ conn[w] = "eof" /\ events[w] = {}
  /\ \E c \in {"dial", "closed"} : conn' = [conn EXCEPT ![w] = c]
  /\ wire' = [wire EXCEPT ![w] = <<>>]
  /\ UNCHANGED <<adbVars, managerVars, known, events, heard, goVars>>

WatchStep(w) == WatchDial(w) \/ WatchRead(w) \/ WatchLost(w)

-----------------------------------------------------------------------------
(* handleDeviceStateChange.                                                 *)

KeysBySerial(s) == {k \in Keys : k[1] = s /\ table[k] # "none"}

SetStatus(keys, st) == [k \in Keys |-> IF k \in keys THEN st ELSE table[k]]

\* The keys ListDevices -l answers with for these serials.
Listed(ss) ==
  {<<s, plugged[s].tid>> : s \in {x \in ss : adbUp /\ plugged[x].st = "device"}}

\* discoverAndroidDevices: what is listed is registered or set online; the list
\* may fail. A device that does not answer getprop is registered all the same.
Discovers(ss) == \E found \in {{}, Listed(ss)} : table' = SetStatus(found, "online")

Handle(w) ==
  /\ pc[w] = "consume"
  /\ \E e \in events[w] :
       LET keys == KeysBySerial(e.serial) IN
       /\ events' = [events EXCEPT ![w] = @ \ {e}]
       /\ \/ e.state = "device" /\ keys = {} /\ Discovers({e.serial})
          \/ e.state = "device" /\ keys # {} /\ table' = SetStatus(keys, "online")
          \/ e.state \in {"offline", "unauthorized"} /\ table' = SetStatus(keys, "offline")
          \/ e.state = "absent" /\ table' = SetStatus(keys, "none")
  /\ UNCHANGED <<adbVars, stopped, retry, conn, wire, known, heard, goVars>>

\* Nothing of a watcher matters once nobody takes its events.
Forget(w) ==
  /\ conn' = [conn EXCEPT ![w] = "none"]
  /\ wire' = [wire EXCEPT ![w] = <<>>]
  /\ known' = [known EXCEPT ![w] = Unheard]
  /\ events' = [events EXCEPT ![w] = {}]
  /\ heard' = [heard EXCEPT ![w] = {}]

\* The goroutine of a stopped manager leaves its watcher behind.
Abandon(w) ==
  /\ pc[w] = "consume" /\ stopped
  /\ pc' = [pc EXCEPT ![w] = "done"]
  /\ Forget(w)
  /\ UNCHANGED <<adbVars, managerVars, depth, attempts>>

-----------------------------------------------------------------------------
(* startDeviceWatcher and invokeConnectionLostAndMaybeReconnect.            *)

\* invokeConnectionLostAndMaybeReconnect up to its loop, or to onLost.
Loses(g) ==
  /\ pc' = [pc EXCEPT ![g] = IF retry # 0 THEN "retry" ELSE "lost"]
  /\ attempts' = [attempts EXCEPT ![g] = 0]

\* Where a goroutine goes on when a call of startDeviceWatcher returns.
Returns(n) == IF n > 0 THEN "unwind" ELSE "done"

\* startDeviceWatcher, adb answers: a new watcher, and a goroutine for it.
SpawnWatcher(g) ==
  /\ pc[g] = "check" /\ adbUp
  /\ \E w \in Watchers :
       /\ pc[w] = "none" /\ \A v \in Watchers : v < w => pc[v] # "none"
       /\ conn' = [conn EXCEPT ![w] = "dial"]
       /\ pc' = [pc EXCEPT ![w] = "consume", ![g] = Returns(depth[g])]
  /\ UNCHANGED <<adbVars, managerVars, wire, known, events, heard, depth, attempts>>

CheckFails(g) ==
  /\ pc[g] = "check" /\ ~adbUp
  /\ Loses(g)
  /\ UNCHANGED <<adbVars, managerVars, watchVars, depth>>

\* The watcher closed its channel with an error.
WatcherEnds(g) ==
  /\ g \in Watchers /\ pc[g] = "consume"
  /\ conn[g] = "closed" /\ events[g] = {}
  /\ Loses(g)
  /\ Forget(g)
  /\ UNCHANGED <<adbVars, managerVars, depth>>

\* The loop finds adb again and calls startDeviceWatcher.
RetryFinds(g) ==
  /\ pc[g] = "retry" /\ adbUp
  /\ pc' = [pc EXCEPT ![g] = "check"]
  /\ depth' = [depth EXCEPT ![g] = @ + 1]
  /\ attempts' = [attempts EXCEPT ![g] = 0]
  /\ UNCHANGED <<adbVars, managerVars, watchVars>>

\* An attempt fails and others follow; of endless ones the number is not counted.
RetryAgain(g) ==
  /\ pc[g] = "retry" /\ ~adbUp
  /\ retry > 0 /\ attempts[g] + 1 < retry
  /\ attempts' = [attempts EXCEPT ![g] = @ + 1]
  /\ UNCHANGED <<adbVars, managerVars, watchVars, pc, depth>>

\* Mutant: the bound is compared without looking whether there is one.
RetryExhaustedAlways(g) ==
  /\ pc[g] = "retry" /\ ~adbUp
  /\ attempts[g] + 1 >= retry
  /\ pc' = [pc EXCEPT ![g] = "lost"]
  /\ attempts' = [attempts EXCEPT ![g] = 0]
  /\ UNCHANGED <<adbVars, managerVars, watchVars, depth>>

RetryExhausted(g) ==
  /\ pc[g] = "retry" /\ ~adbUp
  /\ retry > 0 /\ attempts[g] + 1 >= retry
  /\ pc' = [pc EXCEPT ![g] = "lost"]
  /\ attempts' = [attempts EXCEPT ![g] = 0]
  /\ UNCHANGED <<adbVars, managerVars, watchVars, depth>>

\* Mutant: the watcher's goroutine does not return after its reconnection.
UnwindStays(g) ==
  /\ pc[g] = "unwind"
  /\ depth' = [depth EXCEPT ![g] = @ - 1]
  /\ pc' = [pc EXCEPT ![g] = IF depth[g] > 1 THEN "unwind" ELSE "consume"]
  /\ UNCHANGED <<adbVars, managerVars, watchVars, attempts>>

\* startDeviceWatcher returned to a frame of the loop, which reports and returns.
Unwind(g) ==
  /\ pc[g] = "unwind"
  /\ depth' = [depth EXCEPT ![g] = @ - 1]
  /\ pc' = [pc EXCEPT ![g] = Returns(depth[g] - 1)]
  /\ UNCHANGED <<adbVars, managerVars, watchVars, attempts>>
=============================================================================

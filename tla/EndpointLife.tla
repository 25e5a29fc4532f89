---------------------------- MODULE EndpointLife ----------------------------
(***************************************************************************)
(* The life of one adb endpoint around its device manager: it is added     *)
(* (HandleAddEndpoint, or main for the command line), served, lost and     *)
(* removed, by an administrator or by the callback main installs           *)
(* (internal/endpoint/manager.go, internal/device/unified_manager.go, the  *)
(* callbacks of main.go). An endpoint's id is random and never used twice, *)
(* so one endpoint is modelled.                                            *)
(***************************************************************************)
EXTENDS DeviceManager

CONSTANT Retries   (* what the endpoint's retry= may be *)

ASSUME RetryAssumption == Retries \subseteq Int

VARIABLES
  listed,      \* the endpoint manager has the endpoint
  configured,  \* its retry=
  managed,     \* managers holds the device manager
  epStatus,    \* endpointStatus, "none" when there is no entry
  adder,       \* the goroutine that adds the endpoint
  remover      \* the goroutine of an administrator's removal

lifeVars == <<listed, configured, managed, epStatus, adder, remover>>
vars     == <<dvars, lifeVars>>

\* AddEndpoint has succeeded and OnEndpointAdded is called.
Init ==
  /\ DInit
  /\ retry = 0
  /\ configured \in Retries
  /\ listed = TRUE /\ managed = FALSE /\ epStatus = "none"
  /\ adder = "client" /\ remover = "none"

GetRetry == IF listed THEN configured ELSE 0

-----------------------------------------------------------------------------
(* addEndpointManager.                                                      *)

AddClient ==
  /\ adder = "client"
  /\ adder' = IF listed THEN "store" ELSE "done"
  /\ UNCHANGED <<dvars, listed, configured, managed, epStatus, remover>>

AddStore ==
  /\ adder = "store"
  /\ retry' = GetRetry
  /\ managed' = TRUE
  /\ epStatus' = "ok"
  /\ adder' = "discover"
  /\ UNCHANGED <<adbVars, table, stopped, watchVars, goVars, listed, configured, remover>>

\* RunInitialDiscovery, then go StartWatcher.
AddDiscover ==
  /\ adder = "discover"
  /\ Discovers(Serials)
  /\ pc' = [pc EXCEPT ![0] = "check"]
  /\ adder' = "done"
  /\ UNCHANGED <<adbVars, stopped, retry, watchVars, depth, attempts, listed, configured,
                 managed, epStatus, remover>>

-----------------------------------------------------------------------------
(* Removal.                                                                 *)

\* removeEndpointManager.
RemoveManager ==
  /\ managed' = FALSE
  /\ stopped' = (stopped \/ managed)
  /\ epStatus' = IF managed THEN "none" ELSE epStatus

\* HandleRemoveEndpoint: RemoveEndpoint, then OnEndpointRemoved.
AdminRemoves ==
  /\ remover = "none" /\ listed
  /\ listed' = FALSE
  /\ remover' = "removing"
  /\ UNCHANGED <<dvars, configured, managed, epStatus, adder>>

AdminRemoved ==
  /\ remover = "removing"
  /\ RemoveManager
  /\ remover' = "done"
  /\ UNCHANGED <<adbVars, table, retry, watchVars, goVars, listed, configured, adder>>

-----------------------------------------------------------------------------
(* The device manager's steps with the callbacks they make.                 *)

\* onReconnecting, when there are attempts to come.
CallsReconnecting == epStatus' = IF retry # 0 THEN "reconnecting" ELSE epStatus

LosesAdb(g) ==
  /\ CheckFails(g) \/ WatcherEnds(g)
  /\ CallsReconnecting
  /\ UNCHANGED <<listed, configured, managed, adder, remover>>

GivesUp(g) ==
  /\ RetryExhausted(g)
  /\ epStatus' = "reconnect_failed"
  /\ UNCHANGED <<listed, configured, managed, adder, remover>>

\* Mutant: onReconnected is not called.
ReconnectedSilently(g) ==
  /\ Unwind(g)
  /\ UNCHANGED lifeVars

Reconnected(g) ==
  /\ Unwind(g)
  /\ epStatus' = "ok"
  /\ UNCHANGED <<listed, configured, managed, adder, remover>>

\* onConnectionLost in main: an endpoint with a retry stays; else its devices go
\* offline and it is removed.
ConnectionLost(g) ==
  /\ pc[g] = "lost"
  /\ \/ /\ GetRetry # 0
        /\ pc' = [pc EXCEPT ![g] = Returns(depth[g])]
        /\ UNCHANGED <<table, epStatus>>
     \/ /\ GetRetry = 0
        /\ pc' = [pc EXCEPT ![g] = "dropping"]
        /\ epStatus' = "removed"
        /\ table' = IF managed THEN SetStatus({k \in Keys : table[k] # "none"}, "offline")
                    ELSE table
  /\ UNCHANGED <<adbVars, stopped, retry, watchVars, depth, attempts, listed, configured,
                 managed, adder, remover>>

DropEndpoint(g) ==
  /\ pc[g] = "dropping"
  /\ pc' = [pc EXCEPT ![g] = IF listed THEN "removing" ELSE Returns(depth[g])]
  /\ listed' = FALSE
  /\ UNCHANGED <<adbVars, managerVars, watchVars, depth, attempts, configured, managed,
                 epStatus, adder, remover>>

\* Mutant: the endpoint is removed and its device manager stays.
DroppedOnly(g) ==
  /\ pc[g] = "removing"
  /\ pc' = [pc EXCEPT ![g] = Returns(depth[g])]
  /\ UNCHANGED <<adbVars, managerVars, watchVars, depth, attempts, lifeVars>>

Dropped(g) ==
  /\ pc[g] = "removing"
  /\ RemoveManager
  /\ pc' = [pc EXCEPT ![g] = Returns(depth[g])]
  /\ UNCHANGED <<adbVars, table, retry, watchVars, depth, attempts, listed, configured, adder,
                 remover>>

Silent(A) == A /\ UNCHANGED lifeVars

GoStep(g) ==
  \/ Silent(SpawnWatcher(g)) \/ Silent(RetryFinds(g)) \/ Silent(RetryAgain(g))
  \/ LosesAdb(g) \/ GivesUp(g) \/ Reconnected(g)
  \/ ConnectionLost(g) \/ DropEndpoint(g) \/ Dropped(g)

WatcherStep(w) == Silent(WatchStep(w)) \/ Silent(Handle(w)) \/ Silent(Abandon(w))

AdderStep == AddClient \/ AddStore \/ AddDiscover

Next ==
  \/ AdderStep \/ AdminRemoves \/ AdminRemoved
  \/ \E g \in Goroutines : GoStep(g)
  \/ \E w \in Watchers : WatcherStep(w)
  \/ Silent(AdbStep)

Spec == Init /\ [][Next]_vars

\* Goroutines run. adb, its devices, the network and the administrator owe nothing.
Fairness ==
  /\ WF_vars(AdderStep) /\ WF_vars(AdminRemoved)
  /\ \A g \in Goroutines : WF_vars(GoStep(g))
  /\ \A w \in Watchers : WF_vars(WatcherStep(w))

FairSpec == Spec /\ Fairness
-----------------------------------------------------------------------------
(* Properties.                                                              *)

\* The goroutines that watch adb, look for it, or give it up.
Active ==
  {g \in Goroutines : pc[g] \in {"check", "consume", "retry", "lost", "dropping", "removing"}}

\* One goroutine at a time takes care of the endpoint, however reconnections nest
\* (startDeviceWatcher is called from the loop, and calls it): events of two
\* watchers are never applied to the device table side by side, and nobody gives
\* up an endpoint another goroutine watches.
OneCaretaker == \A g, h \in Active : g = h

\* The watcher has read everything adb sent it and the manager has handled it.
InSync(w) ==
  pc[w] = "consume" /\ conn[w] = "track" /\ wire[w] = <<>> /\ events[w] = {} /\ managed

\* A watcher that is in sync and has been told of a serial, now or before a reset
\* of its connection, leaves the table as adb has it (handleDeviceStateChange):
\* online or missing for a device adb reports, not online for another state, and
\* no entry for a device that went away.
Agrees(k, st) ==
  CASE st = "device" -> table[k] # "offline"
    [] st = "absent" -> table[k] = "none"
    [] OTHER         -> table[k] # "online"

TableFollowsWatcher ==
  \A w \in Watchers : InSync(w) =>
    \A k \in Keys : k[1] \in heard[w] => Agrees(k, known[w][k[1]])

\* Nobody reconnects, gives up or is about to report.
Quiet == \A g \in Goroutines : pc[g] \in {"none", "consume", "done"}

Watched == \E w \in Watchers : pc[w] = "consume" /\ ~stopped

\* An endpoint that is watched is shown as connected once nobody is about to report
\* (onReconnecting, onReconnected, onReconnectFailed): the late report of an outer
\* reconnection never leaves a working endpoint "reconnecting" or "failed".
WatchedIsShown == Quiet /\ Watched /\ managed => epStatus = "ok"

\* retry=-1 (README.md:138, retry for ever): an endpoint whose adb stays up is in
\* the end watched and shown as connected, unless it is removed.
EndpointRecovers ==
  configured = Forever =>
    (<>[](adbUp /\ listed) => <>[](Watched /\ epStatus = "ok"))

\* retry=0 (README.md:138, no retry and removal): once the connection of a listed
\* endpoint is lost, its device manager is removed and stopped.
LostEndpointGoes ==
  (configured = 0 /\ listed /\ managed /\ \E g \in Goroutines : pc[g] = "lost")
    ~> (~listed /\ ~managed /\ stopped)
=============================================================================

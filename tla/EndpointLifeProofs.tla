------------------------- MODULE EndpointLifeProofs -------------------------
(***************************************************************************)
(* One goroutine at a time takes care of an endpoint, for any number of    *)
(* devices, of changes of adb and any retry=. The only step that makes a   *)
(* goroutine active which was not is startDeviceWatcher's, which starts    *)
(* the goroutine of the new watcher and returns: it hands the endpoint     *)
(* over. Before that the endpoint is handed to goroutine 0, by an adding   *)
(* that has found no goroutine running.                                    *)
(*                                                                         *)
(* From it follows what a watched endpoint is shown as: whoever writes a   *)
(* bad status is the caretaker, so nobody watches then, and the one that   *)
(* makes a watcher later has a frame of the loop left that writes "ok".    *)
(* And what its table says: only the handler of the watching goroutine     *)
(* changes it while there is one, so it is what that watcher was told.     *)
(***************************************************************************)
EXTENDS EndpointLife, TLAPS

PcOK == pc \in [Goroutines -> Pcs]

\* Until it is added, an endpoint has no goroutine.
NotBefore == adder # "done" => \A g \in Goroutines : pc[g] = "none"

CareInv == PcOK /\ NotBefore /\ OneCaretaker

LEMMA ReturnsIdle == \A n : Returns(n) \in {"unwind", "done"}
BY DEF Returns

LEMMA WatchersRun == Watchers \subseteq Goroutines /\ 0 \in Goroutines
BY DeviceAssumption DEF Watchers, Goroutines

\* A step that moves one running goroutine, and no goroutine into activity.
LEMMA MovesOne ==
  ASSUME CareInv, NEW g \in Goroutines, NEW to \in Pcs,
         pc[g] # "none",
         pc' = [pc EXCEPT ![g] = to],
         to \in {"unwind", "done"} \/ g \in Active,
         UNCHANGED adder
  PROVE  CareInv'
<1>1. PcOK'
  BY DEF CareInv, PcOK
<1>2. NotBefore'
  BY DEF CareInv, NotBefore
<1>3. ASSUME NEW h \in Active' PROVE h \in Active
  BY <1>3 DEF CareInv, PcOK, Active
<1>4. OneCaretaker'
  BY <1>3 DEF CareInv, OneCaretaker
<1> QED BY <1>1, <1>2, <1>4 DEF CareInv

LEMMA KeepsPc ==
  ASSUME CareInv, UNCHANGED pc, adder # "done" \/ UNCHANGED adder
  PROVE  CareInv'
BY DEF CareInv, PcOK, NotBefore, OneCaretaker, Active

\* startDeviceWatcher hands the endpoint to the goroutine of the new watcher.
LEMMA HandsOver ==
  ASSUME CareInv, NEW g \in Goroutines, SpawnWatcher(g), UNCHANGED adder
  PROVE  CareInv'
<1>1. PICK w \in Watchers : /\ pc[w] = "none"
                            /\ pc' = [pc EXCEPT ![w] = "consume", ![g] = Returns(depth[g])]
  BY DEF SpawnWatcher
<1>2. w \in Goroutines /\ w # g /\ pc[g] = "check"
  BY <1>1, WatchersRun DEF SpawnWatcher
<1>3. Returns(depth[g]) \in {"unwind", "done"}
  BY ReturnsIdle
<1>4. /\ pc'[w] = "consume" /\ pc'[g] = Returns(depth[g])
      /\ \A h \in Goroutines \ {w, g} : pc'[h] = pc[h]
  BY <1>1, <1>2 DEF CareInv, PcOK
<1>5. PcOK'
  BY <1>1, <1>2, <1>3 DEF CareInv, PcOK, Pcs
<1>6. g \in Active
  BY <1>2 DEF Active
<1>7. ASSUME NEW h \in Active' PROVE h = w
  BY <1>2, <1>3, <1>4, <1>6, <1>7 DEF CareInv, OneCaretaker, Active
<1>8. OneCaretaker'
  BY <1>7 DEF OneCaretaker
<1>9. NotBefore'
  BY <1>2 DEF CareInv, NotBefore
<1> QED BY <1>5, <1>8, <1>9 DEF CareInv

\* Each step of a goroutine.
LEMMA GoStepCare ==
  ASSUME CareInv, NEW g \in Goroutines, GoStep(g)
  PROVE  CareInv'
<1>1. CASE Silent(SpawnWatcher(g))
  BY <1>1, HandsOver DEF Silent, lifeVars
<1>2. CASE Silent(RetryFinds(g))
  BY <1>2, MovesOne DEF Silent, lifeVars, RetryFinds, Active, Pcs
<1>3. CASE Silent(RetryAgain(g))
  BY <1>3, KeepsPc DEF Silent, lifeVars, RetryAgain
<1>4. CASE LosesAdb(g)
  <2>1. pc[g] \in {"check", "consume"} /\ Loses(g) /\ UNCHANGED adder
    BY <1>4 DEF LosesAdb, CheckFails, WatcherEnds
  <2>2. g \in Active
    BY <2>1 DEF Active
  <2> QED BY <2>1, <2>2, MovesOne DEF Loses, Pcs
<1>5. CASE GivesUp(g)
  BY <1>5, MovesOne DEF GivesUp, RetryExhausted, Active, Pcs
<1>6. CASE Reconnected(g)
  <2>1. pc[g] = "unwind" /\ pc' = [pc EXCEPT ![g] = Returns(depth[g] - 1)] /\ UNCHANGED adder
    BY <1>6 DEF Reconnected, Unwind
  <2>2. Returns(depth[g] - 1) \in {"unwind", "done"}
    BY ReturnsIdle
  <2> QED BY <2>1, <2>2, MovesOne DEF Pcs
<1>7. CASE ConnectionLost(g)
  <2>1. PICK to \in {"unwind", "done", "dropping"} :
          pc[g] = "lost" /\ pc' = [pc EXCEPT ![g] = to] /\ UNCHANGED adder
    BY <1>7, ReturnsIdle DEF ConnectionLost
  <2> QED BY <2>1, MovesOne DEF Active, Pcs
<1>8. CASE DropEndpoint(g)
  <2>1. PICK to \in {"unwind", "done", "removing"} :
          pc[g] = "dropping" /\ pc' = [pc EXCEPT ![g] = to] /\ UNCHANGED adder
    BY <1>8, ReturnsIdle DEF DropEndpoint
  <2> QED BY <2>1, MovesOne DEF Active, Pcs
<1>9. CASE Dropped(g)
  <2>1. PICK to \in {"unwind", "done"} :
          pc[g] = "removing" /\ pc' = [pc EXCEPT ![g] = to] /\ UNCHANGED adder
    BY <1>9, ReturnsIdle DEF Dropped
  <2> QED BY <2>1, MovesOne DEF Active, Pcs
<1> QED BY <1>1, <1>2, <1>3, <1>4, <1>5, <1>6, <1>7, <1>8, <1>9 DEF GoStep

LEMMA WatcherStepCare ==
  ASSUME CareInv, NEW w \in Watchers, WatcherStep(w)
  PROVE  CareInv'
<1>1. CASE Silent(WatchStep(w))
  BY <1>1, KeepsPc DEF Silent, lifeVars, WatchStep, WatchDial, WatchRead, WatchLost, goVars
<1>2. CASE Silent(Handle(w))
  BY <1>2, KeepsPc DEF Silent, lifeVars, Handle, goVars
<1>3. CASE Silent(Abandon(w))
  BY <1>3, WatchersRun, MovesOne DEF Silent, lifeVars, Abandon, Pcs
<1> QED BY <1>1, <1>2, <1>3 DEF WatcherStep

\* The endpoint is handed to goroutine 0 when nothing runs.
LEMMA AdderStepCare ==
  ASSUME CareInv, AdderStep
  PROVE  CareInv'
<1>1. CASE AddClient
  BY <1>1, KeepsPc DEF AddClient, dvars, goVars
<1>2. CASE AddStore
  BY <1>2, KeepsPc DEF AddStore, goVars
<1>3. CASE AddDiscover
  <2>1. pc' = [pc EXCEPT ![0] = "check"] /\ adder' = "done"
    BY <1>3 DEF AddDiscover
  <2>2. \A g \in Goroutines : pc[g] = "none"
    BY <1>3 DEF AddDiscover, CareInv, NotBefore
  <2>3. PcOK'
    BY <2>1 DEF CareInv, PcOK, Pcs
  <2>4. ASSUME NEW h \in Active' PROVE h = 0
    BY <2>1, <2>2, <2>4 DEF CareInv, PcOK, Active
  <2> QED BY <2>1, <2>3, <2>4 DEF CareInv, NotBefore, OneCaretaker
<1> QED BY <1>1, <1>2, <1>3 DEF AdderStep

\* Every step keeps the invariant.
LEMMA StepCare == CareInv /\ [Next]_vars => CareInv'
<1> SUFFICES ASSUME CareInv, [Next]_vars PROVE CareInv'
  OBVIOUS
<1>1. CASE AdderStep
  BY <1>1, AdderStepCare
<1>2. CASE AdminRemoves
  BY <1>2, KeepsPc DEF AdminRemoves, dvars, goVars
<1>3. CASE AdminRemoved
  BY <1>3, KeepsPc DEF AdminRemoved, goVars
<1>4. ASSUME NEW g \in Goroutines, GoStep(g) PROVE CareInv'
  BY <1>4, GoStepCare
<1>5. ASSUME NEW w \in Watchers, WatcherStep(w) PROVE CareInv'
  BY <1>5, WatcherStepCare
<1>6. CASE Silent(AdbStep)
  BY <1>6, KeepsPc DEF Silent, lifeVars, AdbStep, DeviceChanges, AdbDown, AdbBack, ConnBreaks,
                       goVars
<1>7. CASE UNCHANGED vars
  BY <1>7, KeepsPc DEF vars, dvars, goVars, lifeVars
<1> QED BY <1>1, <1>2, <1>3, <1>4, <1>5, <1>6, <1>7 DEF Next

LEMMA InitCare == Init => CareInv
BY DEF Init, DInit, CareInv, PcOK, NotBefore, OneCaretaker, Active, Pcs

\* Of the goroutines of an endpoint, at most one watches adb or reconnects
\* (startDeviceWatcher, invokeConnectionLostAndMaybeReconnect), however often
\* reconnections nest in one another.
THEOREM OneGoroutineCares == Spec => []OneCaretaker
<1>1. CareInv => OneCaretaker
  BY DEF CareInv
<1> QED BY InitCare, StepCare, <1>1, PTL DEF Spec
-----------------------------------------------------------------------------
(* The shown status.                                                        *)

\* Only StartWatcher's own call of startDeviceWatcher has no frame to report it.
FirstCheckOk ==
  \A g \in Goroutines :
    pc[g] = "check" /\ depth[g] = 0 /\ managed => epStatus = "ok"

AddedOk == adder = "discover" /\ managed => epStatus = "ok"

\* A watched endpoint with a bad status has somebody who is about to correct it.
Corrected ==
  (managed /\ \E w \in Watchers : pc[w] = "consume") =>
    epStatus = "ok" \/ \E g \in Goroutines : pc[g] = "unwind"

\* Who unwinds has a frame to return to.
Framed ==
  /\ depth \in [Goroutines -> Nat]
  /\ \A g \in Goroutines : pc[g] = "unwind" => depth[g] > 0

ShownInv == CareInv /\ Framed /\ FirstCheckOk /\ AddedOk /\ Corrected

LEMMA InitShown == Init => ShownInv
BY InitCare, WatchersRun DEF Init, DInit, ShownInv, Framed, FirstCheckOk, AddedOk, Corrected

LEMMA ReturnsFramed == \A n : Returns(n) = "unwind" => n > 0
BY DEF Returns

LEMMA KeepsShown ==
  ASSUME ShownInv, CareInv', UNCHANGED <<pc, depth>>,
         UNCHANGED epStatus \/ epStatus' = "ok",
         managed' => managed \/ epStatus' = "ok",
         adder' = "discover" => adder = "discover" \/ epStatus' = "ok"
  PROVE  ShownInv'
BY DEF ShownInv, Framed, FirstCheckOk, AddedOk, Corrected

\* The caretaker goes on to something that is no watching and no first check: there
\* is nobody else who watches or checks, whatever status it writes.
LEMMA CaretakerMoves ==
  ASSUME ShownInv, CareInv', NEW g \in Active, NEW to \in Pcs,
         pc' = [pc EXCEPT ![g] = to], to \notin {"check", "consume"},
         to = "unwind" => depth[g] > 0,
         UNCHANGED <<depth, adder>>
  PROVE  ShownInv'
<1>1. g \in Goroutines /\ pc \in [Goroutines -> Pcs]
  BY DEF ShownInv, CareInv, PcOK, Active
<1>2. \A h \in Goroutines : pc'[h] \notin {"check", "consume"}
  BY <1>1 DEF ShownInv, CareInv, OneCaretaker, Active
<1>3. Framed'
  BY <1>1 DEF ShownInv, Framed
<1>4. adder = "done"
  BY <1>1 DEF ShownInv, CareInv, NotBefore, Active
<1> QED BY <1>2, <1>3, <1>4, WatchersRun DEF ShownInv, FirstCheckOk, AddedOk, Corrected

LEMMA SpawnShown ==
  ASSUME ShownInv, CareInv', NEW g \in Goroutines, SpawnWatcher(g), UNCHANGED lifeVars
  PROVE  ShownInv'
<1>1. PICK w \in Watchers : /\ pc[w] = "none"
                            /\ pc' = [pc EXCEPT ![w] = "consume", ![g] = Returns(depth[g])]
  BY DEF SpawnWatcher
<1>2. /\ w \in Goroutines /\ w # g /\ pc[g] = "check"
      /\ UNCHANGED <<depth, managed, epStatus, adder>>
  BY <1>1, WatchersRun DEF SpawnWatcher, lifeVars
<1>3. /\ pc'[w] = "consume" /\ pc'[g] = Returns(depth[g])
      /\ \A h \in Goroutines \ {w, g} : pc'[h] = pc[h]
  BY <1>1, <1>2 DEF ShownInv, CareInv, PcOK
<1>4. Framed'
  BY <1>2, <1>3, ReturnsFramed DEF ShownInv, Framed
<1>5. FirstCheckOk'
  BY <1>2, <1>3, ReturnsIdle DEF ShownInv, FirstCheckOk
<1>6. AddedOk'
  BY <1>2 DEF ShownInv, AddedOk
<1>7. Corrected'
  <2>1. CASE depth[g] = 0
    BY <1>2, <2>1 DEF ShownInv, FirstCheckOk, Corrected
  <2>2. CASE depth[g] > 0
    BY <1>2, <1>3, <2>2 DEF Corrected, Returns
  <2> QED BY <2>1, <2>2 DEF ShownInv, Framed
<1> QED BY <1>4, <1>5, <1>6, <1>7 DEF ShownInv

LEMMA RetryFindsShown ==
  ASSUME ShownInv, CareInv', NEW g \in Goroutines, RetryFinds(g), UNCHANGED lifeVars
  PROVE  ShownInv'
<1>1. /\ pc[g] = "retry" /\ pc' = [pc EXCEPT ![g] = "check"]
      /\ depth' = [depth EXCEPT ![g] = @ + 1]
      /\ UNCHANGED <<managed, epStatus, adder>>
  BY DEF RetryFinds, lifeVars
<1>2. pc \in [Goroutines -> Pcs] /\ depth \in [Goroutines -> Nat]
  BY DEF ShownInv, CareInv, PcOK, Framed
<1>3. Framed' /\ FirstCheckOk' /\ AddedOk'
  BY <1>1, <1>2 DEF ShownInv, Framed, FirstCheckOk, AddedOk
<1>4. Corrected'
  BY <1>1, <1>2, WatchersRun DEF ShownInv, Corrected
<1> QED BY <1>3, <1>4 DEF ShownInv

LEMMA ReconnectedShown ==
  ASSUME ShownInv, CareInv', NEW g \in Goroutines, Reconnected(g)
  PROVE  ShownInv'
<1>1. /\ pc[g] = "unwind" /\ pc' = [pc EXCEPT ![g] = Returns(depth[g] - 1)]
      /\ depth' = [depth EXCEPT ![g] = @ - 1] /\ epStatus' = "ok"
  BY DEF Reconnected, Unwind
<1>2. /\ pc \in [Goroutines -> Pcs] /\ depth \in [Goroutines -> Nat] /\ depth[g] > 0
  BY <1>1 DEF ShownInv, CareInv, PcOK, Framed
<1>3. Framed'
  BY <1>1, <1>2, ReturnsFramed DEF ShownInv, Framed
<1> QED BY <1>1, <1>3 DEF ShownInv, FirstCheckOk, AddedOk, Corrected

LEMMA GoStepShown ==
  ASSUME ShownInv, CareInv', NEW g \in Goroutines, GoStep(g)
  PROVE  ShownInv'
<1>1. CASE Silent(SpawnWatcher(g))
  BY <1>1, SpawnShown DEF Silent
<1>2. CASE Silent(RetryFinds(g))
  BY <1>2, RetryFindsShown DEF Silent
<1>3. CASE Silent(RetryAgain(g))
  BY <1>3, KeepsShown DEF Silent, lifeVars, RetryAgain
<1>4. CASE LosesAdb(g)
  <2>1. /\ pc[g] \in {"check", "consume"} /\ Loses(g) /\ UNCHANGED <<depth, adder>>
    BY <1>4 DEF LosesAdb, CheckFails, WatcherEnds
  <2>2. g \in Active
    BY <2>1 DEF Active
  <2> QED BY <2>1, <2>2, CaretakerMoves DEF Loses, Pcs
<1>5. CASE GivesUp(g)
  BY <1>5, CaretakerMoves DEF GivesUp, RetryExhausted, Active, Pcs
<1>6. CASE Reconnected(g)
  BY <1>6, ReconnectedShown
<1>7. CASE ConnectionLost(g)
  <2>1. PICK to \in {Returns(depth[g]), "dropping"} :
          pc[g] = "lost" /\ pc' = [pc EXCEPT ![g] = to] /\ UNCHANGED <<depth, adder>>
    BY <1>7 DEF ConnectionLost
  <2> QED BY <2>1, ReturnsIdle, ReturnsFramed, CaretakerMoves DEF Active, Pcs
<1>8. CASE DropEndpoint(g)
  <2>1. PICK to \in {Returns(depth[g]), "removing"} :
          pc[g] = "dropping" /\ pc' = [pc EXCEPT ![g] = to] /\ UNCHANGED <<depth, adder>>
    BY <1>8 DEF DropEndpoint
  <2> QED BY <2>1, ReturnsIdle, ReturnsFramed, CaretakerMoves DEF Active, Pcs
<1>9. CASE Dropped(g)
  <2>1. pc[g] = "removing" /\ pc' = [pc EXCEPT ![g] = Returns(depth[g])]
        /\ UNCHANGED <<depth, adder>>
    BY <1>9 DEF Dropped
  <2> QED BY <2>1, ReturnsIdle, ReturnsFramed, CaretakerMoves DEF Active, Pcs
<1> QED BY <1>1, <1>2, <1>3, <1>4, <1>5, <1>6, <1>7, <1>8, <1>9 DEF GoStep

LEMMA WatcherStepShown ==
  ASSUME ShownInv, CareInv', NEW w \in Watchers, WatcherStep(w)
  PROVE  ShownInv'
<1>1. CASE Silent(WatchStep(w))
  BY <1>1, KeepsShown DEF Silent, lifeVars, WatchStep, WatchDial, WatchRead, WatchLost, goVars
<1>2. CASE Silent(Handle(w))
  BY <1>2, KeepsShown DEF Silent, lifeVars, Handle, goVars
<1>3. CASE Silent(Abandon(w))
  BY <1>3, WatchersRun, CaretakerMoves DEF Silent, lifeVars, Abandon, Active, Pcs
<1> QED BY <1>1, <1>2, <1>3 DEF WatcherStep

LEMMA AdderStepShown ==
  ASSUME ShownInv, CareInv', AdderStep
  PROVE  ShownInv'
<1>1. CASE AddClient
  BY <1>1, KeepsShown DEF AddClient, dvars, goVars
<1>2. CASE AddStore
  BY <1>2, KeepsShown DEF AddStore, goVars
<1>3. CASE AddDiscover
  <2>1. /\ pc' = [pc EXCEPT ![0] = "check"] /\ adder' = "done" /\ adder = "discover"
        /\ UNCHANGED <<depth, managed, epStatus>>
    BY <1>3 DEF AddDiscover
  <2>2. /\ \A g \in Goroutines : pc[g] = "none"
        /\ pc \in [Goroutines -> Pcs]
    BY <2>1 DEF ShownInv, CareInv, NotBefore, PcOK
  <2>3. Framed'
    BY <2>1, <2>2 DEF ShownInv, Framed
  <2>4. FirstCheckOk' /\ AddedOk'
    BY <2>1 DEF ShownInv, FirstCheckOk, AddedOk
  <2>5. Corrected'
    BY <2>1, <2>2, WatchersRun DEF Corrected
  <2> QED BY <2>3, <2>4, <2>5 DEF ShownInv
<1> QED BY <1>1, <1>2, <1>3 DEF AdderStep

LEMMA StepShown == ShownInv /\ [Next]_vars => ShownInv'
<1> SUFFICES ASSUME ShownInv, [Next]_vars PROVE ShownInv'
  OBVIOUS
<1>0. CareInv'
  BY StepCare DEF ShownInv
<1>1. CASE AdderStep
  BY <1>0, <1>1, AdderStepShown
<1>2. CASE AdminRemoves
  BY <1>0, <1>2, KeepsShown DEF AdminRemoves, dvars, goVars
<1>3. CASE AdminRemoved
  <2>1. UNCHANGED <<pc, depth, adder>> /\ ~managed'
    BY <1>3 DEF AdminRemoved, RemoveManager, goVars
  <2> QED BY <1>0, <2>1 DEF ShownInv, Framed, FirstCheckOk, AddedOk, Corrected
<1>4. ASSUME NEW g \in Goroutines, GoStep(g) PROVE ShownInv'
  BY <1>0, <1>4, GoStepShown
<1>5. ASSUME NEW w \in Watchers, WatcherStep(w) PROVE ShownInv'
  BY <1>0, <1>5, WatcherStepShown
<1>6. CASE Silent(AdbStep)
  BY <1>0, <1>6, KeepsShown DEF Silent, lifeVars, AdbStep, DeviceChanges, AdbDown, AdbBack,
                               ConnBreaks, goVars
<1>7. CASE UNCHANGED vars
  BY <1>0, <1>7, KeepsShown DEF vars, dvars, goVars, lifeVars
<1> QED BY <1>1, <1>2, <1>3, <1>4, <1>5, <1>6, <1>7 DEF Next

\* A watched endpoint is shown as connected once nobody is about to report
\* (onReconnecting, onReconnected, onReconnectFailed of main.go), for every retry=.
THEOREM WatchedShownAsOk == Spec => []WatchedIsShown
<1>1. ShownInv => WatchedIsShown
  <2> SUFFICES ASSUME ShownInv, Quiet, Watched, managed PROVE epStatus = "ok"
    BY DEF WatchedIsShown
  <2> QED BY DEF ShownInv, Corrected, Quiet, Watched
<1> QED BY InitShown, StepShown, <1>1, PTL DEF Spec
-----------------------------------------------------------------------------
(* The table and the watcher.                                               *)

WatchTypes ==
  /\ plugged \in [Serials -> Plug(States)]
  /\ conn \in [Watchers -> {"none", "dial", "track", "eof", "closed"}]
  /\ wire \in [Watchers -> Seq([Serials -> States])]
  /\ known \in [Watchers -> [Serials -> States]]
  /\ events \in [Watchers -> SUBSET [serial : Serials, state : States]]
  /\ heard \in [Watchers -> SUBSET Serials]

\* A watcher that is not made yet has heard of nothing.
Fresh == \A w \in Watchers : pc[w] = "none" => conn[w] = "none" /\ heard[w] = {}

\* An event that is on its way says what is known of its serial by now, and what is
\* known of a serial nobody was told of is that it is absent.
EventsNew ==
  \A w \in Watchers :
    /\ \A e \in events[w] : e.state = known[w][e.serial]
    /\ \A s \in Serials : known[w][s] # "absent" => s \in heard[w]

\* The manager has taken what w was told of s.
Told(w, s) == s \in heard[w] /\ \A e \in events[w] : e.serial # s

Follows ==
  \A w \in Watchers, k \in Keys :
    pc[w] = "consume" /\ Told(w, k[1]) => Agrees(k, known[w][k[1]])

WatchInv == CareInv /\ WatchTypes /\ Fresh /\ EventsNew /\ Follows

LEMMA PlugStates ==
  /\ \A d \in Plug(States) : d.st \in States
  /\ \A ss \in SUBSET States : \A d \in Plug(ss) : d \in Plug(States)
BY DEF Plug, States

\* Steps that change nothing of what a watcher knows. The table changes only when
\* nobody watches.
LEMMA KeepsWatch ==
  ASSUME WatchInv, WatchTypes', UNCHANGED <<known, events, heard>>,
         \A w \in Watchers : /\ pc'[w] = "consume" => pc[w] = "consume" /\ table' = table
                             /\ pc'[w] = "none" => pc[w] = "none"
                             /\ conn[w] = "none" => conn'[w] = "none"
  PROVE  Fresh' /\ EventsNew' /\ Follows'
<1>1. Fresh' /\ EventsNew'
  BY DEF WatchInv, Fresh, EventsNew
<1>2. Follows'
  BY DEF WatchInv, Follows, Told, Agrees
<1> QED BY <1>1, <1>2

\* Nothing of a watcher nobody reads from matters.
LEMMA ForgetsWatch ==
  ASSUME WatchInv, NEW g \in Watchers, NEW to \in Pcs \ {"none", "consume"}, pc[g] = "consume",
         Forget(g), pc' = [pc EXCEPT ![g] = to], UNCHANGED <<plugged, table>>
  PROVE  WatchTypes' /\ Fresh' /\ EventsNew' /\ Follows'
<1>1. Unheard \in [Serials -> States]
  BY DEF Unheard, States
<1>2. <<>> \in Seq([Serials -> States])
  OBVIOUS
<1>3. WatchTypes'
  BY <1>1, <1>2 DEF WatchInv, WatchTypes, Forget
<1>4. /\ heard'[g] = {} /\ known'[g] = Unheard /\ events'[g] = {}
      /\ \A w \in Watchers \ {g} : /\ conn'[w] = conn[w] /\ heard'[w] = heard[w]
                                   /\ known'[w] = known[w] /\ events'[w] = events[w]
  BY DEF WatchInv, WatchTypes, Forget
<1>5. /\ pc'[g] = to /\ \A w \in Watchers \ {g} : pc'[w] = pc[w]
  BY WatchersRun DEF WatchInv, CareInv, PcOK
<1>6. Fresh'
  BY <1>4, <1>5 DEF WatchInv, Fresh
<1>7. EventsNew'
  BY <1>4 DEF WatchInv, EventsNew, Unheard
<1>8. Follows'
  BY <1>4, <1>5 DEF WatchInv, Follows, Told, Agrees
<1> QED BY <1>3, <1>6, <1>7, <1>8

LEMMA SpawnWatch ==
  ASSUME WatchInv, NEW g \in Goroutines, SpawnWatcher(g)
  PROVE  WatchTypes' /\ Fresh' /\ EventsNew' /\ Follows'
<1>1. PICK w \in Watchers : /\ pc[w] = "none" /\ conn' = [conn EXCEPT ![w] = "dial"]
                            /\ pc' = [pc EXCEPT ![w] = "consume", ![g] = Returns(depth[g])]
  BY DEF SpawnWatcher
<1>2. UNCHANGED <<plugged, wire, known, events, heard, table>> /\ pc[g] = "check"
  BY DEF SpawnWatcher, adbVars, managerVars
<1>3. WatchTypes'
  BY <1>1, <1>2 DEF WatchInv, WatchTypes
<1>4. /\ \A v \in Watchers \ {w} : conn'[v] = conn[v] /\ pc'[v] \in {pc[v], "unwind", "done"}
      /\ pc'[w] = "consume"
  BY <1>1, <1>2, WatchersRun, ReturnsIdle DEF WatchInv, WatchTypes, CareInv, PcOK
<1>5. Fresh' /\ EventsNew'
  BY <1>2, <1>4 DEF WatchInv, Fresh, EventsNew
<1>6. heard[w] = {}
  BY <1>1 DEF WatchInv, Fresh
<1>7. Follows'
  BY <1>2, <1>4, <1>6 DEF WatchInv, Follows, Told, Agrees
<1> QED BY <1>3, <1>5, <1>7

\* The caretaker is the only one that may watch: while it does something else, nobody does.
LEMMA NobodyWatches ==
  ASSUME CareInv, NEW g \in Active, pc[g] # "consume"
  PROVE  \A w \in Watchers : pc[w] # "consume"
BY WatchersRun DEF CareInv, OneCaretaker, Active

LEMMA GoStepWatch ==
  ASSUME WatchInv, NEW g \in Goroutines, GoStep(g)
  PROVE  WatchTypes' /\ Fresh' /\ EventsNew' /\ Follows'
<1>0. CareInv /\ pc \in [Goroutines -> Pcs]
  BY DEF WatchInv, CareInv, PcOK
<1>1. CASE Silent(SpawnWatcher(g))
  BY <1>1, SpawnWatch DEF Silent
<1>2. ASSUME UNCHANGED <<plugged, watchVars>>, NEW to \in Pcs \ {"none", "consume"}, pc[g] # "none",
             pc' = [pc EXCEPT ![g] = to],
             UNCHANGED table \/ \A w \in Watchers : pc[w] # "consume"
      PROVE  WatchTypes' /\ Fresh' /\ EventsNew' /\ Follows'
  <2>1. WatchTypes'
    BY <1>2 DEF WatchInv, WatchTypes, watchVars
  <2>2. \A w \in Watchers : pc'[w] = pc[w] \/ (w = g /\ pc'[w] = to)
    BY <1>0, <1>2, WatchersRun
  <2> QED BY <1>2, <2>1, <2>2, KeepsWatch DEF watchVars
<1>3. CASE Silent(RetryFinds(g))
  BY <1>2, <1>3 DEF Silent, RetryFinds, Pcs, adbVars, managerVars
<1>4. CASE Silent(RetryAgain(g))
  <2>1. UNCHANGED <<plugged, watchVars, table, pc>>
    BY <1>4 DEF Silent, RetryAgain, adbVars, managerVars
  <2>2. WatchTypes'
    BY <2>1 DEF WatchInv, WatchTypes, watchVars
  <2> QED BY <2>1, <2>2, KeepsWatch DEF watchVars
<1>5. CASE LosesAdb(g)
  <2>1. PICK to \in {"retry", "lost"} : pc' = [pc EXCEPT ![g] = to]
    BY <1>5 DEF LosesAdb, CheckFails, WatcherEnds, Loses
  <2>2. UNCHANGED <<plugged, table>>
    BY <1>5 DEF LosesAdb, CheckFails, WatcherEnds, adbVars, managerVars
  <2>3. CASE CheckFails(g)
    BY <1>2, <2>1, <2>2, <2>3 DEF CheckFails, Pcs
  <2>4. CASE WatcherEnds(g)
    BY <2>1, <2>2, <2>4, ForgetsWatch DEF WatcherEnds, Pcs
  <2> QED BY <1>5, <2>3, <2>4 DEF LosesAdb
<1>6. CASE GivesUp(g)
  BY <1>2, <1>6 DEF GivesUp, RetryExhausted, Pcs, adbVars, managerVars
<1>7. CASE Reconnected(g)
  <2>1. PICK to \in {"unwind", "done"} : pc[g] = "unwind" /\ pc' = [pc EXCEPT ![g] = to]
    BY <1>7, ReturnsIdle DEF Reconnected, Unwind
  <2> QED BY <1>2, <1>7, <2>1 DEF Reconnected, Unwind, Pcs, adbVars, managerVars
<1>8. CASE ConnectionLost(g)
  <2>1. PICK to \in {"unwind", "done", "dropping"} : pc[g] = "lost" /\ pc' = [pc EXCEPT ![g] = to]
    BY <1>8, ReturnsIdle DEF ConnectionLost
  <2>2. \A w \in Watchers : pc[w] # "consume"
    BY <1>0, <2>1, NobodyWatches DEF Active
  <2> QED BY <1>2, <1>8, <2>1, <2>2 DEF ConnectionLost, Pcs, adbVars
<1>9. CASE DropEndpoint(g)
  <2>1. PICK to \in {"unwind", "done", "removing"} : pc[g] = "dropping" /\ pc' = [pc EXCEPT ![g] = to]
    BY <1>9, ReturnsIdle DEF DropEndpoint
  <2> QED BY <1>2, <1>9, <2>1 DEF DropEndpoint, Pcs, adbVars, managerVars
<1>10. CASE Dropped(g)
  <2>1. PICK to \in {"unwind", "done"} : pc[g] = "removing" /\ pc' = [pc EXCEPT ![g] = to]
    BY <1>10, ReturnsIdle DEF Dropped
  <2> QED BY <1>2, <1>10, <2>1 DEF Dropped, Pcs, adbVars
<1> QED BY <1>1, <1>3, <1>4, <1>5, <1>6, <1>7, <1>8, <1>9, <1>10 DEF GoStep

\* What the manager does with an event leaves the table as the event says, and changes
\* nothing of another serial.
LEMMA HandleAgrees ==
  ASSUME NEW e, e.serial \in Serials, e.state \in States,
         LET keys == KeysBySerial(e.serial) IN
           \/ e.state = "device" /\ keys = {} /\ Discovers({e.serial})
           \/ e.state = "device" /\ keys # {} /\ table' = SetStatus(keys, "online")
           \/ e.state \in {"offline", "unauthorized"} /\ table' = SetStatus(keys, "offline")
           \/ e.state = "absent" /\ table' = SetStatus(keys, "none"),
         NEW k \in Keys
  PROVE  /\ k[1] = e.serial => Agrees(k, e.state)'
         /\ k[1] # e.serial => table'[k] = table[k]
<1> DEFINE keys == KeysBySerial(e.serial)
<1>1. k \in keys <=> k[1] = e.serial /\ table[k] # "none"
  BY DEF KeysBySerial
<1>2. CASE e.state = "device" /\ keys = {} /\ Discovers({e.serial})
  <2>1. PICK found \in {{}, Listed({e.serial})} : table' = SetStatus(found, "online")
    BY <1>2 DEF Discovers
  <2>2. k \in found => k[1] = e.serial
    BY <2>1 DEF Listed
  <2>3. table'[k] = IF k \in found THEN "online" ELSE table[k]
    BY <2>1 DEF SetStatus
  <2>4. k[1] = e.serial => table'[k] # "offline"
    BY <1>1, <1>2, <2>3
  <2> QED BY <1>2, <2>2, <2>3, <2>4 DEF Agrees
<1>3. ASSUME NEW st, table' = SetStatus(keys, st)
      PROVE  /\ k[1] = e.serial => table'[k] = IF table[k] # "none" THEN st ELSE "none"
             /\ k[1] # e.serial => table'[k] = table[k]
  BY <1>1, <1>3 DEF SetStatus
<1>4. CASE e.state = "device" /\ table' = SetStatus(keys, "online")
  BY <1>3, <1>4 DEF Agrees
<1>5. CASE e.state \in {"offline", "unauthorized"} /\ table' = SetStatus(keys, "offline")
  BY <1>3, <1>5 DEF Agrees
<1>6. CASE e.state = "absent" /\ table' = SetStatus(keys, "none")
  BY <1>3, <1>6 DEF Agrees
<1> QED BY <1>2, <1>4, <1>5, <1>6

LEMMA HandleWatch ==
  ASSUME WatchInv, NEW w \in Watchers, Handle(w)
  PROVE  WatchTypes' /\ Fresh' /\ EventsNew' /\ Follows'
<1>1. PICK e \in events[w] :
        /\ events' = [events EXCEPT ![w] = @ \ {e}]
        /\ LET keys == KeysBySerial(e.serial) IN
             \/ e.state = "device" /\ keys = {} /\ Discovers({e.serial})
             \/ e.state = "device" /\ keys # {} /\ table' = SetStatus(keys, "online")
             \/ e.state \in {"offline", "unauthorized"} /\ table' = SetStatus(keys, "offline")
             \/ e.state = "absent" /\ table' = SetStatus(keys, "none")
  BY DEF Handle
<1>2. pc[w] = "consume" /\ UNCHANGED <<plugged, conn, wire, known, heard, pc>>
  BY DEF Handle, adbVars, goVars
<1>3. events[w] \in SUBSET [serial : Serials, state : States]
  BY DEF WatchInv, WatchTypes
<1>4. e.serial \in Serials /\ e.state \in States
  BY <1>3
<1>5. WatchTypes'
  BY <1>1, <1>2, <1>3 DEF WatchInv, WatchTypes
<1>6. /\ events'[w] = events[w] \ {e}
      /\ \A v \in Watchers \ {w} : events'[v] = events[v]
  BY <1>1 DEF WatchInv, WatchTypes
<1>7. Fresh' /\ EventsNew'
  BY <1>2, <1>6 DEF WatchInv, Fresh, EventsNew
<1>8. \A v \in Watchers : pc[v] = "consume" => v = w
  BY <1>2, WatchersRun DEF WatchInv, CareInv, OneCaretaker, Active
<1>9. ASSUME NEW k \in Keys, Told(w, k[1])' PROVE Agrees(k, known[w][k[1]])'
  <2>1. CASE k[1] = e.serial
    <3>1. e.state = known[w][k[1]]
      BY <2>1 DEF WatchInv, EventsNew
    <3>2. Agrees(k, e.state)'
      BY <1>1, <1>4, <2>1, HandleAgrees
    <3> QED BY <1>2, <3>1, <3>2
  <2>2. CASE k[1] # e.serial
    <3>1. table'[k] = table[k]
      BY <1>1, <1>4, <2>2, HandleAgrees
    <3>2. Told(w, k[1])
      BY <1>2, <1>6, <1>9, <2>2 DEF Told
    <3>3. Agrees(k, known[w][k[1]])
      BY <1>2, <3>2 DEF WatchInv, Follows
    <3> QED BY <1>2, <3>1, <3>3 DEF Agrees
  <2> QED BY <2>1, <2>2
<1>10. Follows'
  BY <1>2, <1>8, <1>9 DEF Follows
<1> QED BY <1>5, <1>7, <1>10

\* The watcher reads what adb has sent: what it does not report has not changed.
LEMMA ReadWatch ==
  ASSUME WatchInv, NEW w \in Watchers, WatchRead(w)
  PROVE  WatchTypes' /\ Fresh' /\ EventsNew' /\ Follows'
<1>1. PICK new : new = Head(wire[w])
  OBVIOUS
<1>2. /\ events[w] = {} /\ wire[w] # <<>>
      /\ events' = [events EXCEPT ![w] = Diffs(known[w], new)]
      /\ known' = [known EXCEPT ![w] = new]
      /\ heard' = [heard EXCEPT ![w] = @ \cup {s \in Serials : new[s] # "absent"}]
      /\ wire' = [wire EXCEPT ![w] = Tail(@)]
      /\ UNCHANGED <<plugged, conn, pc, table>> /\ conn[w] # "none"
  BY <1>1 DEF WatchRead, adbVars, managerVars, goVars
<1>3. wire[w] \in Seq([Serials -> States])
  BY DEF WatchInv, WatchTypes
<1>4. new \in [Serials -> States] /\ Tail(wire[w]) \in Seq([Serials -> States])
  BY <1>1, <1>2, <1>3
<1>5. Diffs(known[w], new) \in SUBSET [serial : Serials, state : States]
  BY <1>4 DEF Diffs
<1>6. WatchTypes'
  BY <1>2, <1>4, <1>5 DEF WatchInv, WatchTypes
<1>7. /\ events'[w] = Diffs(known[w], new) /\ known'[w] = new
      /\ heard'[w] = heard[w] \cup {s \in Serials : new[s] # "absent"}
      /\ \A v \in Watchers \ {w} : /\ events'[v] = events[v] /\ known'[v] = known[v]
                                   /\ heard'[v] = heard[v]
  BY <1>2 DEF WatchInv, WatchTypes
<1>8. Fresh'
  BY <1>2, <1>7 DEF WatchInv, Fresh
<1>9. EventsNew'
  <2>1. \A e \in Diffs(known[w], new) : e.state = new[e.serial]
    BY DEF Diffs
  <2> QED BY <1>7, <2>1 DEF WatchInv, EventsNew
<1>10. ASSUME NEW s \in Serials, Told(w, s)' PROVE known[w][s] = new[s] /\ Told(w, s)
  <2>1. known[w][s] = new[s]
    <3>1. known[w][s] # new[s] => [serial |-> s, state |-> new[s]] \in Diffs(known[w], new)
      BY DEF Diffs
    <3> QED BY <1>7, <1>10, <3>1 DEF Told
  <2>2. s \in heard[w]
    BY <1>7, <1>10, <2>1 DEF Told, WatchInv, EventsNew
  <2> QED BY <1>2, <2>1, <2>2 DEF Told
<1>11. ASSUME NEW v \in Watchers, NEW k \in Keys, pc'[v] = "consume", Told(v, k[1])'
       PROVE  Agrees(k, known[v][k[1]])'
  <2>1. k[1] \in Serials
    BY DEF Keys
  <2>2. Told(v, k[1]) /\ known'[v][k[1]] = known[v][k[1]]
    <3>1. CASE v = w
      BY <1>7, <1>10, <1>11, <2>1, <3>1
    <3>2. CASE v # w
      BY <1>7, <1>11, <3>2 DEF Told
    <3> QED BY <3>1, <3>2
  <2>3. Agrees(k, known[v][k[1]])
    BY <1>2, <1>11, <2>2 DEF WatchInv, Follows
  <2> QED BY <1>2, <2>2, <2>3 DEF Agrees
<1>12. Follows'
  BY <1>11 DEF Follows
<1> QED BY <1>6, <1>8, <1>9, <1>12

LEMMA WatcherStepWatch ==
  ASSUME WatchInv, NEW w \in Watchers, WatcherStep(w)
  PROVE  WatchTypes' /\ Fresh' /\ EventsNew' /\ Follows'
<1>1. CASE Silent(WatchStep(w))
  <2>1. CASE WatchDial(w) \/ WatchLost(w)
    <3>1. /\ UNCHANGED <<known, events, heard, plugged, table, pc>>
          /\ conn[w] # "none" /\ \E c \in {"track", "closed", "dial"} : conn' = [conn EXCEPT ![w] = c]
      BY <2>1 DEF WatchDial, WatchLost, adbVars, managerVars, goVars
    <3>2. [s \in Serials |-> plugged[s].st] \in [Serials -> States]
      BY PlugStates DEF WatchInv, WatchTypes
    <3>3. \E q \in Seq([Serials -> States]) : wire' = [wire EXCEPT ![w] = q]
      <4>1. <<[s \in Serials |-> plugged[s].st]>> \in Seq([Serials -> States])
        BY <3>2
      <4>2. <<>> \in Seq([Serials -> States])
        OBVIOUS
      <4>3. wire[w] \in Seq([Serials -> States]) /\ wire = [wire EXCEPT ![w] = wire[w]]
        BY DEF WatchInv, WatchTypes
      <4> QED BY <2>1, <4>1, <4>2, <4>3 DEF WatchDial, WatchLost
    <3>4. WatchTypes'
      BY <3>1, <3>3 DEF WatchInv, WatchTypes
    <3>5. \A v \in Watchers : conn[v] = "none" => conn'[v] = "none"
      BY <3>1 DEF WatchInv, WatchTypes
    <3> QED BY <3>1, <3>4, <3>5, KeepsWatch
  <2> QED BY <1>1, <2>1, ReadWatch DEF Silent, WatchStep
<1>2. CASE Silent(Handle(w))
  BY <1>2, HandleWatch DEF Silent
<1>3. CASE Silent(Abandon(w))
  BY <1>3, ForgetsWatch DEF Silent, Abandon, Pcs, adbVars, managerVars
<1> QED BY <1>1, <1>2, <1>3 DEF WatcherStep

LEMMA AdbStepWatch ==
  ASSUME WatchInv, AdbStep
  PROVE  WatchTypes' /\ Fresh' /\ EventsNew' /\ Follows'
<1>0. UNCHANGED <<known, events, heard, pc, table>>
  BY DEF AdbStep, DeviceChanges, ConnBreaks, AdbDown, AdbBack, managerVars, watchVars, goVars
<1>1. WatchTypes' /\ \A v \in Watchers : conn[v] = "none" => conn'[v] = "none"
  <2>1. ASSUME NEW s \in Serials, DeviceChanges(s) PROVE WatchTypes' /\ conn' = conn
    <3>1. PICK d \in Plug(States \ {plugged[s].st}) : plugged' = [plugged EXCEPT ![s] = d]
      BY <2>1 DEF DeviceChanges
    <3>2. d \in Plug(States)
      BY PlugStates
    <3>3. plugged' \in [Serials -> Plug(States)]
      BY <3>1, <3>2 DEF WatchInv, WatchTypes
    <3>4. PICK new : new = [x \in Serials |-> plugged'[x].st]
      OBVIOUS
    <3>5. new \in [Serials -> States]
      BY <3>3, <3>4, PlugStates
    <3>6. wire' = [w \in Watchers |-> IF conn[w] = "track" THEN Append(wire[w], new) ELSE wire[w]]
      BY <2>1, <3>4 DEF DeviceChanges
    <3>7. \A w \in Watchers : Append(wire[w], new) \in Seq([Serials -> States])
      BY <3>5 DEF WatchInv, WatchTypes
    <3>8. wire' \in [Watchers -> Seq([Serials -> States])]
      BY <3>6, <3>7 DEF WatchInv, WatchTypes
    <3> QED BY <1>0, <2>1, <3>3, <3>8 DEF DeviceChanges, WatchInv, WatchTypes
  <2>2. CASE AdbDown
    BY <1>0, <2>2 DEF AdbDown, Broken, WatchInv, WatchTypes
  <2>3. CASE AdbBack
    <3>1. plugged' \in [Serials -> Plug(States)]
      BY <2>3, PlugStates DEF AdbBack, States
    <3> QED BY <1>0, <2>3, <3>1 DEF AdbBack, watchVars, WatchInv, WatchTypes
  <2>4. ASSUME NEW w \in Watchers, ConnBreaks(w)
        PROVE  WatchTypes' /\ \A v \in Watchers : conn[v] = "none" => conn'[v] = "none"
    BY <1>0, <2>4 DEF ConnBreaks, WatchInv, WatchTypes
  <2> QED BY <2>1, <2>2, <2>3, <2>4 DEF AdbStep
<1> QED BY <1>0, <1>1, KeepsWatch

LEMMA StepWatch == WatchInv /\ [Next]_vars => WatchInv'
<1> SUFFICES ASSUME WatchInv, [Next]_vars PROVE WatchTypes' /\ Fresh' /\ EventsNew' /\ Follows'
  BY StepCare DEF WatchInv
<1>1. ASSUME UNCHANGED <<plugged, watchVars, table, pc>>
      PROVE  WatchTypes' /\ Fresh' /\ EventsNew' /\ Follows'
  <2>1. WatchTypes'
    BY <1>1 DEF WatchInv, WatchTypes, watchVars
  <2> QED BY <1>1, <2>1, KeepsWatch DEF watchVars
<1>2. CASE AddClient \/ AddStore \/ AdminRemoves \/ AdminRemoved \/ UNCHANGED vars
  BY <1>1, <1>2 DEF AddClient, AddStore, AdminRemoves, AdminRemoved, vars, dvars, adbVars,
         managerVars, goVars
<1>3. CASE AddDiscover
  <2>1. \A g \in Goroutines : pc[g] = "none"
    BY <1>3 DEF AddDiscover, WatchInv, CareInv, NotBefore
  <2>2. pc' = [pc EXCEPT ![0] = "check"] /\ UNCHANGED <<plugged, watchVars>>
    BY <1>3 DEF AddDiscover, adbVars
  <2>3. \A w \in Watchers : pc'[w] # "consume" /\ pc[w] = "none"
    BY <2>1, <2>2, WatchersRun DEF WatchInv, CareInv, PcOK
  <2>4. WatchTypes'
    BY <2>2 DEF WatchInv, WatchTypes, watchVars
  <2> QED BY <2>2, <2>3, <2>4, KeepsWatch DEF watchVars
<1> QED
  BY <1>2, <1>3, GoStepWatch, WatcherStepWatch, AdbStepWatch DEF Next, AdderStep, Silent

LEMMA InitWatch == Init => WatchInv
<1> SUFFICES ASSUME Init PROVE WatchInv
  OBVIOUS
<1>1. /\ Unheard \in [Serials -> States] /\ <<>> \in Seq([Serials -> States])
      /\ {"absent", "device"} \in SUBSET States
  BY DEF Unheard, States
<1>2. plugged \in [Serials -> Plug(States)]
  BY <1>1, PlugStates DEF Init, DInit
<1>3. WatchTypes
  BY <1>1, <1>2 DEF Init, DInit, WatchTypes
<1>4. Fresh /\ EventsNew
  BY DEF Init, DInit, Fresh, EventsNew, Unheard
<1>5. Follows
  BY WatchersRun DEF Init, DInit, Follows
<1> QED BY <1>3, <1>4, <1>5, InitCare DEF WatchInv

\* A watcher that is in sync leaves the device table as adb has it, whatever it was told
\* before its connection was reset and whatever a reconnection, a failed listing or an
\* event for other devices did meanwhile (handleDeviceStateChange, publishDevices).
THEOREM TableIsAsWatched == Spec => []TableFollowsWatcher
<1>1. WatchInv => TableFollowsWatcher
  BY DEF WatchInv, Follows, Told, TableFollowsWatcher, InSync
<1> QED BY InitWatch, StepWatch, <1>1, PTL DEF Spec

=============================================================================

--------------------------- MODULE MCWebRTCOffer ---------------------------
(* Small instances of WebRTCOffer for TLC.                                  *)
EXTENDS WebRTCOffer, TLC

CONSTANTS o1, o2

MCOffers == {o1, o2}

(* Two offers and one thing that happens to them; for liveness two offers on their own,  *)
(* or one and two things, so that a viewer comes and leaves.                             *)
MCBudgets     == {[offers |-> MCOffers, events |-> 1, kinds |-> EventKinds]}
MCLiveBudgets == {[offers |-> MCOffers, events |-> 0, kinds |-> {}],
                  [offers |-> {o1}, events |-> 2, kinds |-> EventKinds]}
Symmetry == Permutations(MCOffers)

(* The view: what the future depends on. A local of an offer that it will   *)
(* not read again is left out, and so is the content of a broadcast channel *)
(* that nobody waits on: a batch is closed when its channel is filled, so   *)
(* nobody comes to wait on it later. Of the invariants only TypeOK, which   *)
(* is proved, tells such states apart.                                      *)
Awaits(o)   == pc[o] \in {"reserved", "storing", "answering", "attaching"}
Finished(o) == pc[o] \in Ended /\ starter[o] \in {"none", "done"}

MCView ==
  <<tableVars, supPc, retired, overrun, ctrl, webrtcN, startVars, videoPeers, stopping,
    streamerVars, pc, supOf, pcClosed, inFlight, budget,
    [o \in Offers |-> IF Awaits(o) THEN waitOn[o] ELSE None],
    [o \in Offers |-> IF pc[o] = "storing" THEN mapOf[o] ELSE None],
    [o \in Offers |-> IF Finished(o) THEN None ELSE streamerOf[o]],
    [b \in Offers |-> IF Waiters(b) = {} THEN None ELSE chan[b].n],
    [b \in Offers |-> Waiters(b) # {} /\ chan[b].ok]>>
=============================================================================

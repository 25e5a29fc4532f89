-------------------------- MODULE ConnectionSlots --------------------------
(***************************************************************************)
(* What activeWebRTCConnections promises, without a word of how a          *)
(* connection is made: under each key at most one peer connection is held; *)
(* a peer is born held, and leaves by being closed, or astray when another *)
(* takes its key. Nothing brings it back.                                  *)
(***************************************************************************)
CONSTANTS Keys, Peers, Nobody

VARIABLES
  slot,   \* key -> the peer held under it
  life    \* peer -> "unborn", "held", "closed" or "stray"

Init ==
  /\ slot = [k \in Keys |-> Nobody]
  /\ life = [p \in Peers |-> "unborn"]

Hold(k, p) ==
  /\ life[p] = "unborn"
  /\ slot' = [slot EXCEPT ![k] = p]
  /\ life' = [q \in Peers |-> CASE q = p -> "held"
                                 [] q = slot[k] -> "stray"
                                 [] OTHER -> life[q]]

Close(k) ==
  /\ slot[k] # Nobody
  /\ slot' = [slot EXCEPT ![k] = Nobody]
  /\ life' = [life EXCEPT ![slot[k]] = "closed"]

Next == \E k \in Keys : Close(k) \/ \E p \in Peers : Hold(k, p)

Spec == Init /\ [][Next]_<<slot, life>>
=============================================================================

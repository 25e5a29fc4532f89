-------------------------- MODULE MCClientDevices ---------------------------
(* Two devices of one endpoint and one of another. The server moves while   *)
(* the user does little, and the user does more while it stands still.      *)
EXTENDS ClientDevices, TLC

CONSTANTS d1, d2, d3, e1, e2

MCEndpointOf == d1 :> e1 @@ d2 :> e1 @@ d3 :> e2

Budget(D, c, o, k) == [devices |-> D, changes |-> c, outages |-> o, clicks |-> k]

MCBudgets == {Budget({d1}, 2, 1, 0), Budget({d1, d2}, 1, 0, 0),
              Budget({d1}, 1, 0, 1), Budget({d1, d2}, 0, 1, 3), Budget({d1, d3}, 0, 0, 3)}
=============================================================================

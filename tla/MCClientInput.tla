--------------------------- MODULE MCClientInput ----------------------------
(* Two devices whose screens differ in size by a factor of two.             *)
EXTENDS ClientInput

CONSTANTS d1, d2

MCWidth == d1 :> 2 @@ d2 :> 1
=============================================================================

--------------------------- MODULE MCClientFocus ----------------------------
(* Two devices that are plugged in twice, two shell windows.                *)
EXTENDS ClientFocus

CONSTANTS d1, d2
=============================================================================

------------------------ MODULE MCClientConnection --------------------------
(* One device with the apiUdids of two transports, two attempts to connect. *)
EXTENDS ClientConnection
=============================================================================

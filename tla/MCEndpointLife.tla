--------------------------- MODULE MCEndpointLife ---------------------------
(* One serial, retry for ever, not at all, or a bounded number of times.    *)
EXTENDS EndpointLife

MCRetries == {-1, 0, 2}
=============================================================================

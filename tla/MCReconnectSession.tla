------------------------- MODULE MCReconnectSession -------------------------
(* ReconnectSession on small instances. *)
EXTENDS ReconnectSession

CONSTANTS r1, r2, owner, worker
=============================================================================

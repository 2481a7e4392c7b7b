----------------------------- MODULE MCWsClient -----------------------------
(* WsClient on small instances. *)
EXTENDS WsClient, TLC

CONSTANTS t1, t2, ioThread

Symmetric == Permutations({t1, t2}) \cup Permutations(RouteKeys)
=============================================================================

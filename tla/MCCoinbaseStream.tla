-------------------------- MODULE MCCoinbaseStream --------------------------
(* CoinbaseStream on small instances. *)
EXTENDS CoinbaseStream, TLC

CONSTANTS t1, t2, ioThread

Symmetric == Permutations({t1, t2})
=============================================================================

----------------------------- MODULE MCTeardown -----------------------------
(* Teardown on small instances. *)
EXTENDS Teardown, TLC

CONSTANTS c1, c2, owner, ioThread

Symmetric == Permutations({c1, c2})
=============================================================================

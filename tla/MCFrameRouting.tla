--------------------------- MODULE MCFrameRouting ---------------------------
(* FrameRouting on small instances. *)
EXTENDS FrameRouting, TLC

CONSTANTS c1, c2, s1, s2

Symmetric == Permutations({c1, c2}) \cup Permutations({s1, s2})
=============================================================================

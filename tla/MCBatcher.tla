----------------------------- MODULE MCBatcher -----------------------------
(* Batcher on small instances: three or four calls with two parameters. *)
EXTENDS Batcher, TLC

CONSTANTS c1, c2, c3, c4, p1, p2, p3

Symmetry == Permutations(Calls) \cup Permutations(Params)
=============================================================================

----------------------------- MODULE MCSessions -----------------------------
(* Sessions with two of each. *)
EXTENDS Sessions, TLC

CONSTANTS s1, s2, q1, q2, c1, c2, l1, l2

Symmetry == Permutations(Requests) \cup Permutations(Changes) \cup Permutations(Logins)
=============================================================================

--------------------------- MODULE MCTokenManage ---------------------------
(* TokenManage on small instances: two tokens of one contract, or one token. *)
EXTENDS TokenManage, TLC

CONSTANTS r1, r2, t1, t2, c1

OneContract == [t \in Tokens |-> c1]
OneRetry == [t \in Tokens |-> 1]
NoRetry == [t \in Tokens |-> 0]
Symmetry == Permutations(Runs)
SymmetryBoth == Permutations(Runs) \cup Permutations(Tokens)
=============================================================================

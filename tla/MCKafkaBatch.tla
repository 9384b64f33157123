---------------------------- MODULE MCKafkaBatch ----------------------------
(* KafkaBatch on small instances: one or two consumers of a few messages. *)
EXTENDS KafkaBatch, TLC

CONSTANTS k1, k2

Symmetry == Permutations(Consumers)
=============================================================================

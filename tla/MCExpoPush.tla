----------------------------- MODULE MCExpoPush -----------------------------
(* ExpoPush with a few tasks and tokens. *)
EXTENDS ExpoPush

CONSTANTS t1, t2, t3, k1, k2, b1, b2, none

\* Two notifications for one device and one for another.
OneForK2 == [t \in Tasks |-> IF t = t2 THEN k2 ELSE k1]
=============================================================================

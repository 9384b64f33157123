------------------------- MODULE MCOpenSeaStreamer -------------------------
(* OpenSeaStreamer on a small pool. *)
EXTENDS OpenSeaStreamer

CONSTANTS c1, c2, c3
=============================================================================

--------------------------- MODULE MCResponseStream ---------------------------
(* Instances of ResponseStream for TLC: six blocks, of which some have no rows *)
(* at all and some only rows that the local query drops.                       *)
EXTENDS ResponseStream
MCPositions == 0..7
=============================================================================

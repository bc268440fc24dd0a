-------------------------- MODULE MCHypersyncStream --------------------------
(* Instances of HypersyncStream for TLC; the cfgs give the constants.        *)
EXTENDS HypersyncStream
=============================================================================

---------------------------- MODULE MCTimeBench ----------------------------
(* Instances of TimeBench for TLC.                                           *)
EXTENDS TimeBench

CONSTANTS c1, c2, c3
=============================================================================

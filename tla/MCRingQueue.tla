---------------------------- MODULE MCRingQueue ----------------------------
(* Instances of RingQueue for TLC.                                           *)
EXTENDS RingQueue

CONSTANTS p1, p2, c1, c2
=============================================================================

----------------------------- MODULE MCPtrRing -----------------------------
(* Instances of PtrRing for TLC.                                             *)
EXTENDS PtrRing

CONSTANTS p1, p2, c1, c2, r1
=============================================================================

---------------------------- MODULE MCWfcQueue -----------------------------
(* Instances of WfcQueue for TLC.                                            *)
EXTENDS WfcQueue

CONSTANTS q1, q2, n1, n2, n3, e1, c1, c2, s1
=============================================================================

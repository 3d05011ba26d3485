----------------------------- MODULE MCAlfQueue -----------------------------
(* Instances of AlfQueue for TLC.                                            *)
EXTENDS AlfQueue, TLC

CONSTANTS p1, p2, c1, c2, o1

TwoOfEach == Permutations({p1, p2}) \cup Permutations({c1, c2})
=============================================================================

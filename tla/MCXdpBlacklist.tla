--------------------------- MODULE MCXdpBlacklist ---------------------------
(* Instances of XdpBlacklist for TLC.                                        *)
EXTENDS XdpBlacklist

CONSTANTS m1, m2, l1

(* The symbol table is not in the order of the offsets.                      *)
Shuffled == [i \in 0 .. 4 |-> (2 * i + 1) % 5]
=============================================================================

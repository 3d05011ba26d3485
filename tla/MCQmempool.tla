---------------------------- MODULE MCQmempool -----------------------------
(* Instances of Qmempool for TLC.                                            *)
EXTENDS Qmempool

CONSTANTS c1, c2, c3

(* Elements in the same place are interchangeable: while no element is in    *)
(* two places, two states whose sets have the same sizes differ by a         *)
(* renaming of the elements, and so do their successors and the values of    *)
(* the properties.  TLC need not explore both.                               *)
Sizes ==
    <<Size(slab), Size(used), [c \in Cpus |-> Size(local[c])],
      [shared EXCEPT !.items = Size(@)], pc, [c \in Cpus |-> Size(got[c])],
      turn, alive>>
=============================================================================

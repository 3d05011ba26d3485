-------------------------- MODULE MCParallelBench ---------------------------
(* Instances of ParallelBench for TLC.                                       *)
EXTENDS ParallelBench

CONSTANTS c1, c2, c3
=============================================================================

---------------------------- MODULE MCXdpSample -----------------------------
(* Instances of XdpSample for TLC.                                           *)
EXTENDS XdpSample

(* Four packets on a CPU lead once through the pattern of two drops and two  *)
(* accepts.                                                                  *)
Runs ==
    [s \in Samples |-> [c \in Cpus |->
        CASE s = "bench02" -> IF c = 0 THEN 4 ELSE 1
          [] s = "rxhash"  -> IF c = 0 THEN 2 ELSE 1
          [] s = "napi"    -> 1
          [] OTHER         -> 2]]
=============================================================================

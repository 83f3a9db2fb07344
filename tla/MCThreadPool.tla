----------------------------- MODULE MCThreadPool -----------------------------
(* ThreadPool for TLC.  The calls are interchangeable in the runs without   *)
(* liveness.                                                                *)
EXTENDS ThreadPool, TLC

CallSymmetry == Permutations(Calls)
================================================================================

----------------------------- MODULE MCServerLife -----------------------------
(* ServerLife for TLC: more handlers than the pool may have threads.        *)
EXTENDS ServerLife
===============================================================================

----------------------------- MODULE MCPoolThread -----------------------------
(* PoolThread for TLC: three callers, and the teardown at any moment.       *)
EXTENDS PoolThread
================================================================================

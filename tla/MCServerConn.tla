----------------------------- MODULE MCServerConn -----------------------------
(* ServerConn for TLC. *)
EXTENDS ServerConn, TLC

HandlerSymmetry == Permutations(Handlers)
================================================================================

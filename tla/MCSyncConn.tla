------------------------------ MODULE MCSyncConn ------------------------------
(* SyncConn for TLC, with an m_orderID of 3 values, so that it comes round. *)
EXTENDS SyncConn
================================================================================

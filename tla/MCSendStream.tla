----------------------------- MODULE MCSendStream -----------------------------
(* SendStream for TLC.                                                      *)
EXTENDS SendStream
===============================================================================

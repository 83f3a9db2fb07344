----------------------------- MODULE MCClientConn -----------------------------
EXTENDS ClientConn
===============================================================================

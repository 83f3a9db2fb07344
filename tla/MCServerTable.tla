----------------------------- MODULE MCServerTable -----------------------------
(* ServerTable for TLC.  The handlers are interchangeable, and so are the   *)
(* connections.                                                             *)
EXTENDS ServerTable, TLC

Symmetry == Permutations(Conns) \cup Permutations(Handlers)

(* With one socket number, where every connection has lost its peer or its  *)
(* context, or shares its number with another one that had a race, no step  *)
(* can any more violate OpenLostToReuse, NoStaleEntry or OneOwner: TLC      *)
(* checks such a state and goes no further.                                 *)
Undecided ==
  \/ spoiled = {}
  \/ \E c \in Conns : peer[c] # "left" /\ freed[c] = 0 /\ spoiled \ {c} = {}
================================================================================

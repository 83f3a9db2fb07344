------------------------------ MODULE MCTimerMgr ------------------------------
(* TimerMgr for TLC, on wheels of 2 or 4 lists instead of 256 and 64: the  *)
(* cascades of every wheel and the wrap of the tick are within reach.  The *)
(* lists, which TimerMgr takes for sets, are compared with sequences here. *)
EXTENDS TimerLists

AllCells == Slots \cup Timers \cup {LocalHead, NullPtr}

Five == 1 .. 5
List == INSTANCE CycleLinkList WITH Cells <- Five

\* Every way to link five nodes into rings.
Memories ==
  LET Reversed(f) == [n \in Five |-> CHOOSE k \in Five : f[k] = n]
      Bijections == {f \in [Five -> Five] : \A n \in Five :
                                              \E k \in Five : f[k] = n}
  IN  {[prev |-> Reversed(f), next |-> f] : f \in Bijections}

\* The members of the list of head, from the front to the back.
Members(m, head) ==
  LET from[n \in Five] == IF n = head THEN <<>> ELSE <<n>> \o from[m.next[n]]
  IN  from[m.next[head]]

In(n, s) == \E k \in DOMAIN s : s[k] = n

\* The operations of CycleLinkList.h do to the members of a list what their
\* users rely on, and leave the members of every other list alone.
ASSUME ListsAreSequences ==
  \A m \in Memories, head \in Five, other \in Five :
    LET here  == Members(m, head)
        apart == other # head /\ ~In(other, here)
        Same(r, n) == Members(r, n) = Members(m, n)
    IN  /\ List!WellLinked(m)
        /\ List!Linklist_is_empty(m, head) <=> here = <<>>
        /\ \A member \in Five \ {head, other} :
             /\ List!Alone(m, member) =>
                  LET r == List!Linklist_add_back(m, head, member)
                  IN  /\ Members(r, head) = Append(here, member)
                      /\ r = List!Linklist_add_front(m, head, member)
                      /\ apart => Same(r, other)
             /\ LET r == List!Linklist_remote(m, member)
                IN  /\ Members(r, head) =
                         SelectSeq(here, LAMBDA n : n # member)
                    /\ Members(r, member) = <<>>
                    /\ apart /\ ~In(member, Members(m, other)) => Same(r, other)
        /\ apart =>
             LET r == List!Linklist_splice(m, head, other)
             IN  /\ Members(r, head) = <<>>
                 /\ Members(r, other) = here \o Members(m, other)
================================================================================

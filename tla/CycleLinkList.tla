----------------------------- MODULE CycleLinkList -----------------------------
(***************************************************************************)
(* The circular lists of the timer wheel (CycleLinkList.h).  A list is the *)
(* ring of its head; the memory they live in is the prev and the next of   *)
(* every cell, heads and members alike.  The operations are the            *)
(* assignments of the code, in their order.                                *)
(***************************************************************************)
LOCAL INSTANCE Integers
LOCAL INSTANCE Sequences

CONSTANT Cells  \* the LinkNodes

Memory == [prev : [Cells -> Cells], next : [Cells -> Cells]]

Linklist_init(m, head) == [m EXCEPT !.prev[head] = head, !.next[head] = head]

Linklist_is_empty(m, head) == m.next[head] = head

\* The name says the front; the node goes to the end of the list, as with
\* Linklist_add_back.
Linklist_add_front(m, head, node) ==
  LET last == m.prev[head]
  IN  [m EXCEPT !.prev[node] = last, !.next[last] = node,
                !.next[node] = head, !.prev[head] = node]

Linklist_add_back(m, head, node) ==
  LET last == m.prev[head]
  IN  [m EXCEPT !.prev[node] = last, !.next[node] = head,
                !.next[last] = node, !.prev[head] = node]

Linklist_remote(m, node) ==
  LET before == m.prev[node]
      after  == m.next[node]
  IN  Linklist_init([m EXCEPT !.prev[after] = before, !.next[before] = after],
                    node)

\* The members of head1 go to the front of head2.
Linklist_splice(m, head1, head2) ==
  LET first == m.next[head1]
      last  == m.prev[head1]
      at    == m.next[head2]
  IN  IF Linklist_is_empty(m, head1) THEN m
      ELSE Linklist_init([m EXCEPT !.prev[first] = head2, !.next[head2] = first,
                                   !.next[last] = at, !.prev[at] = last],
                         head1)

-------------------------------------------------------------------------------
\* Every node is the next of its prev and the prev of its next: the rings are
\* whole and disjoint.
WellLinked(m) ==
  /\ m \in Memory
  /\ \A n \in Cells : m.next[m.prev[n]] = n /\ m.prev[m.next[n]] = n

\* A node that is in no list, or the head of an empty one.
Alone(m, n) == m.prev[n] = n /\ m.next[n] = n

\* The cell at place i of the ring of head: the members, and the head on both
\* sides of them.
At(head, members, i) == IF i \in DOMAIN members THEN members[i] ELSE head

\* The ring of head goes through these members, in this order.
Ring(m, head, members) ==
  \A i \in 0 .. Len(members) :
    /\ m.next[At(head, members, i)] = At(head, members, i + 1)
    /\ m.prev[At(head, members, i + 1)] = At(head, members, i)

\* The memory holds a list for every head, and no cell is in it twice.
Represents(m, heads, lists) ==
  /\ m \in Memory
  /\ heads \subseteq Cells /\ lists \in [heads -> Seq(Cells)]
  /\ \A h \in heads : Ring(m, h, lists[h])
  /\ \A g, h \in heads : \A i \in 0 .. Len(lists[g]), j \in 0 .. Len(lists[h]) :
       At(g, lists[g], i) = At(h, lists[h], j) => g = h /\ i = j
================================================================================

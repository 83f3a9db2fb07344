------------------------------ MODULE TimerLists ------------------------------
(***************************************************************************)
(* TimerMgr on the pointers of its lists.  To every action of TimerMgr,    *)
(* which takes a list for the set of its timers, this module adds what the *)
(* code does to the prev and next of the nodes meanwhile, loops included.  *)
(***************************************************************************)
EXTENDS TimerMgr, CycleLinkList, SequencesExt

CONSTANT LocalHead  \* `LinkNode head`, on the stack of the two loops

ASSUME CellsAssumption ==
  /\ IsFiniteSet(Timers)
  /\ Cells = Slots \cup Timers \cup {LocalHead, NullPtr}
  /\ Timers \cap (Slots \cup {LocalHead, NullPtr, Itself}) = {}
  /\ LocalHead \notin Slots \cup {NullPtr, Itself}

VARIABLE mem  \* prev and next of every LinkNode

listVars == <<vars, mem>>

\* TimerWheel_init: every list is empty.  (A timer that has not been added has
\* no node; AddTimer gives it null links.)
ListInit == Init /\ mem = [prev |-> [c \in Cells |-> c],
                           next |-> [c \in Cells |-> c]]

-------------------------------------------------------------------------------
\* memset of AddTimer, before the node is in any list.
Zeroed(m, t) == [m EXCEPT !.prev[t] = NullPtr, !.next[t] = NullPtr]

\* _TimerWheel_add, with `list` where the node belongs, if that is a list.
Linked(m, list, t) ==
  IF list \in Slots THEN Linklist_add_back(m, list, t) ELSE m

\* Mutant: the node is unlinked and keeps its own links.
DelinkedDangling(m, t) ==
  IF Linklist_is_empty(m, t) THEN m
  ELSE [m EXCEPT !.prev[m.next[t]] = m.prev[t], !.next[m.prev[t]] = m.next[t]]

\* TimerWheel_del.
Delinked(m, t) == IF Linklist_is_empty(m, t) THEN m ELSE Linklist_remote(m, t)

\* One turn of a loop over the local list: its first node is taken out and
\* linked to the list it goes to.
FirstMoved(m, target) ==
  LET first == m.next[LocalHead]
  IN  IF Linklist_is_empty(m, LocalHead) THEN m
      ELSE Linked(Linklist_remote(m, first), target[first], first)

\* The turns of the loop over a list, which is first moved to the local head.
Turns(m, list, target) ==
  LET after[k \in 0 .. Cardinality(Timers)] ==
        IF k = 0
        THEN Linklist_splice(Linklist_init(m, LocalHead), list, LocalHead)
        ELSE FirstMoved(after[k - 1], target)
  IN  after

\* The loop ends when the local list is empty, with no timer handled twice.
Emptied(m, list, target) == Turns(m, list, target)[Cardinality(Timers)]

\* _TimerWheel_cascade of twOther[i], if this tick gets to it.
HandedDown(m, i, now) ==
  LET list == <<i + 1, NthIndex(now, i)>>
  IN  IF list \in Cascaded(now)
      THEN Emptied(m, list, [t \in Timers |-> Placed(now, node[t].expire, Itself)])
      ELSE m

\* Where a timer that fires goes.
Rearmed(now) ==
  [t \in Timers |-> IF node[t].timerType = "Once" THEN Itself
                    ELSE Placed(now, NextExpire(t, now), Itself)]

\* The lists of the other wheels that come round, from the lowest up.
AllHandedDown(now) ==
  HandedDown(HandedDown(HandedDown(HandedDown(mem, 0, now), 1, now), 2, now),
             3, now)

\* _TimerWheel_tick.
Ticked(now) == Emptied(AllHandedDown(now), <<0, FirstIndex(now)>>, Rearmed(now))

-------------------------------------------------------------------------------
\* A step that has crashed says nothing of the memory.
Unless(m) == mem' = IF crashed' THEN mem ELSE m

ListAddTimer(t, type, delay, due) ==
  /\ AddTimer(t, type, delay, due)
  /\ Unless(Linked(Zeroed(mem, t), node'[t].links, t))

\* TimerWheel_pause and DelTimer unlink the node in the same way.
ListPauseTimer(t) == PauseTimer(t) /\ Unless(Delinked(mem, t))
ListDelTimer(t)   == DelTimer(t) /\ Unless(Delinked(mem, t))

\* Linklist_add_back, without a look at where the node is.
ListReStartTimer(t) ==
  /\ ReStartTimer(t)
  /\ Unless(Linklist_add_back(mem, node[t].lastHead, t))

ListTick == Tick /\ Unless(Ticked(Wrap(tick + 1)))

ListBeginUpdate == BeginUpdate /\ UNCHANGED mem

ListAnyAddTimer ==
  \E t \in Timers, type \in Types, delay \in Delays, due \in Dues :
    ListAddTimer(t, type, delay, due)

ListNext ==
  \/ ListBeginUpdate \/ ListTick
  \/ ListAnyAddTimer
  \/ \E t \in Timers : ListDelTimer(t) \/ ListPauseTimer(t) \/ ListReStartTimer(t)

ListSpec == ListInit /\ [][ListNext]_listVars

\* The fairness of TimerMgr: what is done to the lists holds no step back.
ListFairSpec == ListSpec /\ WF_vars(BeginUpdate) /\ WF_vars(Tick)

-------------------------------------------------------------------------------
(* Properties.                                                             *)

\* The ring of each head goes exactly once through every timer whose links say
\* it is in that list, a node that is in none stands alone, and one that was
\* never linked has null links.
Holds(m, heads, links) ==
  /\ m \in Memory
  /\ \A h \in heads :
       \E s \in SetToSeqs({t \in Timers : links[t] = h}) : Ring(m, h, s)
  /\ \A t \in Timers :
       /\ links[t] = Itself => Alone(m, t)
       /\ links[t] = NullPtr => m.prev[t] = NullPtr /\ m.next[t] = NullPtr

\* What TimerMgr says of its lists is what a walk along the pointers finds,
\* through insertions, removals and the loops that relink nodes while they
\* empty a list (CycleLinkList.h, TimerWheel.cpp:118-255).
ListsMatch == Holds(mem, Slots, [t \in Timers |-> node[t].links])

\* A tick hands to the pool exactly the timers on the ring of its list after
\* the lists above have been handed down, whatever was relinked meanwhile
\* (TimerWheel.cpp:232-246).
FiresItsRing ==
  [][ListTick /\ ~crashed' =>
       \E s \in SetToSeqs(posted') :
         Ring(AllHandedDown(tick'), <<0, FirstIndex(tick')>>, s)]_listVars
================================================================================

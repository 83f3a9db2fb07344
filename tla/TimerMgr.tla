------------------------------- MODULE TimerMgr -------------------------------
(***************************************************************************)
(* TimerMgr (TimerMgr.cpp) on its timer wheel (TimerWheel.cpp): AddTimer,  *)
(* PauseTimer, ReStartTimer and DelTimer from any thread, and the thread   *)
(* that ticks the wheel, all under m_timerMutex.  A step of a user holds   *)
(* the mutex from beginning to end; an update holds it for all its ticks.  *)
(*                                                                         *)
(* The nodes of a list are a set: every one of them is handled by the tick *)
(* that reaches the list, and no property tells their order apart.         *)
(***************************************************************************)
EXTENDS TimerWheel, FiniteSets

CONSTANTS Timers,    \* the uniqueIDs
          Interval,  \* m_interval, milliseconds per tick
          Delays,    \* values of delayTime_ms the users pass
          Dues,      \* values of dueTime_ms the users pass
          MaxBurst,  \* bound: the ticks of one update
          Itself     \* links of a node that is in no list

ASSUME IntervalAssumption == Interval \in Nat \ {0}
ASSUME TimesAssumption    == Delays \subseteq Uint32 /\ Dues \subseteq Uint32
ASSUME BurstAssumption    == MaxBurst \in Nat \ {0}
ASSUME LinksAssumption    == {Itself, NullPtr} \cap Slots = {} /\ Itself # NullPtr

VARIABLES
  tick,    \* TimerWheel::currentTick
  map,     \* the keys of m_timerNodeMap
  node,    \* the node of each key
  behind,  \* ticks the update under way has still to make; 0: mutex free
  posted,  \* callbacks the last tick handed to m_TaskPool
  crashed  \* a null list pointer was followed

vars == <<tick, map, node, behind, posted, crashed>>

Types == {"Once", "Repeat"}
Stats == {"Running", "Pauseing"}
Links == Slots \cup {Itself, NullPtr}
Nodes == [links : Links, expire : Uint32, timerType : Types, timerStat : Stats,
          delayTime : Delays \cup {0}, dueTime : Dues \cup {0},
          lastHead : Slots \cup {NullPtr}]

\* What is kept for an id that has no node.  A node that DelTimer has taken out
\* of the map is reachable no more (and never freed).
NoNode == [links |-> Itself, expire |-> 0, timerType |-> "Once",
           timerStat |-> "Running", delayTime |-> 0, dueTime |-> 0,
           lastHead |-> NullPtr]

TypeOK ==
  /\ tick \in Uint32
  /\ map \subseteq Timers
  /\ node \in [Timers -> Nodes]
  /\ behind \in 0 .. MaxBurst
  /\ posted \subseteq Timers
  /\ crashed \in BOOLEAN

Init ==
  /\ tick = 0
  /\ map = {}
  /\ node = [t \in Timers |-> NoNode]
  /\ behind = 0
  /\ posted = {}
  /\ crashed = FALSE

-------------------------------------------------------------------------------
\* A user holds m_timerMutex: no update is under way.
Locked == behind = 0 /\ ~crashed

Crash == crashed' = TRUE /\ posted' = {} /\ UNCHANGED <<tick, map, node, behind>>

\* Every step but a tick hands nothing to the pool.
Quiet == posted' = {} /\ UNCHANGED <<tick, behind, crashed>>

\* TimerWheel_del unlinks the node.  A node that _TimerWheel_add dropped still
\* has the null links of the memset, which the unlinking follows.
Unlinkable(t) == node[t].links # NullPtr

\* The sum of the two DWORDs wraps.
FirstTicks(delay, due) ==
  LET ticks == Wrap(delay + due) \div Interval
  IN  IF ticks > 0 THEN ticks ELSE 1

\* AddTimer with an id that is not in use.  (With one that is, the new node is
\* leaked and nothing else happens.)
AddTimer(t, type, delay, due) ==
  LET expire == Wrap(tick + FirstTicks(delay, due))
  IN  /\ Locked
      /\ t \notin map
      /\ IF NoHead(tick, expire)
         THEN Crash
         ELSE /\ map'  = map \cup {t}
              /\ node' = [node EXCEPT ![t] =
                   [links |-> Placed(tick, expire, NullPtr), expire |-> expire,
                    timerType |-> type, timerStat |-> "Running",
                    delayTime |-> delay, dueTime |-> due,
                    lastHead |-> NullPtr]]
              /\ Quiet

\* Mutant: PauseTimer leaves the node in its list.
PauseTimerLinked(t) ==
  /\ Locked
  /\ t \in map
  /\ IF ~Unlinkable(t) THEN Crash
     ELSE /\ node' = [node EXCEPT ![t].timerStat = "Pauseing"]
          /\ UNCHANGED map
          /\ Quiet

\* TimerWheel_pause remembers the list the node would now go to, unless it has
\* expired.
Remembered(t) ==
  IF Expired(tick, node[t].expire) THEN node[t].lastHead
  ELSE HeadOf(tick, node[t].expire)

\* PauseTimer: the node leaves its list.
PauseTimer(t) ==
  /\ Locked
  /\ t \in map
  /\ IF ~Unlinkable(t) THEN Crash
     ELSE /\ node' = [node EXCEPT ![t].timerStat = "Pauseing",
                                  ![t].links = Itself,
                                  ![t].lastHead = Remembered(t)]
          /\ UNCHANGED map
          /\ Quiet

\* ReStartTimer links the node to the list it remembers.
ReStartTimer(t) ==
  /\ Locked
  /\ t \in map
  /\ node[t].timerStat = "Pauseing"
  /\ IF node[t].lastHead = NullPtr THEN Crash
     ELSE /\ node' = [node EXCEPT ![t].timerStat = "Running",
                                  ![t].links = node[t].lastHead]
          /\ UNCHANGED map
          /\ Quiet

DelTimer(t) ==
  /\ Locked
  /\ t \in map
  /\ IF ~Unlinkable(t) THEN Crash
     ELSE /\ map'  = map \ {t}
          /\ node' = [node EXCEPT ![t] = NoNode]
          /\ Quiet

-------------------------------------------------------------------------------
\* TimerWheel_update takes the mutex and finds that so many intervals have
\* passed (WheelClock says how many).
BeginUpdate ==
  /\ Locked
  /\ behind' \in 1 .. MaxBurst
  /\ posted' = {}
  /\ UNCHANGED <<tick, map, node, crashed>>

\* Mutant: a list that is handed down goes to the list that fires now.
AfterCascadeNow(t, now) ==
  IF node[t].links \in Cascaded(now) THEN <<0, FirstIndex(now)>>
  ELSE node[t].links

\* One pass of _TimerWheel_cascade over the lists in Cascaded(now).  A node is
\* moved once: with a list that this tick has already handed down, all lower
\* digits of now are 0, and the list the node goes to has a digit that is not.
AfterCascade(t, now) ==
  IF node[t].links \in Cascaded(now)
  THEN Placed(now, node[t].expire, Itself)
  ELSE node[t].links

\* When a repeated timer fires it is armed again.
NextExpire(t, now) == Wrap(now + node[t].delayTime \div Interval)

\* The node after the tick: a fired timer is unlinked, and a repeated one goes
\* to the list of its next expiry, or nowhere when that has wrapped.
AfterTick(t, now, fired) ==
  IF t \notin fired
  THEN [node[t] EXCEPT !.links = AfterCascade(t, now)]
  ELSE IF node[t].timerType = "Once"
  THEN [node[t] EXCEPT !.links = Itself]
  ELSE [node[t] EXCEPT !.links  = Placed(now, NextExpire(t, now), Itself),
                       !.expire = NextExpire(t, now)]

\* Mutant: a node of the current list fires only if it expires now.
FiredExact(now) ==
  {t \in Timers : /\ AfterCascade(t, now) = <<0, FirstIndex(now)>>
                  /\ node[t].expire = now}

\* The nodes of the current list of the first wheel, whatever their expiry.
Fired(now) == {t \in Timers : AfterCascade(t, now) = <<0, FirstIndex(now)>>}

\* _TimerWheel_tick.
Tick ==
  LET now   == Wrap(tick + 1)
      fired == Fired(now)
      lost  == \/ \E t \in Timers : /\ node[t].links \in Cascaded(now)
                                    /\ NoHead(now, node[t].expire)
               \/ \E t \in fired : /\ node[t].timerType = "Repeat"
                                   /\ NoHead(now, NextExpire(t, now))
  IN  /\ behind > 0
      /\ ~crashed
      /\ IF lost THEN Crash
         ELSE /\ tick'   = now
              /\ node'   = [t \in Timers |-> AfterTick(t, now, fired)]
              /\ posted' = fired
              /\ behind' = behind - 1
              /\ UNCHANGED <<map, crashed>>

-------------------------------------------------------------------------------
AnyAddTimer ==
  \E t \in Timers, type \in Types, delay \in Delays, due \in Dues :
    AddTimer(t, type, delay, due)

TickThread == BeginUpdate \/ Tick

Next ==
  \/ TickThread
  \/ AnyAddTimer
  \/ \E t \in Timers : DelTimer(t) \/ PauseTimer(t) \/ ReStartTimer(t)

Spec == Init /\ [][Next]_vars

\* The tick thread asks for the mutex again as soon as it has released it
\* (TimerMgr.cpp:22-26), and is not starved of the processor.
FairSpec == Spec /\ WF_vars(BeginUpdate) /\ WF_vars(Tick)

-------------------------------------------------------------------------------
(* Properties.                                                             *)

Armed(t) == node[t].links \in Slots

\* A timer that was paused remembers a list (or ends the process when it is
\* restarted).
NeverPaused(t) == node[t].timerStat = "Running" /\ node[t].lastHead = NullPtr

\* A repeated timer with a delay below the interval is armed again for the tick
\* that is being handled: its list comes round a turn of the first wheel later.
Short(t) == node[t].timerType = "Repeat" /\ node[t].delayTime < Interval

\* Where an armed timer that is never paused stands: on the first wheel it is
\* at the index of its expiry, less than a turn ahead (a short one may be a
\* turn late); on another wheel it is at the digit of its expiry, and the tick
\* that hands its list down is ahead.
PlacementInv ==
  \A t \in Timers : Armed(t) /\ NeverPaused(t) =>
    LET level  == node[t].links[1]
        index  == node[t].links[2]
        expire == node[t].expire
    IN  /\ level = 0 =>
             /\ index = FirstIndex(expire)
             /\ \/ expire - tick \in 1 .. FSize - 1
                \/ Short(t) /\ Wrap(expire + FSize - tick) \in 1 .. FSize
        /\ level > 0 => /\ index = NthIndex(expire, level - 1)
                        /\ expire - (expire % Turn[level]) > tick

\* A timer fires at the tick it was armed for, not before and not after
\* (TimerWheel.cpp:214-255), as long as nobody pauses it; a short one fires
\* exactly a turn after that from its second time on.
FiresOnTime ==
  [][\A t \in posted' : NeverPaused(t) =>
       \/ tick' = node[t].expire
       \/ Short(t) /\ tick' = Wrap(node[t].expire + FSize)]_vars

\* ReStartTimer links the node without unlinking it (TimerMgr.cpp:69), which is
\* right only because a paused node is in no list, whatever came before.
PausedIsUnlinked ==
  \A t \in Timers : node[t].timerStat = "Pauseing" => node[t].links = Itself

\* A callback is handed to the pool only for a timer that is in the map and is
\* not paused, whenever the pause came.
OnlyRunningFires ==
  [][\A t \in posted' : t \in map /\ node[t].timerStat = "Running"]_vars

\* A timer whose list is on the first wheel fires, restarted or not, unless it
\* is paused (again) or deleted: what Test_Timer.h:50-56 does with timer 2.
FirstWheelFires ==
  \A t \in Timers :
    node[t].links \in FirstWheel ~>
      (t \in posted \/ t \notin map \/ node[t].timerStat = "Pauseing" \/ crashed)
================================================================================

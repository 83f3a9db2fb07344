---------------------------- MODULE TimerMgrProofs ----------------------------
(***************************************************************************)
(* Proofs about TimerMgr for every size of the wheels, every set of timers *)
(* and every delay: type correctness; that a paused timer is in no list,   *)
(* so that a restart never links a node twice and a paused timer never     *)
(* fires; and that a timer which was never paused is always in the list    *)
(* that will reach it in time, and fires at its tick.  And the proof that  *)
(* the pointers of the lists do what TimerMgr takes for granted of them:   *)
(* the operations of CycleLinkList, the loops over a list that relink its  *)
(* nodes, and a whole tick.                                                *)
(***************************************************************************)
EXTENDS TimerLists, FiniteSetTheorems, SequenceTheorems, WellFoundedInduction,
        TLAPS

-------------------------------------------------------------------------------
(* The geometry: an index is an index, and a list of the wheel is a list.  *)

LEMMA Sizes ==
  /\ FSize \in Nat \ {0} /\ NSize \in Nat \ {0}
  /\ \A k \in 1 .. 5 : Turn[k] \in Nat \ {0}
<1>1. FSize \in Nat \ {0} /\ NSize \in Nat \ {0}
  BY SizeAssumption
<1>2. \A a, b \in Nat \ {0} : a * b \in Nat \ {0}
  OBVIOUS
<1>3. /\ FSize * NSize \in Nat \ {0}
      /\ FSize * NSize * NSize \in Nat \ {0}
      /\ FSize * NSize * NSize * NSize \in Nat \ {0}
      /\ FSize * NSize * NSize * NSize * NSize \in Nat \ {0}
  BY <1>1, <1>2
<1>4. QED
  BY <1>1, <1>3 DEF Turn

LEMMA TicksAreInts ==
  /\ Uint32 \subseteq Nat /\ Uint32Size \in Nat \ {0}
  /\ \A v \in Uint32 : v < Uint32Size /\ v >= 0
  /\ \A v \in Nat : v < Uint32Size => v \in Uint32
BY Sizes DEF Uint32, Uint32Size

\* The delays of the users are DWORDs.
LEMMA DelaysAreNat == Delays \subseteq Nat /\ Dues \subseteq Nat
BY TimesAssumption, TicksAreInts

\* TWF_MASK and TWN_MASK keep an index within its wheel.
LEMMA IndexInWheel ==
  ASSUME NEW v \in Nat, NEW i \in OtherWheel
  PROVE  /\ FirstIndex(v) \in 0 .. FSize - 1
         /\ NthIndex(v, i) \in 0 .. NSize - 1
<1>1. FirstIndex(v) \in 0 .. FSize - 1
  BY Sizes DEF FirstIndex
<1>2. Turn[i + 1] \in Nat \ {0}
  BY Sizes DEF OtherWheel
<1>3. v \div Turn[i + 1] \in Int
  BY <1>2
<1>4. NthIndex(v, i) \in 0 .. NSize - 1
  BY <1>3, Sizes DEF NthIndex
<1>5. QED
  BY <1>1, <1>4

LEMMA SlotForms ==
  /\ \A x \in 0 .. FSize - 1 : <<0, x>> \in Slots
  /\ \A i \in OtherWheel, x \in 0 .. NSize - 1 : <<i + 1, x>> \in Slots
BY DEF Slots, FirstWheel, OtherWheel

LEMMA WrapFits ==
  ASSUME NEW v \in Nat
  PROVE  Wrap(v) \in Uint32
<1>1. Uint32Size \in Nat \ {0}
  BY Sizes DEF Uint32Size
<1>2. QED
  BY <1>1 DEF Wrap, Uint32

\* _TimerWheel_add finds a list of the wheel, or none.
LEMMA HeadIsSlot ==
  ASSUME NEW tick0 \in Nat, NEW expire \in Nat
  PROVE  HeadOf(tick0, expire) \in Slots \cup {NullPtr}
<1> DEFINE idx  == expire - tick0
           fits == {i \in OtherWheel : CompareVal(i) > idx}
           least == CHOOSE j \in fits : \A k \in fits : j <= k
<1>1. CASE idx < FSize
  BY <1>1, IndexInWheel, SlotForms DEF HeadOf, OtherWheel
<1>2. CASE ~(idx < FSize) /\ fits = {}
  BY <1>2 DEF HeadOf
<1>3. CASE ~(idx < FSize) /\ fits # {}
  <2>1. fits \subseteq 0 .. 3
    BY DEF OtherWheel
  <2> HIDE DEF fits
  <2>2. \E j \in fits : \A k \in fits : j <= k
    <3>1. CASE 0 \in fits
      BY <3>1, <2>1
    <3>2. CASE 0 \notin fits /\ 1 \in fits
      BY <3>2, <2>1
    <3>3. CASE 0 \notin fits /\ 1 \notin fits /\ 2 \in fits
      BY <3>3, <2>1
    <3>4. CASE 0 \notin fits /\ 1 \notin fits /\ 2 \notin fits
      <4>1. PICK j \in fits : TRUE
        BY <1>3
      <4>2. \A k \in fits : k = 3
        BY <3>4, <2>1
      <4>3. QED
        BY <4>1, <4>2
    <3>5. QED
      BY <3>1, <3>2, <3>3, <3>4
  <2>3. least \in OtherWheel
    BY <2>1, <2>2 DEF OtherWheel
  <2>4. HeadOf(tick0, expire) = <<least + 1, NthIndex(expire, least)>>
    BY <1>3 DEF HeadOf, fits
  <2>5. QED
    BY <2>3, <2>4, IndexInWheel, SlotForms
<1>4. QED
  BY <1>1, <1>2, <1>3

\* A tick hands down lists of the other wheels.
LEMMA CascadedAreSlots ==
  ASSUME NEW now \in Nat
  PROVE  Cascaded(now) \subseteq Slots
<1>1. \A i \in OtherWheel : <<i + 1, NthIndex(now, i)>> \in Slots
  BY IndexInWheel, SlotForms
<1>2. QED
  BY <1>1 DEF Cascaded


-------------------------------------------------------------------------------
(* Types.                                                                  *)

LEMMA PlacedIsLink ==
  ASSUME NEW now \in Nat, NEW expire \in Nat, NEW links \in Links,
         ~NoHead(now, expire)
  PROVE  Placed(now, expire, links) \in Links
BY HeadIsSlot DEF Placed, NoHead, Links

LEMMA NoNodeIsNode == NoNode \in Nodes
<1>1. 0 \in Uint32
  BY Sizes DEF Uint32, Uint32Size
<1>2. QED
  BY <1>1 DEF NoNode, Nodes, Links, Types, Stats

\* The node that a tick leaves is a node.
LEMMA TickedNode ==
  ASSUME TypeOK, NEW now \in Uint32, NEW fired, NEW t \in Timers
  PROVE  AfterTick(t, now, fired) \in Nodes
<1>1. now \in Nat /\ node[t] \in Nodes /\ node[t].expire \in Nat
  BY Sizes DEF TypeOK, Nodes, Uint32, Uint32Size
<1>2. \A expire \in Nat, links \in Links : Placed(now, expire, links) \in Links
  BY <1>1, HeadIsSlot DEF Placed, Links
<1>3. AfterCascade(t, now) \in Links
  BY <1>1, <1>2 DEF AfterCascade, Nodes, Links
<1>4. NextExpire(t, now) \in Uint32
  <2>1. node[t].delayTime \in Nat
    <3>1. node[t].delayTime \in Delays \cup {0}
      BY <1>1 DEF Nodes
    <3>2. \A d \in Delays : d \in Nat
      BY DelaysAreNat
    <3>3. QED
      BY <3>1, <3>2
  <2>2. now + node[t].delayTime \div Interval \in Nat
    BY <1>1, <2>1, IntervalAssumption
  <2>3. QED
    BY <2>2, WrapFits DEF NextExpire
<1>5. NextExpire(t, now) \in Nat
  BY <1>4, Sizes DEF Uint32, Uint32Size
<1>6. Placed(now, NextExpire(t, now), Itself) \in Links
  BY <1>2, <1>5 DEF Links
<1>7. QED
  BY <1>1, <1>3, <1>4, <1>6 DEF AfterTick, Nodes, Links

LEMMA TypeStep == TypeOK /\ [Next]_vars => TypeOK'
<1> SUFFICES ASSUME TypeOK, [Next]_vars
             PROVE  TypeOK'
  OBVIOUS
<1>1. tick \in Nat /\ \A t \in Timers : node[t] \in Nodes
        /\ node[t].expire \in Nat
  BY Sizes DEF TypeOK, Nodes, Uint32, Uint32Size
<1>2. CASE Crash
  BY <1>2 DEF Crash, TypeOK
<1>3. ASSUME NEW t \in Timers, NEW type \in Types, NEW delay \in Delays,
             NEW due \in Dues, AddTimer(t, type, delay, due), ~Crash
      PROVE  TypeOK'
  <2> DEFINE expire == Wrap(tick + FirstTicks(delay, due))
             new == [links |-> Placed(tick, expire, NullPtr), expire |-> expire,
                     timerType |-> type, timerStat |-> "Running",
                     delayTime |-> delay, dueTime |-> due, lastHead |-> NullPtr]
  <2>1. tick + FirstTicks(delay, due) \in Nat
    <3>1. Wrap(delay + due) \in Nat
      <4>1. delay + due \in Nat
        BY DelaysAreNat
      <4>2. QED
        BY <4>1, WrapFits, TicksAreInts
    <3>2. Wrap(delay + due) \div Interval \in Nat
      BY <3>1, IntervalAssumption
    <3>3. QED
      BY <1>1, <3>2 DEF FirstTicks
  <2>2. expire \in Uint32 /\ expire \in Nat
    BY <2>1, WrapFits, Sizes DEF Uint32, Uint32Size
  <2>3. Placed(tick, expire, NullPtr) \in Links
    BY <1>1, <2>2, HeadIsSlot DEF Placed, Links
  <2>4. new \in Nodes
    BY <2>2, <2>3 DEF Nodes, Stats
  <2>5. /\ map' = map \cup {t} /\ node' = [node EXCEPT ![t] = new]
        /\ Quiet
    BY <1>3 DEF AddTimer
  <2>6. QED
    BY <2>4, <2>5 DEF TypeOK, Quiet
<1>4. ASSUME NEW t \in Timers, PauseTimer(t), ~Crash PROVE TypeOK'
  <2>1. HeadOf(tick, node[t].expire) \in Slots \cup {NullPtr}
    BY <1>1, HeadIsSlot
  <2>2. QED
    BY <1>1, <1>4, <2>1 DEF PauseTimer, Remembered, Quiet, TypeOK, Nodes, Links,
      Stats
<1>5. ASSUME NEW t \in Timers, ReStartTimer(t), ~Crash PROVE TypeOK'
  BY <1>1, <1>5 DEF ReStartTimer, Quiet, TypeOK, Nodes, Links, Stats
<1>6. ASSUME NEW t \in Timers, DelTimer(t), ~Crash PROVE TypeOK'
  BY <1>6, NoNodeIsNode DEF DelTimer, Quiet, TypeOK
<1>7. CASE BeginUpdate
  BY <1>7 DEF BeginUpdate, TypeOK
<1>8. ASSUME Tick, ~Crash PROVE TypeOK'
  <2> DEFINE now == Wrap(tick + 1)
  <2>1. now \in Uint32
    BY <1>1, WrapFits
  <2>2. /\ tick' = now
        /\ node' = [t \in Timers |-> AfterTick(t, now, Fired(now))]
        /\ posted' = Fired(now) /\ behind' = behind - 1 /\ behind > 0
        /\ UNCHANGED <<map, crashed>>
    BY <1>8 DEF Tick
  <2>3. Fired(now) \subseteq Timers
    BY DEF Fired
  <2>4. node' \in [Timers -> Nodes]
    BY <2>1, <2>2, TickedNode
  <2>5. behind' \in 0 .. MaxBurst
    BY <2>2, BurstAssumption DEF TypeOK
  <2>6. QED
    BY <2>1, <2>2, <2>3, <2>4, <2>5 DEF TypeOK
<1>9. CASE UNCHANGED vars
  BY <1>9 DEF vars, TypeOK
<1>10. QED
  BY <1>2, <1>3, <1>4, <1>5, <1>6, <1>7, <1>8, <1>9
  DEF Next, TickThread, AnyAddTimer

LEMMA TypeInit == Init => TypeOK
<1>1. 0 \in Uint32
  BY Sizes DEF Uint32, Uint32Size
<1>2. 0 \in 0 .. MaxBurst
  BY BurstAssumption
<1>3. QED
  BY <1>1, <1>2, NoNodeIsNode DEF Init, TypeOK

\* TimerMgr and its wheel keep their types, whatever the users call.
THEOREM TypeCorrect == Spec => []TypeOK
BY TypeInit, TypeStep, PTL DEF Spec

-------------------------------------------------------------------------------
(* Paused timers.                                                          *)

\* A tick leaves a node that is in no list where it is.
LEMMA UnlinkedStays ==
  ASSUME TypeOK, NEW now \in Nat, NEW t \in Timers, node[t].links = Itself
  PROVE  AfterCascade(t, now) = Itself /\ t \notin Fired(now)
<1>1. Itself \notin Cascaded(now)
  BY CascadedAreSlots, LinksAssumption
<1>2. AfterCascade(t, now) = Itself
  BY <1>1 DEF AfterCascade
<1>3. <<0, FirstIndex(now)>> # Itself
  BY IndexInWheel, SlotForms, LinksAssumption DEF OtherWheel
<1>4. QED
  BY <1>2, <1>3 DEF Fired

LEMMA PausedStep ==
  TypeOK /\ PausedIsUnlinked /\ [Next]_vars => PausedIsUnlinked'
<1> SUFFICES ASSUME TypeOK, PausedIsUnlinked, [Next]_vars
             PROVE  PausedIsUnlinked'
  OBVIOUS
<1> USE DEF PausedIsUnlinked
<1>1. \A t \in Timers : node[t] \in Nodes
  BY DEF TypeOK
<1>2. CASE UNCHANGED node
  BY <1>2
<1>3. ASSUME NEW t \in Timers, NEW type \in Types, NEW delay \in Delays,
             NEW due \in Dues, AddTimer(t, type, delay, due)
      PROVE  PausedIsUnlinked'
  BY <1>2, <1>3 DEF AddTimer, Crash, TypeOK
<1>4. ASSUME NEW t \in Timers, PauseTimer(t) PROVE PausedIsUnlinked'
  BY <1>1, <1>2, <1>4 DEF PauseTimer, Crash, TypeOK, Nodes
<1>5. ASSUME NEW t \in Timers, ReStartTimer(t) PROVE PausedIsUnlinked'
  BY <1>1, <1>2, <1>5 DEF ReStartTimer, Crash, TypeOK, Nodes
<1>6. ASSUME NEW t \in Timers, DelTimer(t) PROVE PausedIsUnlinked'
  BY <1>2, <1>6 DEF DelTimer, Crash, TypeOK, NoNode
<1>7. CASE BeginUpdate
  BY <1>2, <1>7 DEF BeginUpdate
<1>8. ASSUME Tick, ~Crash PROVE PausedIsUnlinked'
  <2> DEFINE now == Wrap(tick + 1)
  <2>1. now \in Nat
    BY WrapFits, Sizes DEF TypeOK, Uint32, Uint32Size
  <2>2. node' = [t \in Timers |-> AfterTick(t, now, Fired(now))]
    BY <1>8 DEF Tick
  <2>3. ASSUME NEW t \in Timers, node'[t].timerStat = "Pauseing"
        PROVE  node'[t].links = Itself
    <3>1. node'[t] = AfterTick(t, now, Fired(now))
      BY <2>2
    <3>2. node[t].timerStat = "Pauseing"
      BY <1>1, <2>3, <3>1 DEF AfterTick, Nodes
    <3>3. AfterCascade(t, now) = Itself /\ t \notin Fired(now)
      BY <2>1, <3>2, UnlinkedStays
    <3>4. QED
      BY <1>1, <3>1, <3>3 DEF AfterTick, Nodes
  <2>4. QED
    BY <2>3
<1>9. CASE UNCHANGED vars
  BY <1>2, <1>9 DEF vars
<1>10. QED
  BY <1>2, <1>3, <1>4, <1>5, <1>6, <1>7, <1>8, <1>9
  DEF Next, TickThread, AnyAddTimer, Crash

\* Whatever the users call and in whatever order, a restart never links a node
\* that is in a list.
THEOREM RestartLinksOnce == Spec => []PausedIsUnlinked
<1>1. Init => PausedIsUnlinked
  BY DEF Init, PausedIsUnlinked, NoNode
<1>2. QED
  BY TypeInit, TypeStep, PausedStep, <1>1, PTL DEF Spec

\* An id that is not in the map has no node left in a list.
Unmapped == \A t \in Timers \ map : node[t] = NoNode

LEMMA UnmappedStep == TypeOK /\ Unmapped /\ [Next]_vars => Unmapped'
<1> SUFFICES ASSUME TypeOK, Unmapped, [Next]_vars
             PROVE  Unmapped'
  OBVIOUS
<1> USE DEF Unmapped
<1>1. CASE UNCHANGED <<map, node>>
  BY <1>1
<1>2. ASSUME NEW t \in Timers, NEW type \in Types, NEW delay \in Delays,
             NEW due \in Dues, AddTimer(t, type, delay, due)
      PROVE  Unmapped'
  BY <1>1, <1>2 DEF AddTimer, Crash, TypeOK
<1>3. ASSUME NEW t \in Timers, PauseTimer(t) PROVE Unmapped'
  BY <1>1, <1>3 DEF PauseTimer, Crash, TypeOK
<1>4. ASSUME NEW t \in Timers, ReStartTimer(t) PROVE Unmapped'
  BY <1>1, <1>4 DEF ReStartTimer, Crash, TypeOK
<1>5. ASSUME NEW t \in Timers, DelTimer(t) PROVE Unmapped'
  BY <1>1, <1>5 DEF DelTimer, Crash, TypeOK
<1>6. ASSUME Tick, ~Crash PROVE Unmapped'
  <2> DEFINE now == Wrap(tick + 1)
  <2>1. now \in Nat
    BY WrapFits, Sizes DEF TypeOK, Uint32, Uint32Size
  <2>2. /\ node' = [t \in Timers |-> AfterTick(t, now, Fired(now))]
        /\ map' = map
    BY <1>6 DEF Tick
  <2>3. ASSUME NEW t \in Timers \ map
        PROVE  node'[t] = NoNode
    <3>1. node[t] = NoNode /\ node[t].links = Itself
      BY DEF NoNode
    <3>2. AfterCascade(t, now) = Itself /\ t \notin Fired(now)
      BY <2>1, <3>1, UnlinkedStays
    <3>3. AfterTick(t, now, Fired(now)) = [NoNode EXCEPT !.links = Itself]
      BY <3>1, <3>2 DEF AfterTick
    <3>4. QED
      BY <2>2, <3>3 DEF NoNode
  <2>4. QED
    BY <2>2, <2>3
<1>7. CASE BeginUpdate
  BY <1>1, <1>7 DEF BeginUpdate
<1>8. CASE UNCHANGED vars
  BY <1>1, <1>8 DEF vars
<1>9. QED
  BY <1>1, <1>2, <1>3, <1>4, <1>5, <1>6, <1>7, <1>8
  DEF Next, TickThread, AnyAddTimer, Crash

\* A tick hands the pool the callbacks of timers that are in the map and are
\* not paused, for every size of the wheels and every order of the calls.
THEOREM FiresOnlyRunning == Spec => OnlyRunningFires
<1>1. Init => PausedIsUnlinked /\ Unmapped
  BY DEF Init, PausedIsUnlinked, Unmapped, NoNode
<1>2. ASSUME TypeOK, PausedIsUnlinked, Unmapped, [Next]_vars
      PROVE  [\A t \in posted' : t \in map
               /\ node[t].timerStat = "Running"]_vars
  <2> DEFINE now == Wrap(tick + 1)
  <2>1. now \in Nat
    BY <1>2, WrapFits, Sizes DEF TypeOK, Uint32, Uint32Size
  <2>2. CASE posted' = {} \/ UNCHANGED vars
    BY <2>2
  <2>3. ASSUME Tick, ~Crash, NEW t \in posted'
        PROVE  t \in map /\ node[t].timerStat = "Running"
    <3>1. t \in Fired(now) /\ t \in Timers
      BY <2>3 DEF Tick, Fired
    <3>2. node[t].links # Itself
      BY <1>2, <2>1, <3>1, UnlinkedStays
    <3>3. t \in map
      BY <1>2, <3>1, <3>2 DEF Unmapped, NoNode
    <3>4. node[t].timerStat \in {"Running", "Pauseing"}
      BY <1>2, <3>1 DEF TypeOK, Nodes, Stats
    <3>5. QED
      BY <1>2, <3>1, <3>2, <3>3, <3>4 DEF PausedIsUnlinked
  <2>4. (posted' = {} \/ UNCHANGED vars) \/ (Tick /\ ~Crash)
    BY <1>2 DEF Next, TickThread, AnyAddTimer, AddTimer, PauseTimer,
               ReStartTimer, DelTimer, BeginUpdate, Quiet, Crash
  <2>5. QED
    BY <2>2, <2>3, <2>4
<1>3. QED
  BY TypeInit, TypeStep, PausedStep, UnmappedStep, <1>1, <1>2, PTL
  DEF Spec, OnlyRunningFires

-------------------------------------------------------------------------------
(* Placement.  The arithmetic of the digits of a tick.                     *)

LEMMA DivMod ==
  ASSUME NEW a \in Int, NEW b \in Nat \ {0}
  PROVE  /\ a = b * (a \div b) + (a % b)
         /\ a % b \in 0 .. b - 1
         /\ a \div b \in Int
OBVIOUS

LEMMA OneQuotient ==
  ASSUME NEW b \in Nat \ {0}, NEW p \in Int, NEW q \in Int,
         NEW r \in 0 .. b - 1, NEW s \in 0 .. b - 1, b * p + r = b * q + s
  PROVE  p = q /\ r = s
<1>1. ASSUME p < q PROVE FALSE
  <2>1. b * (q - p) >= b
    BY <1>1
  <2>2. b * q - b * p = b * (q - p)
    OBVIOUS
  <2>3. QED
    BY <2>1, <2>2
<1>2. ASSUME q < p PROVE FALSE
  <2>1. b * (p - q) >= b
    BY <1>2
  <2>2. b * p - b * q = b * (p - q)
    OBVIOUS
  <2>3. QED
    BY <2>1, <2>2
<1>3. QED
  BY <1>1, <1>2

LEMMA DivModIs ==
  ASSUME NEW b \in Nat \ {0}, NEW q \in Int, NEW r \in 0 .. b - 1
  PROVE  (b * q + r) % b = r /\ (b * q + r) \div b = q
<1> DEFINE a == b * q + r
<1>1. a \in Int
  OBVIOUS
<1>2. a = b * (a \div b) + (a % b) /\ a % b \in 0 .. b - 1 /\ a \div b \in Int
  BY <1>1, DivMod
<1> HIDE DEF a
<1>3. b * (a \div b) + (a % b) = b * q + r
  BY <1>2 DEF a
<1>4. QED
  BY <1>2, <1>3, OneQuotient DEF a

\* Equal remainders differ by a multiple, and the other way round.
LEMMA SameRest ==
  ASSUME NEW b \in Nat \ {0}, NEW a \in Int, NEW c \in Int, a % b = c % b
  PROVE  \E q \in Int : a = c + b * q
<1> DEFINE x == a \div b
           y == c \div b
           r == c % b
<1>1. x \in Int /\ y \in Int /\ r \in Int /\ a = b * x + r /\ c = b * y + r
  BY DivMod
<1> HIDE DEF x, y, r
<1>2. b * (x - y) = b * x - b * y
  BY <1>1
<1>3. a = c + b * (x - y) /\ x - y \in Int
  BY <1>1, <1>2
<1>4. QED
  BY <1>3

LEMMA AddTurns ==
  ASSUME NEW b \in Nat \ {0}, NEW c \in Int, NEW q \in Int
  PROVE  (c + b * q) % b = c % b
<1> DEFINE y == c \div b
           r == c % b
<1>1. c = b * y + r /\ y \in Int /\ r \in 0 .. b - 1
  BY DivMod
<1> HIDE DEF y, r
<1>2. b * (y + q) = b * y + b * q
  BY <1>1
<1>3. c + b * q = b * (y + q) + r
  BY <1>1, <1>2
<1>4. y + q \in Int
  BY <1>1
<1>5. (b * (y + q) + r) % b = r
  BY <1>1, <1>4, DivModIs
<1>6. QED
  BY <1>3, <1>5 DEF r

\* Two numbers less than b apart with one remainder are equal.
LEMMA NearAndSameRest ==
  ASSUME NEW b \in Nat \ {0}, NEW a \in Int, NEW c \in Int,
         a % b = c % b, a - c < b, c - a < b
  PROVE  a = c
<1>1. PICK q \in Int : a = c + b * q
  BY SameRest
<1>2. ASSUME q > 0 PROVE FALSE
  <2>1. b * q >= b
    BY <1>2
  <2>2. QED
    BY <1>1, <2>1
<1>3. ASSUME q < 0 PROVE FALSE
  <2>1. b * (-q) >= b
    BY <1>3
  <2>2. b * (-q) = -(b * q)
    OBVIOUS
  <2>3. QED
    BY <1>1, <2>1, <2>2
<1>4. q = 0
  BY <1>2, <1>3
<1>5. QED
  BY <1>1, <1>4

\* A turn of a wheel is so many turns of the next lower one, and of the first.
LEMMA TurnOfTurns ==
  /\ \A k \in 1 .. 5 : Turn[k] \in Nat \ {0}
  /\ \A k \in 1 .. 5 : \E p \in Nat \ {0} : Turn[k] = FSize * p
  /\ \A j, k \in 1 .. 5 : j < k =>
       \E p \in Nat : Turn[k] = Turn[j] * (NSize * p)
<1> DEFINE F == FSize
           N == NSize
<1>1. F \in Nat \ {0} /\ N \in Nat \ {0}
  BY Sizes
<1>2. /\ Turn[1] = F
      /\ Turn[2] = F * N
      /\ Turn[3] = F * N * N
      /\ Turn[4] = F * N * N * N
      /\ Turn[5] = F * N * N * N * N
  BY DEF Turn
<1> HIDE DEF F, N
<1>3. /\ 1 \in Nat \ {0} /\ N \in Nat \ {0} /\ N * N \in Nat \ {0}
      /\ N * N * N \in Nat \ {0} /\ N * N * N * N \in Nat \ {0}
  <2>1. \A a, b \in Nat \ {0} : a * b \in Nat \ {0}
    OBVIOUS
  <2>2. QED
    BY <1>1, <2>1
<1>4. /\ Turn[1] = F * 1 /\ Turn[2] = F * N /\ Turn[3] = F * (N * N)
      /\ Turn[4] = F * (N * N * N) /\ Turn[5] = F * (N * N * N * N)
  BY <1>1, <1>2
<1>5. /\ Turn[2] = Turn[1] * (N * 1) /\ Turn[3] = Turn[1] * (N * N)
      /\ Turn[4] = Turn[1] * (N * (N * N))
      /\ Turn[5] = Turn[1] * (N * (N * N * N))
      /\ Turn[3] = Turn[2] * (N * 1) /\ Turn[4] = Turn[2] * (N * N)
      /\ Turn[5] = Turn[2] * (N * (N * N))
      /\ Turn[4] = Turn[3] * (N * 1) /\ Turn[5] = Turn[3] * (N * N)
      /\ Turn[5] = Turn[4] * (N * 1)
  BY <1>1, <1>2
<1>6. \A k \in 1 .. 5 : \E p \in Nat \ {0} : Turn[k] = F * p
  BY <1>3, <1>4
<1> DEFINE p2 == N
           p3 == N * N
           p4 == N * N * N
<1>7. 1 \in Nat /\ p2 \in Nat /\ p3 \in Nat /\ p4 \in Nat
  BY <1>3
<1>8. /\ Turn[2] = Turn[1] * (N * 1) /\ Turn[3] = Turn[1] * (N * p2)
      /\ Turn[4] = Turn[1] * (N * p3) /\ Turn[5] = Turn[1] * (N * p4)
      /\ Turn[3] = Turn[2] * (N * 1) /\ Turn[4] = Turn[2] * (N * p2)
      /\ Turn[5] = Turn[2] * (N * p3)
      /\ Turn[4] = Turn[3] * (N * 1) /\ Turn[5] = Turn[3] * (N * p2)
      /\ Turn[5] = Turn[4] * (N * 1)
  BY <1>5
<1> HIDE DEF p2, p3, p4
<1>9. \A j, k \in 1 .. 5 : j < k => \E p \in Nat : Turn[k] = Turn[j] * (N * p)
  <2> TAKE j, k \in 1 .. 5
  <2> HAVE j < k
  <2>1. \/ k = j + 1 /\ j \in {1, 2, 3, 4}
        \/ k = j + 2 /\ j \in {1, 2, 3}
        \/ k = j + 3 /\ j \in {1, 2}
        \/ k = 5 /\ j = 1
    OBVIOUS
  <2>2. QED
    BY <1>7, <1>8, <2>1
<1>10. QED
  BY <1>6, <1>9, Sizes DEF F, N

\* When the lower digits of a tick are 0, the tick hands down the list that its
\* digit on the wheel names.
LEMMA HandsDown ==
  ASSUME NEW now \in Nat, NEW k \in 1 .. 4, now % Turn[k] = 0
  PROVE  <<k, NthIndex(now, k - 1)>> \in Cascaded(now)
<1> DEFINE W == Turn[k]
           q == now \div W
<1>1. W \in Nat \ {0} /\ now % W = 0
  BY TurnOfTurns
<1> HIDE DEF W
<1>2. now = W * q /\ q \in Int
  BY <1>1, DivMod
<1> HIDE DEF q
<1>3. FirstIndex(now) = 0
  <2>1. PICK p \in Nat \ {0} : W = FSize * p
    BY TurnOfTurns DEF W
  <2>2. FSize \in Nat \ {0}
    BY Sizes
  <2>3. now = FSize * (p * q) + 0
    BY <1>2, <2>1, <2>2
  <2>4. p * q \in Int /\ 0 \in 0 .. FSize - 1
    BY <1>2, <2>2
  <2> DEFINE x == p * q
  <2> HIDE DEF x
  <2>5. (FSize * x + 0) % FSize = 0
    BY <2>2, <2>4, DivModIs DEF x
  <2>6. now % FSize = 0
    BY <2>3, <2>5 DEF x
  <2>7. QED
    BY <2>6 DEF FirstIndex
<1>4. ASSUME NEW j \in 0 .. k - 2 PROVE NthIndex(now, j) = 0
  <2> DEFINE T == Turn[j + 1]
  <2>1. j + 1 \in 1 .. 5 /\ k \in 1 .. 5 /\ j + 1 < k
    OBVIOUS
  <2>2. PICK p \in Nat : W = T * (NSize * p)
    BY <2>1, TurnOfTurns DEF W
  <2>3. T \in Nat \ {0} /\ NSize \in Nat \ {0}
    BY <2>1, TurnOfTurns, Sizes
  <2> DEFINE x == p * q
             y == NSize * x
  <2> HIDE DEF T
  <2>4. x \in Int /\ y \in Int
    BY <1>2, <2>3
  <2>5. now = T * y + 0
    BY <1>2, <2>2, <2>3
  <2> HIDE DEF x
  <2>6. (NSize * x + 0) % NSize = 0
    BY <2>3, <2>4, DivModIs
  <2>7. y % NSize = 0
    BY <2>3, <2>4, <2>6
  <2> HIDE DEF y
  <2>8. (T * y + 0) \div T = y
    BY <2>3, <2>4, DivModIs
  <2>9. QED
    BY <2>5, <2>7, <2>8 DEF NthIndex, T
<1>5. k - 1 \in {j \in OtherWheel : \A i \in 0 .. j - 1 : NthIndex(now, i) = 0}
  BY <1>4 DEF OtherWheel
<1>6. QED
  BY <1>3, <1>5 DEF Cascaded

\* A list of the wheel at a tick, and a timer of it that has been placed there:
\* on the first wheel less than a turn ahead, on another one behind the tick
\* that hands the list down; or, for a short timer, a turn of the first wheel
\* late.
InTime(now, slot, expire) ==
  /\ slot[1] = 0 =>
       slot[2] = FirstIndex(expire) /\ expire - now \in 1 .. FSize - 1
  /\ slot[1] > 0 =>
       /\ slot[2] = NthIndex(expire, slot[1] - 1)
       /\ expire - (expire % Turn[slot[1]]) > now

Late(now, slot, expire) ==
  /\ slot[1] = 0 /\ slot[2] = FirstIndex(expire)
  /\ Wrap(expire + FSize - now) \in 1 .. FSize

DueNow(now, slot) == slot = <<0, FirstIndex(now)>>

LEMMA SlotParts ==
  ASSUME NEW slot \in Slots
  PROVE  /\ slot = <<slot[1], slot[2]>> /\ slot[1] \in 0 .. 4
         /\ slot[1] = 0 \/ slot[1] \in 1 .. 4
         /\ slot \in FirstWheel <=> slot[1] = 0
         /\ slot[2] \in Int
BY Sizes DEF Slots, FirstWheel, OtherWheel

LEMMA CascadedAbove ==
  ASSUME NEW now \in Nat, NEW slot \in Cascaded(now)
  PROVE  slot \in Slots /\ slot[1] # 0
<1>1. PICK i \in OtherWheel : slot = <<i + 1, NthIndex(now, i)>>
  BY DEF Cascaded
<1>2. QED
  BY <1>1, CascadedAreSlots DEF OtherWheel

\* Where the lower digits of a number are 0, so is its rest by a turn.
LEMMA RestOfTurns ==
  ASSUME NEW n \in Nat, NEW T \in Nat \ {0}, NEW N \in Nat \ {0},
         n % T = 0, (n \div T) % N = 0
  PROVE  n % (T * N) = 0
<1> DEFINE q == n \div T
<1>1. n = T * q + 0 /\ q \in Int
  BY DivMod
<1>2. q % N = 0
  OBVIOUS
<1> HIDE DEF q
<1>3. PICK p \in Int : q = N * p + 0
  BY <1>1, <1>2, DivMod
<1> DEFINE W == T * N
<1>4. n = W * p + 0
  BY <1>1, <1>3
<1>5. W \in Nat \ {0} /\ 0 \in 0 .. W - 1
  <2>1. \A a, b \in Nat \ {0} : a * b \in Nat \ {0}
    OBVIOUS
  <2>2. W \in Nat \ {0}
    BY <2>1
  <2> HIDE DEF W
  <2>3. QED
    BY <2>2
<1> HIDE DEF W
<1>6. n % W = 0
  BY <1>4, <1>5, DivModIs
<1>7. QED
  BY <1>6 DEF W

\* The list a timer goes to has a digit of its expiry.
LEMMA HeadFits ==
  ASSUME NEW now \in Nat, NEW expire \in Nat, expire >= now,
         HeadOf(now, expire) # NullPtr, ~(expire - now < FSize)
  PROVE  \E i \in {0, 1, 2} :
           /\ HeadOf(now, expire) = <<i + 1, NthIndex(expire, i)>>
           /\ Turn[i + 1] <= expire - now /\ expire - now < Turn[i + 2]
<1> DEFINE idx  == expire - now
           fits == {i \in OtherWheel : CompareVal(i) > idx}
           slot == HeadOf(now, expire)
<1>1. idx \in Nat
  OBVIOUS
<1>2. /\ FSize \in Nat \ {0} /\ \A k \in 1 .. 5 : Turn[k] \in Nat \ {0}
  BY Sizes
<1>3. fits # {} /\ slot = LET i == CHOOSE j \in fits : \A k \in fits : j <= k
                          IN  <<i + 1, NthIndex(expire, i)>>
  BY DEF HeadOf
<1>4. /\ fits \subseteq {0, 1, 2}
      /\ \A i \in {0, 1, 2} : i \in fits <=> Turn[i + 2] > idx
  BY <1>1 DEF OtherWheel, CompareVal
<1>5. PICK i \in {0, 1, 2} : /\ i \in fits /\ \A k \in fits : i <= k
                             /\ slot = <<i + 1, NthIndex(expire, i)>>
  <2> HIDE DEF fits
  <2>1. \E j \in fits : \A k \in fits : j <= k
    <3>1. CASE 0 \in fits
      BY <1>4, <3>1
    <3>2. CASE 0 \notin fits /\ 1 \in fits
      BY <1>4, <3>2
    <3>3. CASE 0 \notin fits /\ 1 \notin fits
      <4>1. PICK j \in fits : TRUE
        BY <1>3
      <4>2. \A k \in fits : k = 2
        BY <1>4, <3>3
      <4>3. QED
        BY <4>1, <4>2
    <3>4. QED
      BY <3>1, <3>2, <3>3
  <2>2. QED
    BY <1>3, <1>4, <2>1
<1>6. Turn[i + 1] <= idx
  <2>1. CASE i = 0
    BY <1>1, <1>2, <2>1 DEF Turn
  <2>2. CASE i # 0
    <3>1. i - 1 \notin fits /\ i - 1 \in {0, 1, 2}
      BY <1>5, <2>2
    <3>2. ~(Turn[i + 1] > idx)
      BY <1>4, <3>1
    <3>3. Turn[i + 1] \in Nat
      BY <1>2
    <3>4. QED
      BY <1>1, <3>2, <3>3
  <2>3. QED
    BY <2>1, <2>2
<1>7. Turn[i + 2] > idx
  BY <1>4, <1>5
<1>8. Turn[i + 2] \in Nat
  BY <1>2
<1>9. QED
  BY <1>1, <1>5, <1>6, <1>7, <1>8

\* _TimerWheel_add puts a timer on the wheel that has room for what is left of
\* its time; what is due now is in the list that fires now.
LEMMA HeadInTime ==
  ASSUME NEW now \in Uint32, NEW expire \in Uint32, expire >= now,
         HeadOf(now, expire) # NullPtr
  PROVE  /\ HeadOf(now, expire) \in Slots
         /\ \/ InTime(now, HeadOf(now, expire), expire)
            \/ expire = now /\ DueNow(now, HeadOf(now, expire))
         /\ DueNow(now, HeadOf(now, expire)) => expire = now
<1> DEFINE idx  == expire - now
           slot == HeadOf(now, expire)
<1>1. now \in Nat /\ expire \in Nat /\ idx \in Nat
  BY TicksAreInts
<1>2. slot \in Slots
  BY <1>1, HeadIsSlot
<1>3. /\ FSize \in Nat \ {0} /\ NSize \in Nat \ {0}
      /\ \A k \in 1 .. 5 : Turn[k] \in Nat \ {0}
  BY Sizes
<1>4. CASE idx < FSize
  <2>1. slot = <<0, FirstIndex(expire)>>
    BY <1>4 DEF HeadOf
  <2>2. slot[1] = 0 /\ slot[2] = FirstIndex(expire)
    BY <2>1
  <2>3. expire = now \/ idx \in 1 .. FSize - 1
    BY <1>1, <1>3, <1>4
  <2>4. expire = now => DueNow(now, slot)
    BY <2>1 DEF DueNow
  <2>5. ASSUME DueNow(now, slot) PROVE expire = now
    <3>1. expire % FSize = now % FSize
      BY <2>1, <2>5 DEF DueNow, FirstIndex
    <3>2. /\ expire \in Int /\ now \in Int /\ FSize \in Nat \ {0}
          /\ expire - now < FSize /\ now - expire < FSize
      BY <1>1, <1>3, <1>4
    <3>3. QED
      BY <3>1, <3>2, NearAndSameRest
  <2>6. expire - now \in 1 .. FSize - 1 => InTime(now, slot, expire)
    BY <2>2 DEF InTime
  <2>7. QED
    BY <1>2, <2>3, <2>4, <2>5, <2>6
<1>5. CASE ~(idx < FSize)
  <2>1. PICK i \in {0, 1, 2} :
          slot = <<i + 1, NthIndex(expire, i)>> /\ Turn[i + 1] <= idx
    BY <1>1, <1>5, HeadFits
  <2>2. slot = <<i + 1, NthIndex(expire, i)>>
    BY <2>1
  <2>3. Turn[i + 1] <= idx
    BY <2>1
  <2>4. slot[1] = i + 1 /\ slot[2] = NthIndex(expire, i) /\ slot[1] > 0
    BY <2>2
  <2>5. expire - (expire % Turn[i + 1]) > now
    <3> DEFINE T == Turn[i + 1]
    <3>1. T \in Nat \ {0} /\ T <= idx /\ expire \in Int
      BY <1>1, <1>3, <2>3
    <3> HIDE DEF T
    <3>2. expire % T \in 0 .. T - 1
      BY <3>1, DivMod
    <3>3. expire - (expire % T) > now
      BY <1>1, <3>1, <3>2
    <3>4. QED
      BY <3>3 DEF T
  <2>6. InTime(now, slot, expire)
    BY <2>4, <2>5 DEF InTime
  <2>7. ~DueNow(now, slot)
    BY <2>4 DEF DueNow
  <2>8. QED
    BY <1>2, <2>6, <2>7
<1>6. QED
  BY <1>4, <1>5

\* A timer that is handed down does not go to a list which the same tick hands
\* down, so a tick moves it once.
LEMMA HandedDownOnce ==
  ASSUME NEW now \in Nat, NEW expire \in Nat, expire >= now,
         HeadOf(now, expire) # NullPtr
  PROVE  HeadOf(now, expire) \notin Cascaded(now)
<1>1. CASE expire - now < FSize
  <2>1. HeadOf(now, expire)[1] = 0
    BY <1>1 DEF HeadOf
  <2>2. QED
    BY <2>1, CascadedAbove
<1>2. CASE ~(expire - now < FSize)
  <2>1. PICK i \in {0, 1, 2} :
          /\ HeadOf(now, expire) = <<i + 1, NthIndex(expire, i)>>
          /\ Turn[i + 1] <= expire - now /\ expire - now < Turn[i + 2]
    BY <1>2, HeadFits
  <2>2. SUFFICES ASSUME <<i + 1, NthIndex(expire, i)>> \in Cascaded(now)
                 PROVE  FALSE
    BY <2>1
  <2>3. /\ NthIndex(expire, i) = NthIndex(now, i) /\ FirstIndex(now) = 0
        /\ \A k \in 0 .. i - 1 : NthIndex(now, k) = 0
    <3>1. PICK j \in OtherWheel :
            /\ <<i + 1, NthIndex(expire, i)>> = <<j + 1, NthIndex(now, j)>>
            /\ \A k \in 0 .. j - 1 : NthIndex(now, k) = 0
      BY <2>2 DEF Cascaded
    <3>2. j = i
      BY <3>1 DEF OtherWheel
    <3>3. QED
      BY <2>2, <3>1, <3>2 DEF Cascaded
  <2> DEFINE T == Turn[i + 1]
             N == NSize
  <2>4. /\ FSize \in Nat \ {0} /\ N \in Nat \ {0} /\ T \in Nat \ {0}
        /\ Turn[1] = FSize /\ Turn[2] = FSize * NSize
        /\ Turn[3] = FSize * NSize * NSize
        /\ Turn[4] = FSize * NSize * NSize * NSize
        /\ FSize * NSize \in Nat \ {0}
    <3>1. Turn[2] \in Nat \ {0}
      BY Sizes
    <3>2. QED
      BY <3>1, Sizes DEF Turn
  <2>5. Turn[i + 2] = T * N
    BY <2>4
  <2>6. now % Turn[1] = 0
    BY <2>3, <2>4 DEF FirstIndex
  <2>7. i > 0 => now % Turn[2] = 0
    <3>1. SUFFICES ASSUME i > 0 PROVE now % Turn[2] = 0
      OBVIOUS
    <3>2. NthIndex(now, 0) = 0
      BY <2>3, <3>1
    <3>3. (now \div FSize) % NSize = 0
      BY <2>4, <3>2 DEF NthIndex
    <3>4. now % FSize = 0
      BY <2>4, <2>6
    <3>5. now % (FSize * NSize) = 0
      BY <2>4, <3>3, <3>4, RestOfTurns
    <3>6. QED
      BY <2>4, <3>5
  <2>8. i = 2 => now % Turn[3] = 0
    <3>1. SUFFICES ASSUME i = 2 PROVE now % Turn[3] = 0
      OBVIOUS
    <3>2. NthIndex(now, 1) = 0
      BY <2>3, <3>1
    <3> DEFINE W == FSize * NSize
    <3>3. (now \div W) % NSize = 0 /\ now % W = 0 /\ W \in Nat \ {0}
      BY <2>4, <2>7, <3>1, <3>2 DEF NthIndex
    <3> HIDE DEF W
    <3>4. now % (W * NSize) = 0
      BY <2>4, <3>3, RestOfTurns
    <3>5. QED
      BY <2>4, <3>4 DEF W
  <2>9. now % T = 0
    BY <2>6, <2>7, <2>8
  <2>10. T <= expire - now /\ expire - now < T * N
    BY <2>1, <2>5
  <2>11. (expire \div T) % N = (now \div T) % N
    BY <2>3 DEF NthIndex
  <2> HIDE DEF T, N
  <2> DEFINE a == now \div T
             b == expire \div T
             r == expire % T
  <2>12. /\ now = T * a + 0 /\ expire = T * b + r /\ a \in Int /\ b \in Int
         /\ r \in 0 .. T - 1
    <3>1. T \in Nat \ {0} /\ now \in Int /\ expire \in Int
      BY <2>4
    <3>2. now = T * (now \div T) + (now % T) /\ now \div T \in Int
      BY <3>1, DivMod
    <3>3. /\ expire = T * (expire \div T) + (expire % T)
          /\ expire \div T \in Int
          /\ expire % T \in 0 .. T - 1
      BY <3>1, DivMod
    <3>4. QED
      BY <2>9, <3>2, <3>3
  <2>13. b % N = a % N
    BY <2>11
  <2> HIDE DEF a, b, r
  <2>14. b - a < N
    <3>1. T * (b - a) = T * b - T * a /\ T * (b - a) < T * N
      BY <2>4, <2>10, <2>12
    <3>2. ASSUME b - a >= N PROVE FALSE
      <4>1. T * (b - a) >= T * N
        BY <2>4, <2>12, <3>2
      <4>2. QED
        BY <2>4, <2>12, <3>1, <4>1
    <3>3. QED
      BY <2>4, <2>12, <3>2
  <2>15. b > a
    <3>1. ASSUME b <= a PROVE FALSE
      <4>1. T * b <= T * a
        BY <2>4, <2>12, <3>1
      <4>2. QED
        BY <2>4, <2>10, <2>12, <4>1
    <3>2. QED
      BY <2>12, <3>1
  <2>16. b = a
    <3>1. b - a < N /\ a - b < N
      BY <2>4, <2>12, <2>14, <2>15
    <3>2. QED
      BY <2>4, <2>12, <2>13, <3>1, NearAndSameRest
  <2>17. QED
    BY <2>12, <2>15, <2>16
<1>3. QED
  BY <1>1, <1>2

\* A tick goes by: a timer that is in time is due, is handed down, or stays in
\* time; the tick does not wrap before it.
LEMMA InTimeTick ==
  ASSUME NEW tick0 \in Uint32, NEW slot \in Slots, NEW expire \in Uint32,
         InTime(tick0, slot, expire)
  PROVE  LET now == Wrap(tick0 + 1) IN
         /\ now = tick0 + 1 /\ expire >= now
         /\ slot \notin Cascaded(now) /\ ~DueNow(now, slot)
              => InTime(now, slot, expire)
         /\ DueNow(now, slot) => expire = now
<1> DEFINE now == Wrap(tick0 + 1)
           T   == Turn[slot[1]]
<1>1. /\ tick0 \in Nat /\ expire \in Nat
      /\ expire < Uint32Size /\ Uint32Size \in Nat \ {0}
  BY TicksAreInts
<1>2. slot[1] = 0 \/ slot[1] \in 1 .. 4
  BY SlotParts
<1>3. slot[1] \in 1 .. 4 => T \in Nat \ {0} /\ expire % T \in 0 .. T - 1
  <2>1. SUFFICES ASSUME slot[1] \in 1 .. 4
                 PROVE  T \in Nat \ {0} /\ expire % T \in 0 .. T - 1
    OBVIOUS
  <2>2. T \in Nat \ {0}
    BY <2>1, Sizes
  <2> HIDE DEF T
  <2>3. expire % T \in 0 .. T - 1
    BY <1>1, <2>2, DivMod
  <2>4. QED
    BY <2>2, <2>3
<1>4. expire > tick0
  <2>1. CASE slot[1] = 0
    BY <1>1, <2>1, Sizes DEF InTime
  <2>2. CASE slot[1] \in 1 .. 4
    <3>1. expire - (expire % T) > tick0
      BY <2>2 DEF InTime
    <3> HIDE DEF T
    <3>2. QED
      BY <1>1, <1>3, <2>2, <3>1
  <2>3. QED
    BY <1>2, <2>1, <2>2
<1>5. now = tick0 + 1
  <2>1. tick0 + 1 \in 0 .. Uint32Size - 1
    BY <1>1, <1>4
  <2> DEFINE n == tick0 + 1
  <2> HIDE DEF n
  <2>2. n \in 0 .. Uint32Size - 1 /\ 0 \in Int
    BY <2>1 DEF n
  <2>3. (Uint32Size * 0 + n) % Uint32Size = n
    BY <1>1, <2>2, DivModIs
  <2>4. n % Uint32Size = n
    BY <1>1, <2>2, <2>3
  <2>5. QED
    BY <2>4 DEF Wrap, n
<1>6. now \in Nat /\ expire >= now
  BY <1>1, <1>4, <1>5
<1> HIDE DEF now
<1>7. CASE slot[1] = 0
  <2>1. slot[2] = FirstIndex(expire) /\ expire - tick0 \in 1 .. FSize - 1
    BY <1>7 DEF InTime
  <2>2. expire - now \in 0 .. FSize - 2
    BY <1>1, <1>5, <2>1, Sizes
  <2>3. ASSUME DueNow(now, slot) PROVE expire = now
    <3>1. expire % FSize = now % FSize
      BY <2>1, <2>3 DEF DueNow, FirstIndex
    <3>2. /\ expire \in Int /\ now \in Int /\ FSize \in Nat \ {0}
          /\ expire - now < FSize /\ now - expire < FSize
      BY <1>1, <1>6, <2>2, Sizes
    <3>3. QED
      BY <3>1, <3>2, NearAndSameRest
  <2>4. ASSUME ~DueNow(now, slot) PROVE InTime(now, slot, expire)
    <3>1. expire # now
      <4>1. slot = <<0, slot[2]>>
        BY <1>7, SlotParts
      <4>2. QED
        BY <2>1, <2>4, <4>1 DEF DueNow
    <3>2. expire - now \in 1 .. FSize - 1
      BY <1>1, <1>6, <2>2, <3>1, Sizes
    <3>3. QED
      BY <1>7, <2>1, <3>2 DEF InTime
  <2>5. QED
    BY <1>5, <1>6, <2>3, <2>4 DEF now
<1>8. CASE slot[1] \in 1 .. 4
  <2>1. slot[2] = NthIndex(expire, slot[1] - 1) /\ expire - (expire % T) > tick0
    BY <1>8 DEF InTime
  <2>2. ~DueNow(now, slot)
    BY <1>8 DEF DueNow
  <2>3. ASSUME slot \notin Cascaded(now) PROVE InTime(now, slot, expire)
    <3>1. CASE expire - (expire % T) = now
      <4>1. T \in Nat \ {0}
        BY <1>3, <1>8
      <4> DEFINE q == expire \div T
      <4> HIDE DEF T
      <4>2. q \in Int /\ expire = T * q + (expire % T) /\ now = T * q + 0
        BY <1>1, <3>1, <4>1, DivMod
      <4> HIDE DEF q
      <4>3. 0 \in 0 .. T - 1
        BY <4>1
      <4>4. now % T = 0 /\ now \div T = q
        BY <4>1, <4>2, <4>3, DivModIs
      <4>5. NthIndex(now, slot[1] - 1) = NthIndex(expire, slot[1] - 1)
        BY <1>8, <4>4 DEF NthIndex, q, T
      <4>6. <<slot[1], NthIndex(now, slot[1] - 1)>> \in Cascaded(now)
        BY <1>6, <1>8, <4>4, HandsDown DEF T
      <4>7. slot = <<slot[1], slot[2]>>
        BY SlotParts
      <4>8. QED
        BY <2>1, <2>3, <4>5, <4>6, <4>7
    <3>2. CASE expire - (expire % T) # now
      <4>1. expire - (expire % T) > now
        <5> HIDE DEF T
        <5>1. QED
          BY <1>1, <1>3, <1>5, <1>8, <2>1, <3>2
      <4>2. QED
        BY <1>8, <2>1, <4>1 DEF InTime
    <3>3. QED
      BY <3>1, <3>2
  <2>4. QED
    BY <1>5, <1>6, <2>2, <2>3 DEF now
<1>9. QED
  BY <1>2, <1>7, <1>8

\* The same for a short timer, which is a turn of the first wheel late.
LEMMA LateTick ==
  ASSUME NEW tick0 \in Uint32, NEW slot \in Slots, NEW expire \in Uint32,
         Late(tick0, slot, expire)
  PROVE  LET now == Wrap(tick0 + 1) IN
         /\ slot \notin Cascaded(now)
         /\ ~DueNow(now, slot) => Late(now, slot, expire)
         /\ DueNow(now, slot) => now = Wrap(expire + FSize)
<1> DEFINE now == Wrap(tick0 + 1)
           U == Uint32Size
           a == expire + FSize - tick0
           d == Wrap(a)
           x == a \div U
           y == (tick0 + 1) \div U
           z == x + y
<1>1. /\ tick0 \in Nat /\ expire \in Nat /\ expire < U /\ U \in Nat \ {0}
      /\ FSize \in Nat \ {0} /\ a \in Int /\ tick0 + 1 \in Int
  BY TicksAreInts, Sizes
<1>2. slot[1] = 0 /\ slot[2] = FirstIndex(expire) /\ d \in 1 .. FSize
  BY DEF Late
<1>3. a = U * x + d /\ x \in Int /\ d \in 0 .. U - 1
  BY <1>1, DivMod DEF Wrap
<1>4. tick0 + 1 = U * y + now /\ y \in Int /\ now \in 0 .. U - 1
  BY <1>1, DivMod DEF Wrap
<1>5. PICK p \in Nat \ {0} : U = FSize * p
  BY TurnOfTurns DEF Uint32Size
<1> HIDE DEF U, x, y, d
<1>6. slot \notin Cascaded(now)
  BY <1>1, <1>2, <1>4, CascadedAbove
<1> HIDE DEF now
<1>7. expire + FSize - now = U * z + (d - 1) /\ z \in Int
  <2>1. U * z = U * x + U * y
    BY <1>1, <1>3, <1>4
  <2>2. QED
    BY <1>1, <1>3, <1>4, <2>1
<1> HIDE DEF z, a
<1>8. Wrap(expire + FSize - now) = d - 1
  <2> DEFINE r == d - 1
  <2>1. r \in 0 .. U - 1
    BY <1>1, <1>2, <1>3
  <2> HIDE DEF r
  <2>2. (U * z + r) % U = r
    BY <1>1, <1>7, <2>1, DivModIs
  <2>3. QED
    BY <1>7, <2>2 DEF Wrap, U, r
<1>9. expire % FSize = (now + (d - 1)) % FSize
  <2> DEFINE n == now + (d - 1)
             w == p * z
  <2>1. n \in Int /\ w \in Int /\ 1 \in Int /\ expire \in Int
    BY <1>1, <1>2, <1>4, <1>5, <1>7
  <2>2. expire + FSize * 1 = n + FSize * w
    <3>1. U * z = FSize * w
      BY <1>1, <1>5, <1>7
    <3>2. QED
      BY <1>1, <1>2, <1>4, <1>7, <3>1
  <2> HIDE DEF n, w
  <2>3. (expire + FSize * 1) % FSize = expire % FSize
    BY <1>1, <2>1, AddTurns
  <2>4. (n + FSize * w) % FSize = n % FSize
    BY <1>1, <2>1, AddTurns
  <2>5. QED
    BY <2>2, <2>3, <2>4 DEF n
<1>10. CASE d = 1
  <2>1. expire % FSize = now % FSize
    BY <1>4, <1>9, <1>10
  <2>2. DueNow(now, slot)
    BY <1>2, <2>1, SlotParts DEF DueNow, FirstIndex
  <2>3. (U * z + now) % U = now
    BY <1>1, <1>4, <1>7, DivModIs
  <2>4. expire + FSize = U * z + now
    BY <1>1, <1>4, <1>7, <1>10
  <2>5. now = Wrap(expire + FSize)
    BY <2>3, <2>4 DEF Wrap, U
  <2>6. QED
    BY <1>6, <2>2, <2>5 DEF now
<1>11. CASE d # 1
  <2>1. Late(now, slot, expire)
    BY <1>1, <1>2, <1>8, <1>11 DEF Late
  <2>2. ASSUME DueNow(now, slot) PROVE FALSE
    <3> DEFINE n == now + (d - 1)
    <3>1. expire % FSize = now % FSize
      BY <1>2, <2>2 DEF DueNow, FirstIndex
    <3>2. n \in Int /\ now \in Int /\ n - now < FSize /\ now - n < FSize
          /\ n # now
      BY <1>1, <1>2, <1>4, <1>11
    <3>3. n % FSize = now % FSize
      BY <1>9, <3>1
    <3> HIDE DEF n
    <3>4. QED
      BY <1>1, <3>2, <3>3, NearAndSameRest
  <2>3. QED
    BY <1>6, <2>1, <2>2 DEF now
<1>12. QED
  BY <1>10, <1>11

-------------------------------------------------------------------------------
(* Placement.                                                              *)

\* Where an armed timer that was never paused stands.
Stands(t) ==
  Armed(t) /\ NeverPaused(t) =>
    \/ InTime(tick, node[t].links, node[t].expire)
    \/ Short(t) /\ Late(tick, node[t].links, node[t].expire)

LEMMA StandsIsPlacement ==
  TypeOK => (PlacementInv <=> \A t \in Timers : Stands(t))
<1> SUFFICES ASSUME TypeOK PROVE PlacementInv <=> \A t \in Timers : Stands(t)
  OBVIOUS
<1> SUFFICES ASSUME NEW t \in Timers, Armed(t), NeverPaused(t)
             PROVE  LET level  == node[t].links[1]
                        index  == node[t].links[2]
                        expire == node[t].expire
                    IN  (/\ level = 0 =>
                              /\ index = FirstIndex(expire)
                              /\ \/ expire - tick \in 1 .. FSize - 1
                                 \/ /\ Short(t)
                                    /\ Wrap(expire + FSize - tick) \in 1 .. FSize
                         /\ level > 0 => /\ index = NthIndex(expire, level - 1)
                                         /\ expire - (expire % Turn[level]) > tick)
                        <=> (\/ InTime(tick, node[t].links, expire)
                             \/ Short(t) /\ Late(tick, node[t].links, expire))
  BY DEF PlacementInv, Stands
<1>1. node[t].links[1] = 0 \/ node[t].links[1] \in 1 .. 4
  BY SlotParts DEF Armed
<1>2. CASE node[t].links[1] = 0
  BY <1>2 DEF InTime, Late
<1>3. CASE node[t].links[1] \in 1 .. 4
  BY <1>3 DEF InTime, Late
<1>4. QED
  BY <1>1, <1>2, <1>3

\* A wheel has at least two lists.
LEMMA WheelsOfTwo == NSize \in Nat /\ NSize > 1
<1>1. PICK b \in 1 .. NSize : NSize = 2^b
  BY SizeAssumption
<1>2. ASSUME b = 1 PROVE NSize = 2
  <2>1. 2^b = 2^1
    BY <1>2
  <2>2. 2^1 = 2
    OBVIOUS
  <2>3. QED
    BY <1>1, <2>1, <2>2
<1>3. NSize # 1
  BY <1>2
<1>4. QED
  BY <1>3, SizeAssumption

LEMMA MoreThanATurn == FSize < Uint32Size /\ 1 < Uint32Size
<1> DEFINE U == Uint32Size
<1>1. PICK p \in Nat : Turn[5] = Turn[1] * (NSize * p)
  BY TurnOfTurns
<1>2. U = FSize * (NSize * p) /\ FSize \in Nat \ {0} /\ U \in Nat \ {0}
  BY <1>1, Sizes DEF Uint32Size, Turn
<1>3. NSize \in Nat /\ NSize > 1
  BY WheelsOfTwo
<1> HIDE DEF U
<1>4. p # 0
  BY <1>2, <1>3
<1>5. NSize * p >= 2 /\ NSize * p \in Nat
  BY <1>3, <1>4
<1> DEFINE m == NSize * p
<1> HIDE DEF m
<1>6. m \in Nat /\ m >= 2 /\ U = FSize * m
  BY <1>2, <1>5 DEF m
<1>7. FSize * m >= FSize * 2
  BY <1>2, <1>6
<1>8. QED
  BY <1>2, <1>6, <1>7 DEF U

\* A repeated timer that fires is armed again in time, or is short.
LEMMA ArmedAgain ==
  ASSUME TypeOK, NEW now \in Uint32, NEW t \in Timers,
         ~Expired(now, NextExpire(t, now)), ~NoHead(now, NextExpire(t, now)),
         node[t].timerType = "Repeat"
  PROVE  LET expire == NextExpire(t, now)
             slot   == HeadOf(now, expire)
         IN  InTime(now, slot, expire) \/ (Short(t) /\ Late(now, slot, expire))
<1> DEFINE expire == NextExpire(t, now)
           slot   == HeadOf(now, expire)
           U == Uint32Size
           delay == node[t].delayTime
           q == delay \div Interval
<1>1. now \in Nat /\ now < U /\ U \in Nat \ {0} /\ FSize \in Nat \ {0}
  BY TicksAreInts, Sizes
<1>2. delay \in Nat /\ delay < U /\ Interval \in Nat \ {0}
  <2>1. delay \in Delays \cup {0}
    BY DEF TypeOK, Nodes
  <2>2. \A v \in Delays : v \in Nat /\ v < U
    BY TimesAssumption, TicksAreInts
  <2>3. QED
    BY <1>1, <2>1, <2>2, IntervalAssumption
<1> HIDE DEF delay
<1>3. delay = Interval * q + (delay % Interval) /\ q \in Int
      /\ delay % Interval \in 0 .. Interval - 1
  BY <1>2, DivMod
<1> HIDE DEF q
<1>4. q \in Nat /\ q <= delay
  <2>1. ASSUME q < 0 PROVE FALSE
    <3>1. Interval * (-q) >= Interval
      BY <1>2, <1>3, <2>1
    <3>2. Interval * (-q) = -(Interval * q)
      BY <1>2, <1>3
    <3>3. QED
      BY <1>2, <1>3, <3>1, <3>2
  <2>2. q \in Nat
    BY <1>3, <2>1
  <2>3. Interval * q >= q
    BY <1>2, <2>2
  <2>4. QED
    BY <1>2, <1>3, <2>2, <2>3
<1>5. expire = (now + q) % U
  BY DEF NextExpire, Wrap, q, delay
<1> HIDE DEF expire
<1>6. expire \in Uint32 /\ expire \in Nat
  <2>1. now + q \in Int
    BY <1>1, <1>4
  <2>2. (now + q) % U \in 0 .. U - 1
    BY <1>1, <2>1, DivMod
  <2>3. QED
    BY <1>1, <1>5, <2>2, TicksAreInts
<1>7. expire >= now /\ slot # NullPtr
  BY <1>1, <1>6 DEF Expired, NoHead, expire
<1>8. InTime(now, slot, expire) \/ (expire = now /\ DueNow(now, slot))
  BY <1>6, <1>7, HeadInTime
<1>9. ASSUME expire = now, DueNow(now, slot)
      PROVE  Short(t) /\ Late(now, slot, expire)
  <2>1. q = 0
    <3> DEFINE n == now + q
    <3>1. n \in Int /\ now \in Int /\ n - now < U /\ now - n < U
      BY <1>1, <1>2, <1>4
    <3>2. now % U = now
      <4>1. (U * 0 + now) % U = now
        BY <1>1, DivModIs
      <4>2. QED
        BY <1>1, <4>1
    <3>3. n % U = now % U
      BY <1>5, <1>9, <3>2
    <3> HIDE DEF n
    <3>4. n = now
      BY <1>1, <3>1, <3>3, NearAndSameRest
    <3>5. QED
      BY <1>1, <1>4, <3>4 DEF n
  <2>2. Short(t)
    BY <1>2, <1>3, <2>1 DEF Short, delay
  <2>3. slot[1] = 0 /\ slot[2] = FirstIndex(expire)
    BY <1>9 DEF DueNow
  <2>4. Wrap(expire + FSize - now) = FSize
    <3>1. U > FSize
      BY MoreThanATurn
    <3>2. FSize \in 0 .. U - 1
      BY <1>1, <3>1
    <3>3. (U * 0 + FSize) % U = FSize
      BY <1>1, <3>2, DivModIs
    <3>4. expire + FSize - now = U * 0 + FSize
      BY <1>1, <1>9
    <3>5. QED
      BY <3>3, <3>4 DEF Wrap
  <2>5. QED
    BY <1>1, <2>2, <2>3, <2>4 DEF Late
<1>10. QED
  BY <1>8, <1>9 DEF expire

LEMMA StandsStill ==
  ASSUME NEW t \in Timers, Stands(t), node'[t] = node[t], tick' = tick
  PROVE  Stands(t)'
BY DEF Stands, Armed, NeverPaused, Short

\* The first expiry is ahead of the tick, by less than a turn of all the wheels.
LEMMA FirstIsAhead ==
  ASSUME TypeOK, NEW delay \in Delays, NEW due \in Dues
  PROVE  LET expire == Wrap(tick + FirstTicks(delay, due))
         IN  expire \in Uint32 /\ expire # tick
<1> DEFINE U == Uint32Size
           sum == Wrap(delay + due)
           ticks == sum \div Interval
           first == FirstTicks(delay, due)
           n == tick + first
<1>1. /\ U \in Nat \ {0} /\ 1 < U /\ tick \in Nat /\ tick < U
      /\ Interval \in Nat \ {0} /\ delay \in Nat /\ due \in Nat
  <2>1. delay \in Nat /\ due \in Nat
    BY TimesAssumption, TicksAreInts
  <2>2. tick \in Nat /\ tick < U /\ U \in Nat \ {0}
    BY TicksAreInts DEF TypeOK
  <2>3. 1 < U
    BY MoreThanATurn
  <2>4. QED
    BY <2>1, <2>2, <2>3, IntervalAssumption
<1>2. sum \in 0 .. U - 1
  <2>1. delay + due \in Int
    BY <1>1
  <2>2. QED
    BY <1>1, <2>1, DivMod DEF Wrap
<1> HIDE DEF sum
<1>3. ticks \in Int /\ ticks <= U - 1
  <2>1. sum = Interval * ticks + (sum % Interval) /\ ticks \in Int
        /\ sum % Interval \in 0 .. Interval - 1
    BY <1>1, <1>2, DivMod
  <2> HIDE DEF ticks
  <2>2. ASSUME ticks > 0 PROVE Interval * ticks >= ticks
    BY <1>1, <2>1, <2>2
  <2>3. QED
    BY <1>1, <1>2, <2>1, <2>2
<1>4. first = IF ticks > 0 THEN ticks ELSE 1
  BY DEF FirstTicks, sum
<1> HIDE DEF ticks, first
<1>5. first \in 1 .. U - 1
  BY <1>1, <1>3, <1>4
<1>6. n % U \in 0 .. U - 1
  BY <1>1, <1>5, DivMod
<1>7. n % U # tick
  <2>1. tick % U = tick
    <3>1. (U * 0 + tick) % U = tick
      BY <1>1, DivModIs
    <3>2. QED
      BY <1>1, <3>1
  <2>2. n \in Int /\ tick \in Int /\ n - tick < U /\ tick - n < U /\ n # tick
    BY <1>1, <1>5
  <2> HIDE DEF n
  <2>3. QED
    BY <1>1, <2>1, <2>2, NearAndSameRest
<1>8. QED
  BY <1>1, <1>6, <1>7, TicksAreInts DEF Wrap, first

\* What a tick finds and leaves of a timer that was never paused.
LEMMA TickFinds ==
  ASSUME TypeOK, NEW t \in Timers, Stands(t), Armed(t), NeverPaused(t), Tick,
         ~Crash
  PROVE  LET now    == Wrap(tick + 1)
             expire == node[t].expire
             links  == AfterCascade(t, now)
         IN  /\ t \notin Fired(now) /\ links \in Slots =>
                  InTime(now, links, expire)
                    \/ (Short(t) /\ Late(now, links, expire))
             /\ t \in Fired(now) =>
                  now = expire \/ (Short(t) /\ now = Wrap(expire + FSize))
<1> DEFINE now    == Wrap(tick + 1)
           expire == node[t].expire
           old    == node[t].links
           links  == AfterCascade(t, now)
<1>1. tick \in Uint32 /\ expire \in Uint32 /\ old \in Slots
  BY DEF TypeOK, Nodes, Armed
<1>2. now \in Uint32
  BY <1>1, WrapFits, TicksAreInts
<1>3. t \in Fired(now) <=> DueNow(now, links)
  BY DEF Fired, DueNow
<1>4. CASE old \in Cascaded(now)
  <2>1. ~Late(tick, old, expire)
    BY <1>2, <1>4, CascadedAbove, TicksAreInts DEF Late
  <2>2. InTime(tick, old, expire)
    BY <2>1 DEF Stands
  <2>3. expire >= now
    BY <1>1, <2>2, InTimeTick
  <2>4. ~NoHead(now, expire)
    BY <1>4 DEF Tick
  <2>5. ~Expired(now, expire)
    BY <1>1, <1>2, <2>3, TicksAreInts DEF Expired
  <2>6. links = HeadOf(now, expire) /\ HeadOf(now, expire) # NullPtr
    BY <1>4, <2>4, <2>5 DEF AfterCascade, Placed, NoHead
  <2>7. /\ InTime(now, links, expire) \/ (expire = now /\ DueNow(now, links))
        /\ DueNow(now, links) => expire = now
    BY <1>1, <1>2, <2>3, <2>6, HeadInTime
  <2>8. QED
    BY <1>3, <2>7
<1>5. CASE old \notin Cascaded(now)
  <2>1. links = old
    BY <1>5 DEF AfterCascade
  <2>2. CASE InTime(tick, old, expire)
    <3>1. /\ ~DueNow(now, old) => InTime(now, old, expire)
          /\ DueNow(now, old) => expire = now
      BY <1>1, <1>5, <2>2, InTimeTick
    <3>2. QED
      BY <1>3, <2>1, <3>1
  <2>3. CASE Short(t) /\ Late(tick, old, expire)
    <3>1. /\ ~DueNow(now, old) => Late(now, old, expire)
          /\ DueNow(now, old) => now = Wrap(expire + FSize)
      BY <1>1, <2>3, LateTick
    <3>2. QED
      BY <1>3, <2>1, <2>3, <3>1
  <2>4. QED
    BY <2>2, <2>3 DEF Stands
<1>6. QED
  BY <1>4, <1>5

LEMMA TickPlaces ==
  ASSUME TypeOK, NEW t \in Timers, Stands(t), Tick, ~Crash
  PROVE  Stands(t)'
<1> DEFINE now == Wrap(tick + 1)
           n   == node[t]
<1>1. /\ tick' = now /\ node'[t] = AfterTick(t, now, Fired(now)) /\ n \in Nodes
      /\ \A u \in Fired(now) : node[u].timerType = "Repeat"
                                 => ~NoHead(now, NextExpire(u, now))
  BY DEF Tick, TypeOK
<1>2. now \in Uint32
  BY WrapFits, TicksAreInts DEF TypeOK
<1>3. SUFFICES ASSUME Armed(t)', NeverPaused(t)'
               PROVE  \/ InTime(now, node'[t].links, node'[t].expire)
                      \/ Short(t)' /\ Late(now, node'[t].links, node'[t].expire)
  BY <1>1 DEF Stands
<1>4. /\ node'[t].timerStat = n.timerStat /\ node'[t].lastHead = n.lastHead
      /\ node'[t].timerType = n.timerType /\ node'[t].delayTime = n.delayTime
  BY <1>1 DEF AfterTick, Nodes
<1>5. NeverPaused(t) /\ (Short(t)' <=> Short(t)) /\ node'[t].links \in Slots
  BY <1>3, <1>4 DEF NeverPaused, Short, Armed
<1>6. CASE t \notin Fired(now)
  <2>1. node'[t].links = AfterCascade(t, now) /\ node'[t].expire = n.expire
    BY <1>1, <1>6 DEF AfterTick, Nodes
  <2>2. Armed(t)
    BY <1>2, <1>5, <2>1, CascadedAbove, TicksAreInts DEF Armed, AfterCascade
  <2>3. QED
    BY <1>5, <1>6, <2>1, <2>2, TickFinds
<1>7. CASE t \in Fired(now)
  <2>1. n.timerType = "Repeat"
    BY <1>1, <1>5, <1>7, LinksAssumption DEF AfterTick, Nodes, Types
  <2>2. /\ node'[t].links = Placed(now, NextExpire(t, now), Itself)
        /\ node'[t].expire = NextExpire(t, now)
    BY <1>1, <1>7, <2>1 DEF AfterTick, Nodes
  <2>3. ~Expired(now, NextExpire(t, now)) /\ ~NoHead(now, NextExpire(t, now))
    BY <1>1, <1>5, <1>7, <2>1, <2>2, LinksAssumption DEF Placed
  <2>4. node'[t].links = HeadOf(now, NextExpire(t, now))
    BY <2>2, <2>3 DEF Placed
  <2>5. QED
    BY <1>2, <1>5, <2>1, <2>2, <2>3, <2>4, ArmedAgain
<1>8. QED
  BY <1>6, <1>7

LEMMA AddPlaces ==
  ASSUME TypeOK, NEW t \in Timers, NEW type \in Types, NEW delay \in Delays,
         NEW due \in Dues, AddTimer(t, type, delay, due), ~Crash
  PROVE  Stands(t)'
<1> DEFINE expire == Wrap(tick + FirstTicks(delay, due))
           slot   == HeadOf(tick, expire)
<1>1. /\ tick' = tick /\ ~NoHead(tick, expire)
      /\ node'[t].links = Placed(tick, expire, NullPtr)
      /\ node'[t].expire = expire
  BY DEF AddTimer, Quiet, TypeOK
<1>2. tick \in Uint32 /\ expire \in Uint32 /\ expire # tick
  BY FirstIsAhead DEF TypeOK
<1> HIDE DEF expire
<1>3. SUFFICES ASSUME Armed(t)'
               PROVE  InTime(tick, node'[t].links, expire)
  BY <1>1 DEF Stands
<1>4. ~Expired(tick, expire)
  BY <1>1, <1>3, LinksAssumption DEF Armed, Placed
<1>5. node'[t].links = slot /\ slot # NullPtr
  BY <1>1, <1>4 DEF Placed, NoHead
<1>6. expire >= tick
  BY <1>2, <1>4, TicksAreInts DEF Expired
<1>7. QED
  BY <1>2, <1>5, <1>6, HeadInTime

LEMMA PlacementStep == TypeOK /\ PlacementInv /\ [Next]_vars => PlacementInv'
<1> SUFFICES ASSUME TypeOK, PlacementInv, [Next]_vars
             PROVE  PlacementInv'
  OBVIOUS
<1>1. \A t \in Timers : Stands(t)
  BY StandsIsPlacement
<1>2. TypeOK'
  BY TypeStep
<1>3. SUFFICES ASSUME NEW t \in Timers PROVE Stands(t)'
  <2>1. (TypeOK => (PlacementInv <=> \A t \in Timers : Stands(t)))'
    BY StandsIsPlacement, PTL
  <2>2. QED
    BY <1>2, <1>3, <2>1
<1>4. CASE UNCHANGED <<node, tick>>
  BY <1>1, <1>4, StandsStill
<1>5. ASSUME NEW u \in Timers, NEW type \in Types, NEW delay \in Delays,
             NEW due \in Dues, AddTimer(u, type, delay, due), ~Crash
      PROVE  Stands(t)'
  <2>1. CASE t = u
    BY <1>5, <2>1, AddPlaces
  <2>2. CASE t # u
    BY <1>1, <1>5, <2>2, StandsStill DEF AddTimer, Quiet, TypeOK
  <2>3. QED
    BY <2>1, <2>2
<1>6. ASSUME NEW u \in Timers, PauseTimer(u), ~Crash PROVE Stands(t)'
  <2>1. CASE t = u
    <3>1. node'[t].timerStat = "Pauseing"
      BY <1>6, <2>1 DEF PauseTimer, TypeOK, Nodes
    <3>2. QED
      BY <3>1 DEF Stands, NeverPaused
  <2>2. CASE t # u
    BY <1>1, <1>6, <2>2, StandsStill DEF PauseTimer, Quiet, TypeOK
  <2>3. QED
    BY <2>1, <2>2
<1>7. ASSUME NEW u \in Timers, ReStartTimer(u), ~Crash PROVE Stands(t)'
  <2>1. CASE t = u
    <3>1. node'[t].lastHead # NullPtr
      BY <1>7, <2>1 DEF ReStartTimer, TypeOK, Nodes
    <3>2. QED
      BY <3>1 DEF Stands, NeverPaused
  <2>2. CASE t # u
    BY <1>1, <1>7, <2>2, StandsStill DEF ReStartTimer, Quiet, TypeOK
  <2>3. QED
    BY <2>1, <2>2
<1>8. ASSUME NEW u \in Timers, DelTimer(u), ~Crash PROVE Stands(t)'
  <2>1. CASE t = u
    <3>1. node'[t].links = Itself
      BY <1>8, <2>1 DEF DelTimer, TypeOK, NoNode
    <3>2. QED
      BY <3>1, LinksAssumption DEF Stands, Armed
  <2>2. CASE t # u
    BY <1>1, <1>8, <2>2, StandsStill DEF DelTimer, Quiet, TypeOK
  <2>3. QED
    BY <2>1, <2>2
<1>9. CASE Tick /\ ~Crash
  BY <1>1, <1>9, TickPlaces
<1>10. QED
  BY <1>4, <1>5, <1>6, <1>7, <1>8, <1>9
  DEF Next, TickThread, AnyAddTimer, Crash, BeginUpdate, vars

LEMMA PlacementInit == Init => PlacementInv
BY LinksAssumption DEF Init, PlacementInv, Armed, NoNode

\* An armed timer that was never paused is in the list that will reach it in
\* time, through every wheel, every cascade and the wrap of the tick, for every
\* size of the wheels and every delay (TimerWheel.cpp:108-137, 195-255).
THEOREM AlwaysPlaced == Spec => []PlacementInv
BY TypeInit, PlacementInit, TypeStep, PlacementStep, PTL DEF Spec

\* A timer that was never paused fires at the tick it was armed for, not before
\* and not after; a short one a turn of the first wheel late
\* (TimerWheel.cpp:214-255).
THEOREM FiresAtItsTick == Spec => FiresOnTime
<1> DEFINE Fires == \A t \in posted' : NeverPaused(t) =>
                      \/ tick' = node[t].expire
                      \/ Short(t) /\ tick' = Wrap(node[t].expire + FSize)
<1>1. ASSUME TypeOK, PlacementInv, [Next]_vars PROVE [Fires]_vars
  <2>1. \A t \in Timers : Stands(t)
    BY <1>1, StandsIsPlacement
  <2>2. CASE posted' = {} \/ UNCHANGED vars
    BY <2>2
  <2>3. ASSUME Tick, ~Crash, NEW t \in posted', NeverPaused(t)
        PROVE  \/ tick' = node[t].expire
               \/ Short(t) /\ tick' = Wrap(node[t].expire + FSize)
    <3> DEFINE now == Wrap(tick + 1)
    <3>1. tick' = now /\ t \in Fired(now) /\ t \in Timers
      BY <2>3 DEF Tick, Fired
    <3>2. now \in Nat
      <4>1. tick + 1 \in Nat
        BY <1>1, TicksAreInts DEF TypeOK
      <4>2. QED
        BY <4>1, WrapFits, TicksAreInts
    <3>3. Armed(t)
      <4>1. <<0, FirstIndex(now)>> \in Slots
        BY <3>2, IndexInWheel, SlotForms DEF OtherWheel
      <4>2. QED
        BY <3>1, <3>2, <4>1, CascadedAbove DEF Fired, AfterCascade, Armed
    <3>4. QED
      BY <1>1, <2>1, <2>3, <3>1, <3>3, TickFinds
  <2>4. (posted' = {} \/ UNCHANGED vars) \/ (Tick /\ ~Crash)
    BY <1>1 DEF Next, TickThread, AnyAddTimer, AddTimer, PauseTimer,
                ReStartTimer, DelTimer, BeginUpdate, Quiet, Crash
  <2>5. QED
    BY <2>2, <2>3, <2>4
<1>2. QED
  BY TypeInit, PlacementInit, TypeStep, PlacementStep, <1>1, PTL
  DEF Spec, FiresOnTime

-------------------------------------------------------------------------------
(* The operations of CycleLinkList.h on a memory that represents lists.    *)

\* A cell is in one of the rings, as a member or as the head.
InRing(heads, lists, c) ==
  \E h \in heads : \E i \in 0 .. Len(lists[h]) : At(h, lists[h], i) = c

\* The places of a ring.
LEMMA Places ==
  ASSUME NEW s \in Seq(Cells), NEW h \in Cells
  PROVE  /\ Len(s) \in Nat /\ DOMAIN s = 1 .. Len(s)
         /\ At(h, s, 0) = h /\ At(h, s, Len(s) + 1) = h
         /\ \A i \in 1 .. Len(s) : At(h, s, i) = s[i]
         /\ \A i \in Int : At(h, s, i) \in Cells
BY DEF At

\* What comes behind a place is again one of the places.
LEMMA NextPlace ==
  ASSUME NEW s \in Seq(Cells), NEW h \in Cells, NEW i \in 0 .. Len(s)
  PROVE  At(h, s, i + 1) = At(h, s, IF i = Len(s) THEN 0 ELSE i + 1)
BY Places

LEMMA AtAppend ==
  ASSUME NEW s \in Seq(Cells), NEW h \in Cells, NEW n \in Cells
  PROVE  /\ Append(s, n) \in Seq(Cells) /\ Len(Append(s, n)) = Len(s) + 1
         /\ \A i \in 0 .. Len(s) : At(h, Append(s, n), i) = At(h, s, i)
         /\ At(h, Append(s, n), Len(s) + 1) = n
         /\ At(h, Append(s, n), Len(s) + 2) = h
BY AppendProperties, Places DEF At

\* A ring told without its types.
LEMMA RingOf ==
  ASSUME NEW m, NEW heads, NEW lists, Represents(m, heads, lists),
         NEW h \in heads
  PROVE  /\ lists[h] \in Seq(Cells) /\ h \in Cells
         /\ m.next[h] = At(h, lists[h], 1)
         /\ m.prev[h] = At(h, lists[h], Len(lists[h]))
         /\ InRing(heads, lists, h)
<1>1. lists[h] \in Seq(Cells) /\ h \in Cells /\ Ring(m, h, lists[h])
  BY DEF Represents
<1>2. 0 \in 0 .. Len(lists[h]) /\ Len(lists[h]) \in 0 .. Len(lists[h])
  BY <1>1
<1>3. QED
  BY <1>1, <1>2, Places DEF Ring, InRing

\* The test of the loops and of TimerWheel_del tells an empty list
\* (CycleLinkList.h:45-48).
THEOREM EmptyIffNone ==
  ASSUME NEW m, NEW heads, NEW lists, Represents(m, heads, lists),
         NEW h \in heads
  PROVE  Linklist_is_empty(m, h) <=> lists[h] = <<>>
<1>1. lists[h] \in Seq(Cells) /\ h \in Cells /\ m.next[h] = At(h, lists[h], 1)
  BY RingOf
<1>2. CASE lists[h] = <<>>
  <2>1. Len(lists[h]) = 0
    BY <1>2
  <2>2. At(h, lists[h], 1) = h
    BY <1>1, <2>1, Places
  <2>3. QED
    BY <1>1, <1>2, <2>2 DEF Linklist_is_empty
<1>3. CASE lists[h] # <<>>
  <2>1. 1 \in 0 .. Len(lists[h]) /\ 0 \in 0 .. Len(lists[h])
    BY <1>1, <1>3
  <2>2. At(h, lists[h], 1) # At(h, lists[h], 0)
    BY <2>1 DEF Represents
  <2>3. QED
    BY <1>1, <1>3, <2>2, Places DEF Linklist_is_empty
<1>4. QED
  BY <1>2, <1>3

\* Linklist_add_back makes a node that is in no list the last of one, and leaves
\* every other list as it is (CycleLinkList.h:37-43; _TimerWheel_add and
\* ReStartTimer).
THEOREM AddBackAppends ==
  ASSUME NEW m, NEW heads, NEW lists, Represents(m, heads, lists),
         NEW head \in heads, NEW cell \in Cells, ~InRing(heads, lists, cell)
  PROVE  Represents(Linklist_add_back(m, head, cell), heads,
                    [lists EXCEPT ![head] = Append(@, cell)])
<1> DEFINE s    == lists[head]
           last == At(head, s, Len(s))
           r    == Linklist_add_back(m, head, cell)
           more == [lists EXCEPT ![head] = Append(@, cell)]
<1>1. /\ m \in Memory /\ heads \subseteq Cells
      /\ lists \in [heads -> Seq(Cells)]
      /\ head \in Cells /\ s \in Seq(Cells) /\ m.prev[head] = last
      /\ last \in Cells /\ Len(s) \in Nat
  <2>1. /\ m \in Memory /\ heads \subseteq Cells
        /\ lists \in [heads -> Seq(Cells)]
    BY DEF Represents
  <2>2. head \in Cells /\ s \in Seq(Cells) /\ m.prev[head] = last
    BY RingOf
  <2>3. last \in Cells
    BY <2>1, <2>2 DEF Memory
  <2>4. QED
    BY <2>1, <2>2, <2>3
<1>2. last # cell /\ head # cell
  <2>1. InRing(heads, lists, last)
    BY <1>1 DEF InRing
  <2>2. InRing(heads, lists, head)
    BY RingOf
  <2>3. QED
    BY <2>1, <2>2
<1>3. /\ r \in Memory
      /\ \A c \in Cells :
           /\ r.prev[c] = IF c = head THEN cell ELSE IF c = cell THEN last
                          ELSE m.prev[c]
           /\ r.next[c] = IF c = last THEN cell ELSE IF c = cell THEN head
                          ELSE m.next[c]
  BY <1>1, <1>2 DEF Linklist_add_back, Memory
<1>4. more \in [heads -> Seq(Cells)] /\ more[head] = Append(s, cell)
      /\ \A g \in heads \ {head} : more[g] = lists[g]
  BY <1>1, AtAppend
<1>5. ASSUME NEW g \in heads, g # head PROVE Ring(r, g, more[g])
  <2> DEFINE t == lists[g]
  <2>1. t \in Seq(Cells) /\ g \in Cells
    BY <1>1
  <2>2. SUFFICES ASSUME NEW i \in 0 .. Len(t)
                 PROVE  /\ r.next[At(g, t, i)] = At(g, t, i + 1)
                        /\ r.prev[At(g, t, i + 1)] = At(g, t, i)
    BY <1>4, <1>5 DEF Ring
  <2>3. At(g, t, i) # last /\ At(g, t, i) # cell /\ At(g, t, i) \in Cells
    BY <1>1, <1>5, <2>1, Places DEF Represents, InRing
  <2>4. At(g, t, i + 1) # head /\ At(g, t, i + 1) # cell
        /\ At(g, t, i + 1) \in Cells
    <3> DEFINE j == IF i = Len(t) THEN 0 ELSE i + 1
    <3>1. j \in 0 .. Len(t) /\ At(g, t, i + 1) = At(g, t, j)
      BY <2>1, NextPlace
    <3>2. At(head, s, 0) = head /\ 0 \in 0 .. Len(s)
      BY <1>1, Places
    <3>3. At(g, t, j) # cell
      BY <3>1 DEF InRing
    <3>4. At(g, t, j) # At(head, s, 0)
      BY <1>5, <3>1, <3>2 DEF Represents
    <3>5. At(g, t, j) \in Cells
      BY <1>1, <2>1, <3>1, Places
    <3>6. QED
      BY <3>1, <3>2, <3>3, <3>4, <3>5
  <2>5. QED
    BY <1>3, <2>3, <2>4 DEF Represents, Ring
<1>6. Ring(r, head, more[head])
  <2>1. SUFFICES ASSUME NEW i \in 0 .. Len(s) + 1
                 PROVE  LET at(k) == At(head, Append(s, cell), k)
                        IN  r.next[at(i)] = at(i + 1)
                              /\ r.prev[at(i + 1)] = at(i)
    BY <1>1, <1>4, AtAppend DEF Ring
  <2>2. CASE i = Len(s)
    BY <1>1, <1>2, <1>3, <2>2, AtAppend
  <2>3. CASE i = Len(s) + 1
    BY <1>1, <1>2, <1>3, <2>3, AtAppend
  <2>4. CASE i < Len(s)
    <3>1. /\ i \in 0 .. Len(s) /\ i + 1 \in 0 .. Len(s)
          /\ Len(s) \in 0 .. Len(s)
          /\ 0 \in 0 .. Len(s)
      BY <1>1, <2>4
    <3>2. At(head, s, i) # last /\ At(head, s, i) # cell
          /\ At(head, s, i) \in Cells
      BY <1>1, <2>4, <3>1, Places DEF Represents, InRing
    <3>3. /\ At(head, s, i + 1) # head /\ At(head, s, i + 1) # cell
          /\ At(head, s, i + 1) \in Cells
      <4>1. At(head, s, 0) = head /\ i + 1 # 0
        BY <1>1, Places
      <4>2. QED
        BY <1>1, <3>1, <4>1, Places DEF Represents, InRing
    <3>4. /\ m.next[At(head, s, i)] = At(head, s, i + 1)
          /\ m.prev[At(head, s, i + 1)] = At(head, s, i)
      BY <3>1 DEF Represents, Ring
    <3>5. QED
      BY <1>1, <1>3, <3>1, <3>2, <3>3, <3>4, AtAppend
  <2>5. QED
    BY <1>1, <2>2, <2>3, <2>4
<1>7. ASSUME NEW g \in heads, NEW h \in heads,
             NEW i \in 0 .. Len(more[g]), NEW j \in 0 .. Len(more[h]),
             At(g, more[g], i) = At(h, more[h], j)
      PROVE  g = h /\ i = j
  <2> DEFINE Old(f, k) == k \in 0 .. Len(lists[f])
               /\ At(f, more[f], k) = At(f, lists[f], k)
             New(f, k) == f = head /\ k = Len(s) + 1 /\ At(f, more[f], k) = cell
  <2>1. ASSUME NEW f \in heads, NEW k \in 0 .. Len(more[f])
        PROVE  Old(f, k) \/ New(f, k)
    BY <1>1, <1>4, AtAppend
  <2>2. ASSUME NEW f \in heads, NEW k, Old(f, k) PROVE At(f, more[f], k) # cell
    BY <2>2 DEF InRing
  <2>3. CASE Old(g, i) /\ Old(h, j)
    BY <1>7, <2>3 DEF Represents
  <2>4. QED
    BY <1>7, <2>1, <2>2, <2>3
<1>8. \A g \in heads : Ring(r, g, more[g])
  BY <1>5, <1>6
<1>9. QED
  BY <1>1, <1>3, <1>4, <1>7, <1>8 DEF Represents

\* Linklist_add_front does the same, whatever its name says
\* (CycleLinkList.h:29-35).
THEOREM AddFrontIsAddBack ==
  ASSUME NEW m, NEW heads, NEW lists, Represents(m, heads, lists),
         NEW head \in heads, NEW cell \in Cells, ~InRing(heads, lists, cell)
  PROVE  Linklist_add_front(m, head, cell) = Linklist_add_back(m, head, cell)
<1> DEFINE last == m.prev[head]
<1>1. /\ m \in Memory /\ head \in Cells /\ last \in Cells
      /\ lists[head] \in Seq(Cells)
      /\ Len(lists[head]) \in 0 .. Len(lists[head])
      /\ last = At(head, lists[head], Len(lists[head]))
  <2>1. m \in Memory
    BY DEF Represents
  <2>2. /\ head \in Cells /\ lists[head] \in Seq(Cells)
        /\ last = At(head, lists[head], Len(lists[head]))
    BY RingOf
  <2>3. Len(lists[head]) \in 0 .. Len(lists[head])
    BY <2>2
  <2>4. QED
    BY <2>1, <2>2, <2>3 DEF Memory
<1>2. last # cell
  BY <1>1 DEF InRing
<1> HIDE DEF last
<1>3. [m.next EXCEPT ![last] = cell, ![cell] = head]
        = [m.next EXCEPT ![cell] = head, ![last] = cell]
  BY <1>1, <1>2 DEF Memory
<1>4. QED
  BY <1>1, <1>3 DEF Memory, Linklist_add_front, Linklist_add_back, last

\* No cell is at two places of a ring, ...
LEMMA Apart ==
  ASSUME NEW m, NEW heads, NEW lists, Represents(m, heads, lists),
         NEW g \in heads, NEW h \in heads,
         NEW i \in 0 .. Len(lists[g]), NEW j \in 0 .. Len(lists[h]),
         At(g, lists[g], i) = At(h, lists[h], j)
  PROVE  g = h /\ i = j
BY DEF Represents

\* ... nor behind two.
LEMMA ApartBehind ==
  ASSUME NEW m, NEW heads, NEW lists, Represents(m, heads, lists),
         NEW g \in heads, NEW h \in heads,
         NEW i \in 1 .. Len(lists[g]) + 1, NEW j \in 1 .. Len(lists[h]) + 1,
         At(g, lists[g], i) = At(h, lists[h], j)
  PROVE  g = h /\ i = j
<1> DEFINE ii == IF i = Len(lists[g]) + 1 THEN 0 ELSE i
           jj == IF j = Len(lists[h]) + 1 THEN 0 ELSE j
<1>1. /\ lists[g] \in Seq(Cells) /\ g \in Cells /\ Len(lists[g]) \in Nat
      /\ lists[h] \in Seq(Cells) /\ h \in Cells /\ Len(lists[h]) \in Nat
  BY DEF Represents
<1>2. ii \in 0 .. Len(lists[g]) /\ At(g, lists[g], ii) = At(g, lists[g], i)
  <2>1. CASE i = Len(lists[g]) + 1
    <3>1. At(g, lists[g], Len(lists[g]) + 1) = g /\ At(g, lists[g], 0) = g
      BY <1>1, Places
    <3>2. QED
      BY <1>1, <2>1, <3>1
  <2>2. CASE i # Len(lists[g]) + 1
    BY <1>1, <2>2
  <2>3. QED
    BY <2>1, <2>2
<1>3. jj \in 0 .. Len(lists[h]) /\ At(h, lists[h], jj) = At(h, lists[h], j)
  <2>1. CASE j = Len(lists[h]) + 1
    <3>1. At(h, lists[h], Len(lists[h]) + 1) = h /\ At(h, lists[h], 0) = h
      BY <1>1, Places
    <3>2. QED
      BY <1>1, <2>1, <3>1
  <2>2. CASE j # Len(lists[h]) + 1
    BY <1>1, <2>2
  <2>3. QED
    BY <2>1, <2>2
<1>4. g = h /\ ii = jj
  BY <1>2, <1>3, Apart
<1>5. QED
  BY <1>1, <1>4

\* A sequence without its k-th element.
Without(s, k) ==
  [i \in 1 .. Len(s) - 1 |-> IF i < k THEN s[i] ELSE s[i + 1]]

LEMMA AtWithout ==
  ASSUME NEW s \in Seq(Cells), NEW h \in Cells, NEW k \in 1 .. Len(s)
  PROVE  /\ Without(s, k) \in Seq(Cells) /\ Len(Without(s, k)) = Len(s) - 1
         /\ \A i \in 0 .. Len(s) : At(h, Without(s, k), i) =
              At(h, s, IF i < k THEN i ELSE i + 1)
<1>1. Len(s) \in Nat /\ Len(s) - 1 \in Nat
  OBVIOUS
<1>2. Without(s, k) \in [1 .. Len(s) - 1 -> Cells]
  BY <1>1 DEF Without
<1>3. Without(s, k) \in Seq(Cells) /\ Len(Without(s, k)) = Len(s) - 1
  BY <1>1, <1>2, SeqDef, LenProperties
<1>4. ASSUME NEW i \in 0 .. Len(s)
      PROVE  At(h, Without(s, k), i) = At(h, s, IF i < k THEN i ELSE i + 1)
  <2>1. CASE i = 0
    BY <1>2, <2>1, Places DEF At
  <2>2. CASE i = Len(s)
    BY <1>1, <1>2, <2>2, Places DEF At
  <2>3. CASE i # 0 /\ i # Len(s)
    BY <1>1, <2>3, Places DEF At, Without
  <2>4. QED
    BY <2>1, <2>2, <2>3
<1>5. QED
  BY <1>3, <1>4

\* Linklist_remote takes out one member, from wherever it is in its list, and
\* leaves it alone (CycleLinkList.h:50-55).
THEOREM RemoteDeletes ==
  ASSUME NEW m, NEW heads, NEW lists, Represents(m, heads, lists),
         NEW head \in heads, NEW k \in 1 .. Len(lists[head])
  PROVE  LET cell == lists[head][k]
         IN  /\ Represents(Linklist_remote(m, cell), heads,
                           [lists EXCEPT ![head] = Without(@, k)])
             /\ Alone(Linklist_remote(m, cell), cell)
<1> DEFINE s      == lists[head]
           at(i)  == At(head, s, i)
           cell   == s[k]
           before == at(k - 1)
           after  == at(k + 1)
           r      == Linklist_remote(m, cell)
           less   == [lists EXCEPT ![head] = Without(@, k)]
<1>1. /\ m \in Memory /\ heads \subseteq Cells
      /\ lists \in [heads -> Seq(Cells)]
      /\ head \in Cells /\ s \in Seq(Cells) /\ Len(s) \in Nat
      /\ k \in 0 .. Len(s) /\ k - 1 \in 0 .. Len(s) /\ 0 \in 0 .. Len(s)
  BY DEF Represents
<1>2. /\ cell = at(k) /\ m.prev[cell] = before /\ m.next[cell] = after
      /\ \A i \in Int : at(i) \in Cells
  <2>1. cell = at(k) /\ \A i \in Int : at(i) \in Cells
    BY <1>1, Places
  <2>2. Ring(m, head, s)
    BY DEF Represents
  <2>3. k - 1 + 1 = k
    BY <1>1
  <2>4. m.next[at(k)] = at(k + 1)
    BY <1>1, <2>2 DEF Ring
  <2>5. m.prev[at(k - 1 + 1)] = at(k - 1)
    BY <1>1, <2>2 DEF Ring
  <2>6. QED
    BY <2>1, <2>3, <2>4, <2>5
<1>3. before # cell /\ after # cell
  <2>1. before # at(k)
    BY <1>1, Apart
  <2>2. after # at(k)
    BY <1>1, ApartBehind
  <2>3. QED
    BY <1>2, <2>1, <2>2
<1>4. /\ cell \in Cells /\ before \in Cells /\ after \in Cells
  BY <1>1, <1>2
<1>5. /\ r \in Memory
      /\ \A c \in Cells :
           /\ r.prev[c] = IF c = cell THEN cell ELSE IF c = after THEN before
                          ELSE m.prev[c]
           /\ r.next[c] = IF c = cell THEN cell ELSE IF c = before THEN after
                          ELSE m.next[c]
  BY <1>1, <1>2, <1>3, <1>4 DEF Linklist_remote, Linklist_init, Memory
<1>6. /\ less \in [heads -> Seq(Cells)] /\ less[head] = Without(s, k)
      /\ \A g \in heads \ {head} : less[g] = lists[g]
  BY <1>1, AtWithout
<1>7. ASSUME NEW g \in heads, g # head PROVE Ring(r, g, less[g])
  <2> DEFINE t == lists[g]
  <2>1. SUFFICES ASSUME NEW i \in 0 .. Len(t)
                 PROVE  /\ r.next[At(g, t, i)] = At(g, t, i + 1)
                        /\ r.prev[At(g, t, i + 1)] = At(g, t, i)
    BY <1>6, <1>7 DEF Ring
  <2>2. t \in Seq(Cells) /\ g \in Cells /\ Len(t) \in Nat
    BY <1>1
  <2>3. At(g, t, i) \in Cells /\ At(g, t, i + 1) \in Cells
    BY <2>2, Places
  <2>4. At(g, t, i) # at(k) /\ At(g, t, i) # at(k - 1)
    BY <1>1, <1>7, Apart
  <2>5. At(g, t, i + 1) # at(k + 1) /\ At(g, t, i + 1) # at(k)
    <3>1. i + 1 \in 1 .. Len(t) + 1 /\ k \in 1 .. Len(s) + 1
          /\ k + 1 \in 1 .. Len(s) + 1
      BY <1>1, <2>2
    <3>2. QED
      BY <1>7, <3>1, ApartBehind
  <2>6. m.next[At(g, t, i)] = At(g, t, i + 1)
        /\ m.prev[At(g, t, i + 1)] = At(g, t, i)
    BY DEF Represents, Ring
  <2>7. QED
    BY <1>2, <1>5, <2>3, <2>4, <2>5, <2>6
<1>8. Ring(r, head, less[head])
  <2>1. SUFFICES ASSUME NEW i \in 0 .. Len(s) - 1
                 PROVE  LET w(j) == At(head, Without(s, k), j)
                        IN  r.next[w(i)] = w(i + 1) /\ r.prev[w(i + 1)] = w(i)
    BY <1>1, <1>6, AtWithout DEF Ring
  <2> DEFINE w(j) == At(head, Without(s, k), j)
  <2>2. w(i) = at(IF i < k THEN i ELSE i + 1)
    BY <1>1, AtWithout
  <2>3. w(i + 1) = at(IF i + 1 < k THEN i + 1 ELSE i + 2)
    <3>1. i + 1 \in 0 .. Len(s) /\ i + 1 + 1 = i + 2
      BY <1>1
    <3>2. w(i + 1) = at(IF i + 1 < k THEN i + 1 ELSE i + 1 + 1)
      BY <1>1, <3>1, AtWithout
    <3>3. QED
      BY <3>1, <3>2
  <2> HIDE DEF w
  <2>4. CASE i = k - 1
    <3>1. w(i) = before /\ w(i + 1) = after
      <4>1. i < k /\ ~(i + 1 < k) /\ i + 2 = k + 1
        BY <1>1, <2>4
      <4>2. QED
        BY <2>2, <2>3, <2>4, <4>1
    <3>2. QED
      BY <1>3, <1>4, <1>5, <3>1 DEF w
  <2>5. ASSUME NEW j \in 0 .. Len(s), j # k, j # k - 1
        PROVE  r.next[at(j)] = at(j + 1) /\ r.prev[at(j + 1)] = at(j)
    <3>1. at(j) # at(k) /\ at(j) # at(k - 1)
      BY <1>1, <2>5, Apart
    <3>2. at(j + 1) # at(k + 1) /\ at(j + 1) # at(k)
      <4>1. j + 1 \in 1 .. Len(s) + 1 /\ k \in 1 .. Len(s) + 1
            /\ k + 1 \in 1 .. Len(s) + 1 /\ j + 1 # k + 1 /\ j + 1 # k
        BY <1>1, <2>5
      <4>2. QED
        BY <4>1, ApartBehind
    <3>3. j \in Int /\ j + 1 \in Int
      BY <1>1
    <3>4. m.next[at(j)] = at(j + 1) /\ m.prev[at(j + 1)] = at(j)
      BY DEF Represents, Ring
    <3>5. QED
      BY <1>2, <1>5, <3>1, <3>2, <3>3, <3>4
  <2>6. CASE i < k - 1
    <3>1. i \in 0 .. Len(s) /\ i # k /\ i # k - 1 /\ i < k /\ i + 1 < k
      BY <1>1, <2>6
    <3>2. w(i) = at(i) /\ w(i + 1) = at(i + 1)
      BY <2>2, <2>3, <3>1
    <3>3. QED
      BY <2>5, <3>1, <3>2 DEF w
  <2>7. CASE i >= k
    <3>1. /\ i + 1 \in 0 .. Len(s) /\ i + 1 # k /\ i + 1 # k - 1 /\ ~(i < k)
          /\ ~(i + 1 < k) /\ i + 1 + 1 = i + 2
      BY <1>1, <2>7
    <3>2. w(i) = at(i + 1) /\ w(i + 1) = at(i + 2)
      BY <2>2, <2>3, <3>1
    <3>3. r.next[at(i + 1)] = at(i + 1 + 1) /\ r.prev[at(i + 1 + 1)] = at(i + 1)
      BY <2>5, <3>1
    <3>4. QED
      BY <3>1, <3>2, <3>3 DEF w
  <2>8. QED
    BY <1>1, <2>4, <2>6, <2>7 DEF w
<1>9. ASSUME NEW g \in heads, NEW h \in heads,
             NEW i \in 0 .. Len(less[g]), NEW j \in 0 .. Len(less[h]),
             At(g, less[g], i) = At(h, less[h], j)
      PROVE  g = h /\ i = j
  <2> DEFINE old(f, n) == IF f = head /\ ~(n < k) THEN n + 1 ELSE n
  <2>1. ASSUME NEW f \in heads, NEW n \in 0 .. Len(less[f])
        PROVE  old(f, n) \in 0 .. Len(lists[f])
               /\ At(f, less[f], n) = At(f, lists[f], old(f, n))
    BY <1>1, <1>6, AtWithout
  <2>2. g = h /\ old(g, i) = old(h, j)
    BY <1>9, <2>1, Apart
  <2>3. i \in Int /\ j \in Int
    OBVIOUS
  <2>4. QED
    BY <1>1, <2>2, <2>3
<1>10. \A g \in heads : Ring(r, g, less[g])
  BY <1>7, <1>8
<1>11. Alone(r, cell)
  BY <1>4, <1>5 DEF Alone
<1>12. QED
  BY <1>1, <1>5, <1>6, <1>9, <1>10, <1>11 DEF Represents

\* Linklist_splice onto an empty list, which is how the two loops use it: the
\* members move as a whole, in their order, and the first list is left empty.
THEOREM SpliceMovesAll ==
  ASSUME NEW m, NEW heads, NEW lists, Represents(m, heads, lists),
         NEW head1 \in heads, NEW head2 \in heads, head1 # head2,
         lists[head2] = <<>>
  PROVE  Represents(Linklist_splice(m, head1, head2), heads,
                    [lists EXCEPT ![head1] = <<>>, ![head2] = lists[head1]])
<1> DEFINE s     == lists[head1]
           at(i) == At(head1, s, i)
           to(i) == At(head2, s, i)
           first == at(1)
           last  == at(Len(s))
           r     == Linklist_splice(m, head1, head2)
           moved == [lists EXCEPT ![head1] = <<>>, ![head2] = s]
<1>1. /\ m \in Memory /\ heads \subseteq Cells
      /\ lists \in [heads -> Seq(Cells)]
      /\ head1 \in Cells /\ head2 \in Cells /\ s \in Seq(Cells)
      /\ Len(s) \in Nat
      /\ lists[head2] \in Seq(Cells) /\ Len(lists[head2]) = 0
      /\ 0 \in 0 .. Len(s)
      /\ at(0) = head1 /\ at(Len(s) + 1) = head1
  BY Places DEF Represents
<1>2. moved \in [heads -> Seq(Cells)] /\ moved[head1] = <<>> /\ moved[head2] = s
      /\ \A g \in heads \ {head1, head2} : moved[g] = lists[g]
  BY <1>1
<1>3. CASE s = <<>>
  <2>1. Linklist_is_empty(m, head1)
    BY <1>3, EmptyIffNone
  <2>2. r = m
    BY <2>1 DEF Linklist_splice
  <2>3. moved = lists
    BY <1>1, <1>3
  <2>4. QED
    BY <2>2, <2>3
<1>4. CASE s # <<>>
  <2>1. /\ ~Linklist_is_empty(m, head1) /\ m.next[head1] = first
        /\ m.prev[head1] = last /\ m.next[head2] = head2
    <3>1. Linklist_is_empty(m, head2) /\ ~Linklist_is_empty(m, head1)
      BY <1>4, EmptyIffNone
    <3>2. QED
      BY <3>1, RingOf DEF Linklist_is_empty
  <2>2. 1 \in 0 .. Len(s) /\ Len(s) \in 1 .. Len(s)
    BY <1>1, <1>4
  <2>3. \A i \in 1 .. Len(s) :
          at(i) = s[i] /\ to(i) = s[i] /\ at(i) \in Cells
          /\ at(i) # head1 /\ at(i) # head2
    <3>1. SUFFICES ASSUME NEW i \in 1 .. Len(s)
                   PROVE  at(i) = s[i] /\ to(i) = s[i] /\ at(i) \in Cells
                          /\ at(i) # head1 /\ at(i) # head2
      OBVIOUS
    <3>2. at(i) = s[i] /\ to(i) = s[i] /\ at(i) \in Cells
      <4>1. i \in DOMAIN s /\ s[i] \in Cells
        BY <1>1
      <4>2. QED
        BY <4>1 DEF At
    <3>3. at(i) # at(0)
      <4>1. i \in 0 .. Len(s) /\ i # 0
        BY <1>1
      <4>2. QED
        BY <1>1, <4>1, Apart
    <3>4. at(i) # At(head2, lists[head2], 0)
      <4>1. i \in 0 .. Len(s) /\ 0 \in 0 .. Len(lists[head2])
        BY <1>1
      <4>2. QED
        BY <4>1, Apart
    <3>5. At(head2, lists[head2], 0) = head2
      BY <1>1, Places
    <3>6. QED
      BY <1>1, <3>2, <3>3, <3>4, <3>5
  <2>4. first \in Cells /\ last \in Cells /\ first # head1 /\ last # head1
        /\ first # head2 /\ last # head2
    BY <1>1, <2>2, <2>3
  <2>5. /\ r \in Memory
        /\ \A c \in Cells :
             /\ r.prev[c] = IF c = head1 THEN head1 ELSE IF c = head2 THEN last
                            ELSE IF c = first THEN head2 ELSE m.prev[c]
             /\ r.next[c] = IF c = head1 THEN head1 ELSE IF c = head2 THEN first
                            ELSE IF c = last THEN head2 ELSE m.next[c]
    <3>1. r = Linklist_init(
                [m EXCEPT !.prev[first] = head2, !.next[head2] = first,
                          !.next[last] = head2, !.prev[head2] = last], head1)
      BY <2>1 DEF Linklist_splice
    <3> DEFINE p == [[m.prev EXCEPT ![first] = head2] EXCEPT ![head2] = last]
               q == [[m.next EXCEPT ![head2] = first] EXCEPT ![last] = head2]
    <3>2. /\ r.prev = [p EXCEPT ![head1] = head1]
          /\ r.next = [q EXCEPT ![head1] = head1]
          /\ r = [prev |-> r.prev, next |-> r.next]
      BY <1>1, <3>1 DEF Linklist_init, Memory
    <3>3. m.prev \in [Cells -> Cells] /\ m.next \in [Cells -> Cells]
      BY <1>1 DEF Memory
    <3>4. p \in [Cells -> Cells] /\ q \in [Cells -> Cells]
      BY <1>1, <2>4, <3>3
    <3>5. r \in Memory
      <4> HIDE DEF p, q, r
      <4>1. r.prev \in [Cells -> Cells] /\ r.next \in [Cells -> Cells]
        BY <1>1, <3>2, <3>4
      <4>2. QED
        BY <3>2, <4>1 DEF Memory
    <3>6. \A c \in Cells :
            /\ p[c] = IF c = head2 THEN last ELSE IF c = first THEN head2
                      ELSE m.prev[c]
            /\ q[c] = IF c = last THEN head2 ELSE IF c = head2 THEN first
                      ELSE m.next[c]
      BY <1>1, <2>4, <3>3
    <3> HIDE DEF p, q, r
    <3>7. QED
      BY <2>4, <3>2, <3>4, <3>5, <3>6
  <2>6. ASSUME NEW g \in heads, g # head1, g # head2 PROVE Ring(r, g, moved[g])
    <3> DEFINE t == lists[g]
    <3>1. SUFFICES ASSUME NEW i \in 0 .. Len(t)
                   PROVE  /\ r.next[At(g, t, i)] = At(g, t, i + 1)
                          /\ r.prev[At(g, t, i + 1)] = At(g, t, i)
      BY <1>2, <2>6 DEF Ring
    <3>2. t \in Seq(Cells) /\ g \in Cells /\ Len(t) \in Nat
      BY <1>1
    <3>3. ASSUME NEW j \in 0 .. Len(t)
          PROVE  /\ At(g, t, j) \in Cells /\ At(g, t, j) # head1
                 /\ At(g, t, j) # head2 /\ At(g, t, j) # first
                 /\ At(g, t, j) # last
      <4>1. At(g, t, j) \in Cells
        BY <3>2, Places
      <4>2. At(head2, lists[head2], 0) = head2 /\ 0 \in 0 .. Len(lists[head2])
        BY <1>1, Places
      <4>3. At(g, t, j) # At(head2, lists[head2], 0)
        BY <2>6, <4>2, Apart
      <4>4. At(g, t, j) # at(0)
        BY <1>1, <2>6, Apart
      <4>5. Len(s) \in 0 .. Len(s)
        BY <1>1
      <4>6. At(g, t, j) # at(1) /\ At(g, t, j) # at(Len(s))
        BY <2>2, <2>6, <4>5, Apart
      <4>7. QED
        BY <1>1, <4>1, <4>2, <4>3, <4>4, <4>6
    <3>4. m.next[At(g, t, i)] = At(g, t, i + 1)
          /\ m.prev[At(g, t, i + 1)] = At(g, t, i)
      BY DEF Represents, Ring
    <3> DEFINE j == IF i = Len(t) THEN 0 ELSE i + 1
    <3>5. j \in 0 .. Len(t) /\ At(g, t, i + 1) = At(g, t, j)
      BY <3>2, NextPlace
    <3>6. r.next[At(g, t, i)] = m.next[At(g, t, i)]
      BY <2>5, <3>3
    <3>7. r.prev[At(g, t, j)] = m.prev[At(g, t, j)]
      BY <2>5, <3>3, <3>5
    <3>8. QED
      BY <3>4, <3>5, <3>6, <3>7
  <2>7. Ring(r, head1, moved[head1])
    <3>1. r.next[head1] = head1 /\ r.prev[head1] = head1
      BY <1>1, <2>5
    <3>2. Len(moved[head1]) = 0 /\ DOMAIN moved[head1] = {}
      BY <1>2
    <3>3. QED
      BY <3>1, <3>2 DEF Ring, At
  <2>8. Ring(r, head2, moved[head2])
    <3>1. SUFFICES ASSUME NEW i \in 0 .. Len(s)
                   PROVE  r.next[to(i)] = to(i + 1) /\ r.prev[to(i + 1)] = to(i)
      BY <1>2 DEF Ring
    <3>2. to(0) = head2 /\ to(Len(s) + 1) = head2
      BY <1>1, Places
    <3>3. m.next[at(i)] = at(i + 1) /\ m.prev[at(i + 1)] = at(i)
      BY DEF Represents, Ring
    <3>4. r.next[to(i)] = to(i + 1)
      <4>1. CASE i = 0
        <5>1. to(1) = first
          BY <2>2, <2>3
        <5>2. QED
          BY <1>1, <2>5, <3>2, <4>1, <5>1
      <4>2. CASE i = Len(s)
        <5>1. to(i) = last
          BY <2>2, <2>3, <4>2
        <5>2. QED
          BY <1>1, <2>4, <2>5, <3>2, <4>2, <5>1
      <4>3. CASE i # 0 /\ i # Len(s)
        <5>1. i \in 1 .. Len(s) /\ i + 1 \in 1 .. Len(s) /\ i \in 0 .. Len(s)
              /\ Len(s) \in 0 .. Len(s)
          BY <1>1, <4>3
        <5>2. at(i) # last
          BY <4>3, <5>1, Apart
        <5>3. to(i) = at(i) /\ to(i + 1) = at(i + 1)
          BY <2>3, <5>1
        <5>4. QED
          BY <2>3, <2>5, <3>3, <5>1, <5>2, <5>3
      <4>4. QED
        BY <4>1, <4>2, <4>3
    <3>5. r.prev[to(i + 1)] = to(i)
      <4>1. CASE i = 0
        <5>1. to(1) = first /\ i + 1 = 1
          BY <2>2, <2>3, <4>1
        <5>2. QED
          BY <1>1, <2>4, <2>5, <3>2, <4>1, <5>1
      <4>2. CASE i = Len(s)
        <5>1. to(i) = last
          BY <2>2, <2>3, <4>2
        <5>2. QED
          BY <1>1, <2>4, <2>5, <3>2, <4>2, <5>1
      <4>3. CASE i # 0 /\ i # Len(s)
        <5>1. i \in 1 .. Len(s) /\ i + 1 \in 1 .. Len(s)
              /\ i + 1 \in 0 .. Len(s)
              /\ i + 1 # 1
          BY <1>1, <4>3
        <5>2. at(i + 1) # first
          BY <2>2, <5>1, Apart
        <5>3. to(i) = at(i) /\ to(i + 1) = at(i + 1)
          BY <2>3, <5>1
        <5>4. QED
          BY <2>3, <2>5, <3>3, <5>1, <5>2, <5>3
      <4>4. QED
        BY <4>1, <4>2, <4>3
    <3>6. QED
      BY <3>4, <3>5
  <2>9. ASSUME NEW g \in heads, NEW h \in heads,
               NEW i \in 0 .. Len(moved[g]), NEW j \in 0 .. Len(moved[h]),
               At(g, moved[g], i) = At(h, moved[h], j)
        PROVE  g = h /\ i = j
    <3> DEFINE of(f, n) == IF f = head2 /\ n # 0 THEN head1 ELSE f
    <3>1. ASSUME NEW f \in heads, NEW n \in 0 .. Len(moved[f])
          PROVE  /\ of(f, n) \in heads /\ n \in 0 .. Len(lists[of(f, n)])
                 /\ At(f, moved[f], n) = At(of(f, n), lists[of(f, n)], n)
                 /\ f = head1 => n = 0
      <4>1. CASE f = head1
        <5>1. n = 0 /\ DOMAIN moved[f] = {}
          BY <1>2, <4>1
        <5>2. QED
          BY <1>1, <4>1, <5>1 DEF At
      <4>2. CASE f = head2
        <5>1. CASE n = 0
          BY <1>1, <1>2, <4>2, <5>1, Places
        <5>2. CASE n # 0
          <6>1. n \in 1 .. Len(s)
            BY <1>1, <1>2, <4>2, <5>2
          <6>2. QED
            BY <1>1, <1>2, <2>3, <4>2, <5>2, <6>1
        <5>3. QED
          BY <5>1, <5>2
      <4>3. CASE f # head1 /\ f # head2
        BY <1>2, <4>3
      <4>4. QED
        BY <4>1, <4>2, <4>3
    <3>2. of(g, i) = of(h, j) /\ i = j
      <4> HIDE DEF of, moved
      <4>1. At(of(g, i), lists[of(g, i)], i) = At(of(h, j), lists[of(h, j)], j)
        BY <2>9, <3>1
      <4>2. /\ of(g, i) \in heads /\ i \in 0 .. Len(lists[of(g, i)])
            /\ of(h, j) \in heads /\ j \in 0 .. Len(lists[of(h, j)])
        BY <3>1
      <4>3. QED
        BY <4>1, <4>2, Apart
    <3>3. QED
      BY <3>1, <3>2
  <2>10. \A g \in heads : Ring(r, g, moved[g])
    BY <2>6, <2>7, <2>8
  <2>11. QED
    BY <1>1, <1>2, <2>5, <2>9, <2>10 DEF Represents
<1>5. QED
  BY <1>3, <1>4

\* Every place of a ring is in it, also the one behind the last member.
LEMMA InPlace ==
  ASSUME NEW m, NEW heads, NEW lists, Represents(m, heads, lists),
         NEW h \in heads, NEW i \in 0 .. Len(lists[h]) + 1
  PROVE  InRing(heads, lists, At(h, lists[h], i))
<1>1. lists[h] \in Seq(Cells) /\ h \in Cells /\ Len(lists[h]) \in Nat
  BY DEF Represents
<1>2. CASE i = Len(lists[h]) + 1
  <2>1. At(h, lists[h], i) = At(h, lists[h], 0)
    BY <1>1, <1>2, Places
  <2>2. 0 \in 0 .. Len(lists[h])
    BY <1>1
  <2>3. QED
    BY <2>1, <2>2 DEF InRing
<1>3. CASE i # Len(lists[h]) + 1
  <2>1. i \in 0 .. Len(lists[h])
    BY <1>1, <1>3
  <2>2. QED
    BY <2>1 DEF InRing
<1>4. QED
  BY <1>2, <1>3

\* The operations touch only the cells of the rings, and the one they link.
LEMMA AddBackTouches ==
  ASSUME NEW m, NEW heads, NEW lists, Represents(m, heads, lists),
         NEW head \in heads, NEW cell \in Cells,
         NEW c \in Cells, c # cell, ~InRing(heads, lists, c)
  PROVE  LET r == Linklist_add_back(m, head, cell)
         IN  r.prev[c] = m.prev[c] /\ r.next[c] = m.next[c]
<1>1. m \in Memory /\ head \in Cells /\ m.prev[head] \in Cells
      /\ Len(lists[head]) \in 0 .. Len(lists[head]) + 1
  BY DEF Represents, Memory
<1>2. InRing(heads, lists, m.prev[head]) /\ InRing(heads, lists, head)
  BY <1>1, RingOf, InPlace
<1>3. c # head /\ c # m.prev[head]
  BY <1>2
<1>4. QED
  BY <1>1, <1>3 DEF Linklist_add_back, Memory

LEMMA RemoteTouches ==
  ASSUME NEW m, NEW heads, NEW lists, Represents(m, heads, lists),
         NEW head \in heads, NEW k \in 1 .. Len(lists[head]),
         NEW c \in Cells, ~InRing(heads, lists, c)
  PROVE  LET r == Linklist_remote(m, lists[head][k])
         IN  r.prev[c] = m.prev[c] /\ r.next[c] = m.next[c]
<1> DEFINE s    == lists[head]
           cell == s[k]
<1>1. /\ m \in Memory /\ s \in Seq(Cells) /\ head \in Cells /\ Len(s) \in Nat
      /\ k \in 0 .. Len(s) /\ k \in 0 .. Len(s) + 1 /\ k - 1 \in 0 .. Len(s)
      /\ k - 1 \in 0 .. Len(s) + 1 /\ k + 1 \in 0 .. Len(s) + 1 /\ k - 1 + 1 = k
  BY DEF Represents
<1>2. At(head, s, k) = cell /\ cell \in Cells
  BY <1>1, Places
<1>3. m.next[cell] = At(head, s, k + 1)
  BY <1>1, <1>2 DEF Represents, Ring
<1>4. m.prev[cell] = At(head, s, k - 1)
  <2>1. m.prev[At(head, s, k - 1 + 1)] = At(head, s, k - 1)
    BY <1>1 DEF Represents, Ring
  <2>2. QED
    BY <1>1, <1>2, <2>1
<1>5. c # cell /\ c # m.next[cell] /\ c # m.prev[cell]
  <2>1. InRing(heads, lists, At(head, s, k))
        /\ InRing(heads, lists, At(head, s, k + 1))
        /\ InRing(heads, lists, At(head, s, k - 1))
    BY <1>1, InPlace
  <2>2. QED
    BY <1>2, <1>3, <1>4, <2>1
<1>6. m.next[cell] \in Cells /\ m.prev[cell] \in Cells
  BY <1>1, <1>2 DEF Memory
<1>7. QED
  BY <1>1, <1>2, <1>5, <1>6 DEF Linklist_remote, Linklist_init, Memory

LEMMA SpliceTouches ==
  ASSUME NEW m, NEW heads, NEW lists, Represents(m, heads, lists),
         NEW head1 \in heads, NEW head2 \in heads,
         NEW c \in Cells, ~InRing(heads, lists, c)
  PROVE  LET r == Linklist_splice(m, head1, head2)
         IN  r.prev[c] = m.prev[c] /\ r.next[c] = m.next[c]
<1>1. /\ m \in Memory /\ head1 \in Cells /\ head2 \in Cells
      /\ 1 \in 0 .. Len(lists[head1]) + 1 /\ 1 \in 0 .. Len(lists[head2]) + 1
      /\ Len(lists[head1]) \in 0 .. Len(lists[head1]) + 1
  BY DEF Represents
<1>2. /\ m.next[head1] \in Cells /\ m.prev[head1] \in Cells
      /\ m.next[head2] \in Cells
  BY <1>1 DEF Memory
<1>3. /\ InRing(heads, lists, head1) /\ InRing(heads, lists, head2)
      /\ InRing(heads, lists, m.next[head1])
      /\ InRing(heads, lists, m.prev[head1])
      /\ InRing(heads, lists, m.next[head2])
  BY <1>1, RingOf, InPlace
<1>4. /\ c # head1 /\ c # head2 /\ c # m.next[head1] /\ c # m.prev[head1]
      /\ c # m.next[head2]
  BY <1>3
<1>5. QED
  BY <1>1, <1>2, <1>4 DEF Linklist_splice, Linklist_init, Memory

\* What is done to a cell that is in no ring breaks none.
LEMMA OutsideRings ==
  ASSUME NEW m, NEW heads, NEW lists, Represents(m, heads, lists),
         NEW r \in Memory,
         \A c \in Cells : InRing(heads, lists, c) =>
           r.prev[c] = m.prev[c] /\ r.next[c] = m.next[c]
  PROVE  Represents(r, heads, lists)
<1>1. ASSUME NEW h \in heads, NEW i \in 0 .. Len(lists[h])
      PROVE  /\ r.next[At(h, lists[h], i)] = At(h, lists[h], i + 1)
             /\ r.prev[At(h, lists[h], i + 1)] = At(h, lists[h], i)
  <2>1. /\ lists[h] \in Seq(Cells) /\ h \in Cells /\ Len(lists[h]) \in Nat
        /\ i \in 0 .. Len(lists[h]) + 1 /\ i + 1 \in 0 .. Len(lists[h]) + 1
        /\ i \in Int /\ i + 1 \in Int
    BY DEF Represents
  <2>2. InRing(heads, lists, At(h, lists[h], i))
        /\ InRing(heads, lists, At(h, lists[h], i + 1))
    BY <2>1, InPlace
  <2>3. At(h, lists[h], i) \in Cells /\ At(h, lists[h], i + 1) \in Cells
    BY <2>1, Places
  <2>4. /\ m.next[At(h, lists[h], i)] = At(h, lists[h], i + 1)
        /\ m.prev[At(h, lists[h], i + 1)] = At(h, lists[h], i)
    BY DEF Represents, Ring
  <2>5. QED
    BY <2>2, <2>3, <2>4
<1>2. \A h \in heads : Ring(r, h, lists[h])
  BY <1>1 DEF Ring
<1>3. QED
  BY <1>2 DEF Represents

\* A head that is initialized becomes an empty list.
LEMMA InitAddsHead ==
  ASSUME NEW m, NEW heads, NEW lists, Represents(m, heads, lists),
         NEW head \in Cells, ~InRing(heads, lists, head),
         NEW more \in [heads \cup {head} -> Seq(Cells)],
         more[head] = <<>>, \A h \in heads : more[h] = lists[h]
  PROVE  Represents(Linklist_init(m, head), heads \cup {head}, more)
<1> DEFINE r == Linklist_init(m, head)
<1>1. m \in Memory /\ heads \subseteq Cells /\ lists \in [heads -> Seq(Cells)]
  BY DEF Represents
<1>2. /\ r \in Memory /\ r.prev[head] = head /\ r.next[head] = head
      /\ \A c \in Cells \ {head} : r.prev[c] = m.prev[c]
           /\ r.next[c] = m.next[c]
  BY <1>1 DEF Linklist_init, Memory
<1>3. Represents(r, heads, lists)
  BY <1>2, OutsideRings
<1>4. head \notin heads
  BY RingOf
<1>5. /\ more \in [heads \cup {head} -> Seq(Cells)] /\ more[head] = <<>>
      /\ \A h \in heads : more[h] = lists[h]
  OBVIOUS
<1>6. Ring(r, head, more[head])
  <2>1. Len(more[head]) = 0 /\ DOMAIN more[head] = {}
    BY <1>5
  <2>2. QED
    BY <1>2, <2>1 DEF Ring, At
<1>7. \A h \in heads \cup {head} : Ring(r, h, more[h])
  BY <1>3, <1>5, <1>6 DEF Represents
<1>8. ASSUME NEW g \in heads \cup {head}, NEW h \in heads \cup {head},
             NEW i \in 0 .. Len(more[g]), NEW j \in 0 .. Len(more[h]),
             At(g, more[g], i) = At(h, more[h], j)
      PROVE  g = h /\ i = j
  <2> HIDE DEF r
  <2>1. ASSUME NEW f \in heads \cup {head}, NEW n \in 0 .. Len(more[f]),
               f \notin heads
        PROVE  f = head /\ n = 0 /\ At(f, more[f], n) = head
    <3>1. f = head /\ Len(more[f]) = 0 /\ DOMAIN more[f] = {}
      BY <1>5, <2>1
    <3>2. QED
      BY <3>1 DEF At
  <2>2. ASSUME NEW f \in heads, NEW n \in 0 .. Len(more[f])
        PROVE  At(f, more[f], n) # head /\ more[f] = lists[f]
    BY <1>5 DEF InRing
  <2>3. CASE g \in heads /\ h \in heads
    BY <1>3, <1>8, <2>2, <2>3, Apart
  <2>4. CASE g \notin heads
    BY <1>8, <2>1, <2>2, <2>4
  <2>5. CASE h \notin heads
    BY <1>8, <2>1, <2>2, <2>5
  <2>6. QED
    BY <2>3, <2>4, <2>5
<1>9. QED
  BY <1>1, <1>2, <1>5, <1>7, <1>8 DEF Represents

\* The lists of some of the heads.
LEMMA SomeHeads ==
  ASSUME NEW m, NEW heads, NEW lists, Represents(m, heads, lists),
         NEW some \in SUBSET heads
  PROVE  Represents(m, some, [h \in some |-> lists[h]])
BY DEF Represents

-------------------------------------------------------------------------------
(* The same, told by the links of the timers.                              *)

\* A list for every head, of the timers whose links name it; the other timers
\* as in ListsMatch.
Members(lists, links) ==
  \A h \in DOMAIN lists, t \in Timers :
    links[t] = h <=> \E i \in 1 .. Len(lists[h]) : lists[h][i] = t

Loose(m, links) ==
  \A t \in Timers :
    /\ links[t] = Itself => Alone(m, t)
    /\ links[t] = NullPtr => m.prev[t] = NullPtr /\ m.next[t] = NullPtr

Fits(m, heads, links) ==
  \E lists \in [heads -> Seq(Timers)] :
    Represents(m, heads, lists) /\ Members(lists, links) /\ Loose(m, links)

Heads == Slots \cup {LocalHead}

LEMMA CellsApart ==
  /\ Heads \subseteq Cells /\ Timers \subseteq Cells /\ NullPtr \in Cells
  /\ \A t \in Timers : t \notin Heads /\ t # NullPtr /\ t # Itself
  /\ Itself \notin Heads /\ NullPtr \notin Heads /\ Itself # NullPtr
  /\ LocalHead \notin Slots
BY CellsAssumption, LinksAssumption DEF Heads

\* A cell is in a ring if it is a head, or a timer whose links say so.
LEMMA InRingIff ==
  ASSUME NEW heads \in SUBSET Heads, NEW lists \in [heads -> Seq(Timers)],
         NEW links, Members(lists, links)
  PROVE  /\ \A t \in Timers : InRing(heads, lists, t) <=> links[t] \in heads
         /\ \A c \in Cells \ Timers : InRing(heads, lists, c) <=> c \in heads
<1>1. ASSUME NEW h \in heads, NEW i \in 0 .. Len(lists[h])
      PROVE  At(h, lists[h], i) = IF i = 0 THEN h ELSE lists[h][i]
  <2>1. lists[h] \in Seq(Timers) /\ DOMAIN lists[h] = 1 .. Len(lists[h])
    OBVIOUS
  <2>2. QED
    BY <2>1 DEF At
<1>2. \A h \in heads : \A i \in 1 .. Len(lists[h]) : lists[h][i] \in Timers
  OBVIOUS
<1>3. \A h \in heads : Len(lists[h]) \in Nat
  OBVIOUS
<1>4. ASSUME NEW t \in Timers
      PROVE  InRing(heads, lists, t) <=> links[t] \in heads
  <2>1. ASSUME InRing(heads, lists, t) PROVE links[t] \in heads
    <3>1. PICK h \in heads : \E i \in 0 .. Len(lists[h]) :
                 At(h, lists[h], i) = t
      BY <2>1 DEF InRing
    <3>2. PICK i \in 0 .. Len(lists[h]) : At(h, lists[h], i) = t
      BY <3>1
    <3>3. i # 0
      BY <1>1, <3>2, CellsApart
    <3>4. i \in 1 .. Len(lists[h]) /\ lists[h][i] = t
      BY <1>1, <1>3, <3>2, <3>3
    <3>5. QED
      BY <3>4 DEF Members
  <2>2. ASSUME links[t] \in heads PROVE InRing(heads, lists, t)
    <3>1. PICK i \in 1 .. Len(lists[links[t]]) : lists[links[t]][i] = t
      BY <2>2 DEF Members
    <3>2. i \in 0 .. Len(lists[links[t]]) /\ i # 0
      BY <1>3, <2>2
    <3>3. At(links[t], lists[links[t]], i) = t
      BY <1>1, <2>2, <3>1, <3>2
    <3>4. QED
      BY <2>2, <3>2, <3>3 DEF InRing
  <2>3. QED
    BY <2>1, <2>2
<1>5. ASSUME NEW c \in Cells \ Timers
      PROVE  InRing(heads, lists, c) <=> c \in heads
  <2>1. ASSUME InRing(heads, lists, c) PROVE c \in heads
    <3>1. PICK h \in heads : \E i \in 0 .. Len(lists[h]) :
                 At(h, lists[h], i) = c
      BY <2>1 DEF InRing
    <3>2. PICK i \in 0 .. Len(lists[h]) : At(h, lists[h], i) = c
      BY <3>1
    <3>3. CASE i = 0
      BY <1>1, <3>2, <3>3
    <3>4. CASE i # 0
      <4>1. i \in 1 .. Len(lists[h]) /\ lists[h][i] = c
        BY <1>1, <1>3, <3>2, <3>4
      <4>2. QED
        BY <1>2, <4>1
    <3>5. QED
      BY <3>3, <3>4
  <2>2. ASSUME c \in heads PROVE InRing(heads, lists, c)
    <3>1. 0 \in 0 .. Len(lists[c])
      BY <1>3, <2>2
    <3>2. At(c, lists[c], 0) = c
      BY <1>1, <2>2, <3>1
    <3>3. QED
      BY <2>2, <3>1, <3>2 DEF InRing
  <2>3. QED
    BY <2>1, <2>2
<1>6. QED
  BY <1>4, <1>5

\* Zeroed, for a timer in no list.
LEMMA FitsZeroed ==
  ASSUME NEW heads \in SUBSET Heads, NEW m,
         NEW links \in [Timers -> Links \cup {LocalHead}],
         Fits(m, heads, links), NEW t \in Timers, links[t] \notin heads
  PROVE  Fits(Zeroed(m, t), heads, [links EXCEPT ![t] = NullPtr])
<1> DEFINE r    == Zeroed(m, t)
           now  == [links EXCEPT ![t] = NullPtr]
<1>1. PICK lists \in [heads -> Seq(Timers)] :
        Represents(m, heads, lists) /\ Members(lists, links) /\ Loose(m, links)
  BY DEF Fits
<1>2. m \in Memory /\ t \in Cells /\ NullPtr \in Cells
  BY <1>1, CellsApart DEF Represents
<1>3. /\ r \in Memory /\ r.prev[t] = NullPtr /\ r.next[t] = NullPtr
      /\ \A c \in Cells \ {t} : r.prev[c] = m.prev[c] /\ r.next[c] = m.next[c]
  BY <1>2 DEF Zeroed, Memory
<1>4. ~InRing(heads, lists, t)
  BY <1>1, InRingIff
<1>5. Represents(r, heads, lists)
  BY <1>1, <1>3, <1>4, OutsideRings
<1>6. now[t] = NullPtr /\ \A u \in Timers \ {t} : now[u] = links[u]
  OBVIOUS
<1>7. Members(lists, now)
  <2>1. \A h \in heads : links[t] # h /\ now[t] # h
    BY <1>6, CellsApart
  <2>2. DOMAIN lists = heads
    OBVIOUS
  <2> HIDE DEF now
  <2>3. QED
    BY <1>1, <1>6, <2>1, <2>2 DEF Members
<1>8. Loose(r, now)
  <2> HIDE DEF r, now
  <2>1. QED
    BY <1>1, <1>3, <1>6, CellsApart DEF Loose, Alone
<1>9. QED
  BY <1>5, <1>7, <1>8 DEF Fits

\* Linklist_add_back of a timer in no list.
LEMMA FitsAddBack ==
  ASSUME NEW heads \in SUBSET Heads, NEW m,
         NEW links \in [Timers -> Links \cup {LocalHead}],
         Fits(m, heads, links), NEW head \in heads, NEW t \in Timers,
         links[t] \notin heads
  PROVE  Fits(Linklist_add_back(m, head, t), heads, [links EXCEPT ![t] = head])
<1> DEFINE r    == Linklist_add_back(m, head, t)
           now  == [links EXCEPT ![t] = head]
<1>1. PICK lists \in [heads -> Seq(Timers)] :
        Represents(m, heads, lists) /\ Members(lists, links) /\ Loose(m, links)
  BY DEF Fits
<1> DEFINE more == [lists EXCEPT ![head] = Append(@, t)]
<1>2. t \in Cells /\ ~InRing(heads, lists, t)
  BY <1>1, CellsApart, InRingIff
<1>3. Represents(r, heads, more)
  BY <1>1, <1>2, AddBackAppends
<1>4. /\ more \in [heads -> Seq(Timers)] /\ DOMAIN more = heads
      /\ Len(lists[head]) \in Nat
      /\ Len(more[head]) = Len(lists[head]) + 1
      /\ \A i \in 1 .. Len(lists[head]) : more[head][i] = lists[head][i]
      /\ more[head][Len(lists[head]) + 1] = t
      /\ \A h \in heads \ {head} : more[h] = lists[h]
  BY AppendProperties
<1>5. now[t] = head /\ \A u \in Timers \ {t} : now[u] = links[u]
  OBVIOUS
<1>6. Members(more, now)
  <2> HIDE DEF more, now
  <2>1. DOMAIN lists = heads
    OBVIOUS
  <2>2. ASSUME NEW h \in heads, NEW u \in Timers
        PROVE  now[u] = h <=> \E i \in 1 .. Len(more[h]) : more[h][i] = u
    <3>1. links[u] = h <=> \E i \in 1 .. Len(lists[h]) : lists[h][i] = u
      BY <1>1, <2>1 DEF Members
    <3>2. CASE h # head
      BY <1>4, <1>5, <3>1, <3>2
    <3>3. CASE h = head /\ u = t
      <4>1. Len(lists[head]) + 1 \in 1 .. Len(more[head])
        BY <1>4
      <4>2. QED
        BY <1>4, <1>5, <3>3, <4>1
    <3>4. CASE h = head /\ u # t
      <4>1. \A i \in 1 .. Len(more[head]) :
              i \in 1 .. Len(lists[head]) \/ i = Len(lists[head]) + 1
        BY <1>4
      <4>2. \A i \in 1 .. Len(lists[head]) : i \in 1 .. Len(more[head])
        BY <1>4
      <4>3. QED
        BY <1>4, <1>5, <3>1, <3>4, <4>1, <4>2
    <3>5. QED
      BY <3>2, <3>3, <3>4
  <2>3. QED
    BY <1>4, <2>2 DEF Members
<1>7. Loose(r, now)
  <2> HIDE DEF now
  <2>1. SUFFICES ASSUME NEW u \in Timers, now[u] \in {Itself, NullPtr}
                 PROVE  /\ now[u] = Itself => Alone(r, u)
                        /\ now[u] = NullPtr =>
                             r.prev[u] = NullPtr /\ r.next[u] = NullPtr
    BY DEF Loose
  <2>2. u # t /\ u \in Cells /\ links[u] = now[u] /\ links[u] \notin heads
    BY <1>5, <2>1, CellsApart
  <2>3. r.prev[u] = m.prev[u] /\ r.next[u] = m.next[u]
    BY <1>1, <1>2, <2>2, InRingIff, AddBackTouches
  <2>4. QED
    BY <1>1, <2>2, <2>3 DEF Loose, Alone
<1>8. QED
  BY <1>3, <1>4, <1>6, <1>7 DEF Fits

\* Linklist_remote of a timer in a list.
LEMMA FitsRemote ==
  ASSUME NEW heads \in SUBSET Heads, NEW m,
         NEW links \in [Timers -> Links \cup {LocalHead}],
         Fits(m, heads, links), NEW t \in Timers, links[t] \in heads
  PROVE  Fits(Linklist_remote(m, t), heads, [links EXCEPT ![t] = Itself])
<1> DEFINE r    == Linklist_remote(m, t)
           now  == [links EXCEPT ![t] = Itself]
           head == links[t]
<1>1. PICK lists \in [heads -> Seq(Timers)] :
        Represents(m, heads, lists) /\ Members(lists, links) /\ Loose(m, links)
  BY DEF Fits
<1>2. PICK k \in 1 .. Len(lists[head]) : lists[head][k] = t
  BY <1>1 DEF Members
<1> DEFINE s    == lists[head]
           less == [lists EXCEPT ![head] = Without(@, k)]
<1>3. Represents(r, heads, less) /\ Alone(r, t)
  <2> HIDE DEF r, less
  <2>1. /\ Represents(Linklist_remote(m, lists[head][k]), heads,
                      [lists EXCEPT ![head] = Without(@, k)])
        /\ Alone(Linklist_remote(m, lists[head][k]), lists[head][k])
    BY <1>1, <1>2, RemoteDeletes
  <2>2. QED
    BY <1>2, <2>1 DEF r, less
<1>4. s \in Seq(Timers) /\ Len(s) \in Nat
      /\ \A i \in 1 .. Len(s) : s[i] \in Timers
  OBVIOUS
<1>5. Without(s, k) \in [1 .. Len(s) - 1 -> Timers]
  BY <1>4 DEF Without
<1>6. Without(s, k) \in Seq(Timers) /\ Len(Without(s, k)) = Len(s) - 1
  <2>1. Len(s) - 1 \in Nat
    BY <1>4
  <2>2. QED
    BY <1>5, <2>1, SeqDef, LenProperties
<1>7. /\ less \in [heads -> Seq(Timers)] /\ DOMAIN less = heads
      /\ less[head] = Without(s, k)
      /\ \A h \in heads \ {head} : less[h] = lists[h]
  BY <1>6
<1>8. now[t] = Itself /\ \A u \in Timers \ {t} : now[u] = links[u]
  OBVIOUS
<1>9. \A i, j \in 1 .. Len(s) : s[i] = s[j] => i = j
  <2>1. SUFFICES ASSUME NEW i \in 1 .. Len(s), NEW j \in 1 .. Len(s),
                        s[i] = s[j]
                 PROVE  i = j
    OBVIOUS
  <2>2. i \in 0 .. Len(s) /\ j \in 0 .. Len(s) /\ DOMAIN s = 1 .. Len(s)
    BY <1>4
  <2>3. At(head, s, i) = At(head, s, j)
    BY <2>1, <2>2 DEF At
  <2>4. QED
    BY <1>1, <2>2, <2>3, Apart
<1>10. Members(less, now)
  <2> HIDE DEF less, now
  <2>1. DOMAIN lists = heads
    OBVIOUS
  <2>2. ASSUME NEW h \in heads, NEW u \in Timers
        PROVE  now[u] = h <=> \E i \in 1 .. Len(less[h]) : less[h][i] = u
    <3>1. links[u] = h <=> \E i \in 1 .. Len(lists[h]) : lists[h][i] = u
      BY <1>1, <2>1 DEF Members
    <3>2. CASE h # head
      <4>1. u # t \/ links[u] # h
        BY <3>2
      <4>2. now[u] = h <=> links[u] = h
        BY <1>8, <4>1, CellsApart
      <4>3. QED
        BY <1>7, <3>1, <3>2, <4>2
    <3>3. CASE h = head
      <4>1. \A i \in 1 .. Len(s) - 1 :
              Without(s, k)[i] = IF i < k THEN s[i] ELSE s[i + 1]
        BY DEF Without
      <4>2. ASSUME NEW i \in 1 .. Len(s) - 1
            PROVE  Without(s, k)[i] # t
                     /\ \E j \in 1 .. Len(s) : s[j] = Without(s, k)[i]
        <5>1. CASE i < k
          <6>1. i \in 1 .. Len(s) /\ i # k
            BY <1>4, <5>1
          <6>2. QED
            BY <1>2, <1>9, <4>1, <5>1, <6>1
        <5>2. CASE ~(i < k)
          <6>1. i + 1 \in 1 .. Len(s) /\ i + 1 # k
            BY <1>4, <5>2
          <6>2. QED
            BY <1>2, <1>9, <4>1, <5>2, <6>1
        <5>3. QED
          BY <5>1, <5>2
      <4>3. ASSUME NEW j \in 1 .. Len(s), j # k
            PROVE  \E i \in 1 .. Len(s) - 1 : Without(s, k)[i] = s[j]
        <5>1. CASE j < k
          <6>1. j \in 1 .. Len(s) - 1
            BY <1>4, <5>1
          <6>2. QED
            BY <4>1, <5>1, <6>1
        <5>2. CASE ~(j < k)
          <6>1. j - 1 \in 1 .. Len(s) - 1 /\ ~(j - 1 < k) /\ j - 1 + 1 = j
            BY <1>4, <4>3, <5>2
          <6>2. QED
            BY <4>1, <6>1
        <5>3. QED
          BY <5>1, <5>2
      <4>4. (\E i \in 1 .. Len(s) - 1 : Without(s, k)[i] = u)
              <=> u # t /\ \E j \in 1 .. Len(s) : s[j] = u
        BY <1>2, <4>2, <4>3
      <4>5. now[u] = h <=> u # t /\ links[u] = h
        BY <1>8, CellsApart
      <4>6. QED
        BY <1>6, <1>7, <3>1, <3>3, <4>4, <4>5
    <3>4. QED
      BY <3>2, <3>3
  <2>3. QED
    BY <1>7, <2>2 DEF Members
<1>11. Loose(r, now)
  <2> HIDE DEF now
  <2>1. SUFFICES ASSUME NEW u \in Timers, u # t, links[u] \in {Itself, NullPtr}
                 PROVE  /\ links[u] = Itself => Alone(r, u)
                        /\ links[u] = NullPtr =>
                             r.prev[u] = NullPtr /\ r.next[u] = NullPtr
    BY <1>3, <1>8, CellsApart DEF Loose
  <2>2. u \in Cells /\ links[u] \notin heads
    BY <2>1, CellsApart
  <2>3. ~InRing(heads, lists, u)
    BY <1>1, <2>2, InRingIff
  <2>4. r.prev[u] = m.prev[u] /\ r.next[u] = m.next[u]
    BY <1>1, <1>2, <2>2, <2>3, RemoteTouches
  <2>5. QED
    BY <1>1, <2>4 DEF Loose, Alone
<1>12. QED
  BY <1>3, <1>7, <1>10, <1>11 DEF Fits

\* TimerWheel_init.
LEMMA FitsInitially ==
  ASSUME NEW m,
         m = [prev |-> [c \in Cells |-> c], next |-> [c \in Cells |-> c]],
         NEW links, \A t \in Timers : links[t] = Itself
  PROVE  Fits(m, Slots, links)
<1> DEFINE lists == [h \in Slots |-> <<>>]
<1>1. /\ m \in Memory /\ Slots \subseteq Cells
      /\ \A c \in Cells : m.prev[c] = c /\ m.next[c] = c
  BY CellsApart DEF Memory, Heads
<1>2. /\ lists \in [Slots -> Seq(Timers)] /\ lists \in [Slots -> Seq(Cells)]
      /\ DOMAIN lists = Slots
      /\ \A h \in Slots : Len(lists[h]) = 0 /\ DOMAIN lists[h] = {}
  OBVIOUS
<1> HIDE DEF lists
<1>3. ASSUME NEW h \in Slots, NEW i \in 0 .. Len(lists[h])
      PROVE  i = 0 /\ At(h, lists[h], i) = h /\ At(h, lists[h], i + 1) = h
  BY <1>2 DEF At
<1>4. Represents(m, Slots, lists)
  BY <1>1, <1>2, <1>3 DEF Represents, Ring
<1>5. Members(lists, links)
  BY <1>2, CellsApart DEF Members, Heads
<1>6. Loose(m, links)
  BY <1>1, CellsApart DEF Loose, Alone
<1>7. QED
  BY <1>2, <1>4, <1>5, <1>6 DEF Fits

\* The local head of a loop.
LEMMA FitsLocalHead ==
  ASSUME NEW m, NEW links \in [Timers -> Links], Fits(m, Slots, links)
  PROVE  Fits(Linklist_init(m, LocalHead), Heads, links)
<1> DEFINE r == Linklist_init(m, LocalHead)
<1>1. PICK lists \in [Slots -> Seq(Timers)] :
        Represents(m, Slots, lists) /\ Members(lists, links) /\ Loose(m, links)
  BY DEF Fits
<1> DEFINE more ==
             [h \in Slots \cup {LocalHead} |-> IF h \in Slots THEN lists[h]
                                                     ELSE <<>>]
<1>2. Slots \in SUBSET Heads /\ LocalHead \in Cells \ Timers
      /\ LocalHead \notin Slots
      /\ Heads = Slots \cup {LocalHead}
  BY CellsApart DEF Heads
<1>3. ~InRing(Slots, lists, LocalHead)
  BY <1>1, <1>2, InRingIff
<1>4. /\ more \in [Heads -> Seq(Timers)] /\ DOMAIN more = Heads
      /\ Len(more[LocalHead]) = 0 /\ \A h \in Slots : more[h] = lists[h]
  BY <1>2
<1>5. Represents(r, Heads, more)
  <2>1. more \in [Slots \cup {LocalHead} -> Seq(Cells)]
    BY <1>1, <1>2, <1>4 DEF Represents
  <2>2. more[LocalHead] = <<>>
    BY <1>2
  <2> HIDE DEF more
  <2>3. QED
    BY <1>1, <1>2, <1>3, <1>4, <2>1, <2>2, InitAddsHead
<1>6. Members(more, links)
  <2> HIDE DEF more
  <2>1. DOMAIN lists = Slots /\ \A t \in Timers : links[t] # LocalHead
    BY <1>2, CellsApart DEF Links, Heads
  <2>2. ASSUME NEW t \in Timers
        PROVE  links[t] = LocalHead <=>
                 \E i \in 1 .. Len(more[LocalHead]) : more[LocalHead][i] = t
    BY <1>4, <2>1
  <2>3. QED
    BY <1>1, <1>2, <1>4, <2>1, <2>2 DEF Members
<1>7. Loose(r, links)
  <2>1. m \in Memory
    BY <1>1 DEF Represents
  <2>2. \A t \in Timers : r.prev[t] = m.prev[t] /\ r.next[t] = m.next[t]
    BY <2>1, CellsApart DEF Linklist_init, Memory, Heads
  <2> HIDE DEF r
  <2>3. QED
    BY <1>1, <2>2 DEF Loose, Alone
<1>8. QED
  BY <1>4, <1>5, <1>6, <1>7 DEF Fits

\* The list moves to the local head, ...
LEMMA FitsSplice ==
  ASSUME NEW m, NEW links \in [Timers -> Links], Fits(m, Heads, links),
         NEW list \in Slots
  PROVE  Fits(Linklist_splice(m, list, LocalHead), Heads,
              [t \in Timers |-> IF links[t] = list THEN LocalHead
                ELSE links[t]])
<1> DEFINE r   == Linklist_splice(m, list, LocalHead)
           now ==
             [t \in Timers |-> IF links[t] = list THEN LocalHead ELSE links[t]]
<1>1. PICK lists \in [Heads -> Seq(Timers)] :
        Represents(m, Heads, lists) /\ Members(lists, links) /\ Loose(m, links)
  BY DEF Fits
<1> DEFINE moved == [lists EXCEPT ![list] = <<>>, ![LocalHead] = lists[list]]
<1>2. /\ list \in Heads /\ LocalHead \in Heads /\ list # LocalHead
      /\ \A t \in Timers : links[t] # LocalHead
      /\ Heads \in SUBSET Heads /\ DOMAIN lists = Heads
  BY CellsApart DEF Links, Heads
<1>3. lists[LocalHead] = <<>>
  <2>1. lists[LocalHead] \in Seq(Timers)
    BY <1>2
  <2>2. ASSUME lists[LocalHead] # <<>> PROVE FALSE
    <3>1. 1 \in 1 .. Len(lists[LocalHead]) /\ lists[LocalHead][1] \in Timers
      BY <2>1, <2>2
    <3>2. links[lists[LocalHead][1]] = LocalHead
      BY <1>1, <1>2, <3>1 DEF Members
    <3>3. QED
      BY <1>2, <3>1, <3>2
  <2>3. QED
    BY <2>2
<1>4. Represents(r, Heads, moved)
  BY <1>1, <1>2, <1>3, SpliceMovesAll
<1>5. /\ moved \in [Heads -> Seq(Timers)] /\ DOMAIN moved = Heads
      /\ moved[list] = <<>> /\ moved[LocalHead] = lists[list]
      /\ \A h \in Heads \ {list, LocalHead} : moved[h] = lists[h]
  <2>1. lists[list] \in Seq(Timers) /\ <<>> \in Seq(Timers)
    BY <1>2
  <2> DEFINE s == lists[list]
  <2> HIDE DEF s
  <2>2. /\ s \in Seq(Timers)
        /\ moved = [lists EXCEPT ![list] = <<>>, ![LocalHead] = s]
    BY <2>1 DEF s
  <2> HIDE DEF moved
  <2>3. QED
    BY <1>2, <2>1, <2>2 DEF s
<1>6. Members(moved, now)
  <2> HIDE DEF moved
  <2>1. ASSUME NEW h \in Heads, NEW u \in Timers
        PROVE  now[u] = h <=> \E i \in 1 .. Len(moved[h]) : moved[h][i] = u
    <3>1. /\ links[u] = h <=> \E i \in 1 .. Len(lists[h]) : lists[h][i] = u
          /\ links[u] = list <=>
               \E i \in 1 .. Len(lists[list]) : lists[list][i] = u
      BY <1>1, <1>2 DEF Members
    <3>2. CASE h = list
      BY <1>2, <1>5, <3>2
    <3>3. CASE h = LocalHead
      BY <1>2, <1>5, <3>1, <3>3
    <3>4. CASE h # list /\ h # LocalHead
      BY <1>5, <3>1, <3>4
    <3>5. QED
      BY <3>2, <3>3, <3>4
  <2>2. QED
    BY <1>5, <2>1 DEF Members
<1>7. Loose(r, now)
  <2>1. SUFFICES ASSUME NEW u \in Timers, links[u] \in {Itself, NullPtr}
                 PROVE  /\ links[u] = Itself => Alone(r, u)
                        /\ links[u] = NullPtr =>
                             r.prev[u] = NullPtr /\ r.next[u] = NullPtr
    BY CellsApart DEF Loose, Heads
  <2>2. u \in Cells /\ links[u] \notin Heads
    BY <2>1, CellsApart
  <2>3. r.prev[u] = m.prev[u] /\ r.next[u] = m.next[u]
    BY <1>1, <1>2, <2>2, InRingIff, SpliceTouches
  <2>4. QED
    BY <1>1, <2>3 DEF Loose, Alone
<1>8. QED
  BY <1>4, <1>5, <1>6, <1>7 DEF Fits

\* ... which is left behind when it is empty.
LEMMA FitsWithoutLocal ==
  ASSUME NEW m, NEW links \in [Timers -> Links], Fits(m, Heads, links)
  PROVE  Fits(m, Slots, links)
<1>1. PICK lists \in [Heads -> Seq(Timers)] :
        Represents(m, Heads, lists) /\ Members(lists, links) /\ Loose(m, links)
  BY DEF Fits
<1> DEFINE some == [h \in Slots |-> lists[h]]
<1>2. Slots \in SUBSET Heads
  BY DEF Heads
<1>3. Represents(m, Slots, some)
  BY <1>1, <1>2, SomeHeads
<1>4. some \in [Slots -> Seq(Timers)]
  BY <1>1, <1>2
<1>5. Members(some, links)
  <2>1. DOMAIN some = Slots /\ DOMAIN lists = Heads
    BY <1>1
  <2>2. \A h \in Slots : some[h] = lists[h] /\ h \in Heads
    BY <1>2
  <2>3. QED
    BY <1>1, <2>1, <2>2 DEF Members
<1>6. QED
  BY <1>1, <1>3, <1>4, <1>5 DEF Fits

\* _TimerWheel_add of a timer that stands alone.
LEMMA FitsLinked ==
  ASSUME NEW heads \in SUBSET Heads, Slots \subseteq heads, NEW m,
         NEW links \in [Timers -> Links \cup {LocalHead}],
         Fits(m, heads, links),
         NEW t \in Timers, NEW list,
         \/ list \in Slots /\ links[t] \notin heads
         \/ list \notin Slots /\ links[t] = list
  PROVE  Fits(Linked(m, list, t), heads, [links EXCEPT ![t] = list])
<1>1. CASE list \in Slots /\ links[t] \notin heads
  BY <1>1, FitsAddBack DEF Linked
<1>2. CASE links[t] = list /\ list \notin Slots
  <2>1. [links EXCEPT ![t] = list] = links
    BY <1>2
  <2>2. QED
    BY <1>2, <2>1 DEF Linked
<1>3. QED
  BY <1>1, <1>2

-------------------------------------------------------------------------------
(* The loops over a list.  Induction over the natural numbers, for sets.   *)

\* The order of the numbers, as a relation.
Less == {p \in Nat \X Nat : p[1] < p[2]}

LEMMA LessWF == IsWellFoundedOn(Less, Nat)
BY NatLessThanWellFounded DEF Less, OpToRel

\* A set that has 0 and, with every number, the next one.
LEMMA NatInd ==
  ASSUME NEW S, 0 \in S, \A n \in Nat : n \in S => n + 1 \in S
  PROVE  Nat \subseteq S
<1> SUFFICES ASSUME Nat \ S # {} PROVE FALSE
  OBVIOUS
<1>1. PICK n \in Nat \ S : \A k \in Nat \ S : ~(<<k, n>> \in Less)
  <2> DEFINE T == Nat \ S
  <2>1. T \subseteq Nat /\ T # {}
    OBVIOUS
  <2> HIDE DEF T
  <2>2. \E x \in T : \A y \in T : ~(<<y, x>> \in Less)
    BY <2>1, LessWF, WFMin
  <2>3. QED
    BY <2>2 DEF T
<1>2. n # 0 /\ n - 1 \in Nat
  OBVIOUS
<1>3. n - 1 \in S
  <2>1. <<n - 1, n>> \in Nat \X Nat /\ n - 1 < n
    BY <1>2
  <2>2. <<n - 1, n>> \in Less
    BY <2>1 DEF Less
  <2>3. QED
    BY <1>1, <1>2, <2>2
<1>4. n - 1 + 1 \in S
  BY <1>2, <1>3
<1>5. QED
  BY <1>4, <1>2

\* The recursion of Turns is well-founded: after k turns the memory is what the
\* k-th turn makes of it.
LEMMA TurnsAre ==
  ASSUME NEW m, NEW list, NEW target
  PROVE  /\ Turns(m, list, target)[0]
              = Linklist_splice(Linklist_init(m, LocalHead), list, LocalHead)
         /\ \A k \in 1 .. Cardinality(Timers) :
              Turns(m, list, target)[k]
                = FirstMoved(Turns(m, list, target)[k - 1], target)
<1> DEFINE start ==
             Linklist_splice(Linklist_init(m, LocalHead), list, LocalHead)
           N == Cardinality(Timers)
           Is(g, n) == g = [k \in 0 .. n |-> IF k = 0 THEN start
                                             ELSE FirstMoved(g[k - 1], target)]
           some == {n \in Nat : \E g : Is(g, n)}
<1>1. N \in Nat
  BY CellsAssumption, FS_CardinalityType
<1>2. 0 \in some
  <2> DEFINE g == [k \in 0 .. 0 |-> start]
  <2>1. Is(g, 0)
    OBVIOUS
  <2>2. QED
    BY <2>1
<1>3. ASSUME NEW n \in Nat, n \in some PROVE n + 1 \in some
  <2>1. PICK g : Is(g, n)
    BY <1>3
  <2> DEFINE h ==
               [k \in 0 .. n + 1 |-> IF k = n + 1 THEN FirstMoved(g[n], target)
                                        ELSE g[k]]
  <2>2. g[0] = start /\ \A k \in 1 .. n : g[k] = FirstMoved(g[k - 1], target)
    <3> HIDE DEF start
    <3>1. QED
      BY <2>1
  <2>3. \A k \in 0 .. n + 1 : h[k] = IF k = 0 THEN start
          ELSE FirstMoved(h[k - 1], target)
    <3> HIDE DEF start
    <3>1. SUFFICES ASSUME NEW k \in 0 .. n + 1
                   PROVE  h[k] = IF k = 0 THEN start
                            ELSE FirstMoved(h[k - 1], target)
      OBVIOUS
    <3>2. CASE k = 0
      BY <2>2, <3>2
    <3>3. CASE k = n + 1
      <4>1. n \in 0 .. n + 1 /\ n # n + 1 /\ n + 1 - 1 = n /\ n + 1 # 0
        OBVIOUS
      <4>2. h[n] = g[n] /\ h[n + 1] = FirstMoved(g[n], target)
        BY <4>1
      <4>3. QED
        BY <3>3, <4>1, <4>2
    <3>4. CASE k # 0 /\ k # n + 1
      <4>1. k \in 1 .. n /\ k - 1 \in 0 .. n + 1 /\ k - 1 # n + 1
        BY <3>4
      <4>2. h[k - 1] = g[k - 1] /\ h[k] = g[k]
        BY <3>4, <4>1
      <4>3. QED
        BY <2>2, <3>4, <4>1, <4>2
    <3>5. QED
      BY <3>2, <3>3, <3>4
  <2>4. Is(h, n + 1)
    <3> HIDE DEF start
    <3>1. h = [k \in 0 .. n + 1 |-> h[k]]
      OBVIOUS
    <3> HIDE DEF h
    <3>2. QED
      BY <2>3, <3>1
  <2> HIDE DEF h, Is
  <2>5. QED
    BY <2>4
<1>4. N \in some
  <2> HIDE DEF some
  <2>1. QED
    BY <1>1, <1>2, <1>3, NatInd
<1>5. PICK g : Is(g, N)
  BY <1>4
<1>6. Is(Turns(m, list, target), N)
  BY <1>5 DEF Turns
<1> DEFINE f == Turns(m, list, target)
<1> HIDE DEF f, start, N
<1>7. f[0] = start /\ \A k \in 1 .. N : f[k] = FirstMoved(f[k - 1], target)
  BY <1>1, <1>6 DEF f
<1>8. QED
  BY <1>7 DEF f, start, N

\* One turn: some timer of the local list goes where it belongs, if any is left.
LEMMA FitsTurn ==
  ASSUME NEW m, NEW links \in [Timers -> Links \cup {LocalHead}],
         Fits(m, Heads, links), NEW target,
         \A t \in Timers : links[t] = LocalHead =>
           target[t] \in Slots \cup {Itself}
  PROVE  \/ /\ \A t \in Timers : links[t] # LocalHead
            /\ FirstMoved(m, target) = m
         \/ \E t \in Timers :
              /\ links[t] = LocalHead
              /\ Fits(FirstMoved(m, target), Heads,
                   [links EXCEPT ![t] = target[t]])
<1>1. PICK lists \in [Heads -> Seq(Timers)] :
        Represents(m, Heads, lists) /\ Members(lists, links) /\ Loose(m, links)
  BY DEF Fits
<1> DEFINE s     == lists[LocalHead]
           first == m.next[LocalHead]
<1>2. LocalHead \in Heads /\ s \in Seq(Timers) /\ Len(s) \in Nat
      /\ DOMAIN lists = Heads
      /\ Heads \in SUBSET Heads /\ Slots \subseteq Heads
  BY DEF Heads
<1>3. CASE s = <<>>
  <2>1. FirstMoved(m, target) = m
    BY <1>1, <1>2, <1>3, EmptyIffNone DEF FirstMoved
  <2>2. \A t \in Timers : links[t] # LocalHead
    <3>1. Len(s) = 0
      BY <1>3
    <3>2. QED
      BY <1>1, <1>2, <3>1 DEF Members
  <2>3. QED
    BY <2>1, <2>2
<1>4. CASE s # <<>>
  <2>1. 1 \in 1 .. Len(s) /\ DOMAIN s = 1 .. Len(s)
    BY <1>2, <1>4
  <2>2. first = s[1]
    BY <1>1, <1>2, <2>1, RingOf DEF At
  <2>3. first \in Timers /\ links[first] = LocalHead
    BY <1>1, <1>2, <2>1, <2>2 DEF Members
  <2> HIDE DEF first
  <2>4. Fits(Linklist_remote(m, first), Heads, [links EXCEPT ![first] = Itself])
    BY <1>2, <2>3, FitsRemote
  <2> DEFINE out == [links EXCEPT ![first] = Itself]
             r   == Linklist_remote(m, first)
  <2>5. /\ out \in [Timers -> Links \cup {LocalHead}] /\ out[first] = Itself
        /\ [out EXCEPT ![first] = target[first]]
             = [links EXCEPT ![first] = target[first]]
    BY <2>3 DEF Links
  <2>6. Fits(r, Heads, out)
    BY <2>4
  <2>7. ~Linklist_is_empty(m, LocalHead)
    BY <1>1, <1>2, <1>4, EmptyIffNone
  <2>8. FirstMoved(m, target) = Linked(r, target[first], first)
    BY <2>7 DEF FirstMoved, first
  <2>9. \/ target[first] \in Slots /\ out[first] \notin Heads
        \/ target[first] \notin Slots /\ out[first] = target[first]
    BY <2>3, <2>5, CellsApart
  <2> HIDE DEF out, r
  <2>10. Fits(Linked(r, target[first], first), Heads,
           [out EXCEPT ![first] = target[first]])
    BY <1>2, <2>3, <2>5, <2>6, <2>9, FitsLinked
  <2>11. QED
    BY <2>3, <2>5, <2>8, <2>10
<1>5. QED
  BY <1>3, <1>4

\* The links when a loop over a list has ended.
MovedLinks(links, list, target) ==
  [t \in Timers |-> IF links[t] = list THEN target[t] ELSE links[t]]

\* The loop ends, with each timer of its list where it belongs: the local list
\* gets shorter with every turn.
LEMMA FitsEmptied ==
  ASSUME NEW m, NEW links \in [Timers -> Links], Fits(m, Slots, links),
         NEW list \in Slots, NEW target,
         \A t \in Timers : links[t] = list => target[t] \in Slots \cup {Itself}
  PROVE  Fits(Emptied(m, list, target), Slots, MovedLinks(links, list, target))
<1> DEFINE N      == Cardinality(Timers)
           at(k)  == Turns(m, list, target)[k]
           left(l) == {t \in Timers : l[t] = LocalHead}
           end    == MovedLinks(links, list, target)
           Sofar(l, k) ==
             /\ l \in [Timers -> Links \cup {LocalHead}]
             /\ Fits(at(k), Heads, l)
             /\ \A t \in Timers : l[t] = end[t]
                  \/ (l[t] = LocalHead /\ links[t] = list)
             /\ left(l) = {} \/ Cardinality(left(l)) + k <= N
           reached == {k \in Nat : k <= N => \E l : Sofar(l, k)}
<1>1. IsFiniteSet(Timers) /\ N \in Nat
  BY CellsAssumption, FS_CardinalityType
<1>2. ASSUME NEW l PROVE IsFiniteSet(left(l)) /\ Cardinality(left(l)) \in Nat
                         /\ Cardinality(left(l)) <= N
  <2>1. left(l) \in SUBSET Timers
    OBVIOUS
  <2> HIDE DEF left
  <2>2. QED
    BY <1>1, <2>1, FS_Subset, FS_CardinalityType
<1>3. 0 \in reached
  <2> DEFINE l == [t \in Timers |-> IF links[t] = list THEN LocalHead
               ELSE links[t]]
  <2>1. Fits(at(0), Heads, l)
    BY FitsLocalHead, FitsSplice, TurnsAre
  <2>2. l \in [Timers -> Links \cup {LocalHead}]
    OBVIOUS
  <2>3. \A t \in Timers : l[t] = end[t] \/ (l[t] = LocalHead /\ links[t] = list)
    BY DEF MovedLinks
  <2>4. Cardinality(left(l)) + 0 <= N
    <3> HIDE DEF left
    <3>1. QED
      BY <1>2
  <2> HIDE DEF l, at, left, end
  <2>5. QED
    BY <2>1, <2>2, <2>3, <2>4
<1>4. ASSUME NEW k \in Nat, k \in reached PROVE k + 1 \in reached
  <2>1. SUFFICES ASSUME k + 1 <= N PROVE \E l : Sofar(l, k + 1)
    OBVIOUS
  <2>2. k <= N /\ k + 1 \in 1 .. N /\ k + 1 - 1 = k
    BY <1>1, <2>1
  <2>3. PICK l : Sofar(l, k)
    BY <1>4, <2>2
  <2>4. at(k + 1) = FirstMoved(at(k), target)
    BY <2>2, TurnsAre
  <2>5. \A t \in Timers : l[t] = LocalHead => target[t] \in Slots \cup {Itself}
    <3>1. \A t \in Timers : end[t] # LocalHead
      BY CellsApart DEF MovedLinks, Links, Heads
    <3>2. QED
      BY <2>3, <3>1
  <2> HIDE DEF at
  <2>6. CASE (\A t \in Timers : l[t] # LocalHead) /\ at(k + 1) = at(k)
    <3>1. left(l) = {}
      BY <2>6
    <3>2. Sofar(l, k + 1)
      BY <2>3, <2>6, <3>1
    <3>3. QED
      BY <3>2
  <2>7. ASSUME NEW u \in Timers, l[u] = LocalHead,
               Fits(at(k + 1), Heads, [l EXCEPT ![u] = target[u]])
        PROVE  \E ll : Sofar(ll, k + 1)
    <3> DEFINE ll == [l EXCEPT ![u] = target[u]]
    <3>1. /\ l \in [Timers -> Links \cup {LocalHead}]
          /\ \A t \in Timers : l[t] = end[t]
               \/ (l[t] = LocalHead /\ links[t] = list)
          /\ left(l) = {} \/ Cardinality(left(l)) + k <= N
      BY <2>3
    <3>2. target[u] \in Slots \cup {Itself} /\ target[u] # LocalHead
      BY <2>5, <2>7, CellsApart DEF Heads
    <3>3. /\ ll \in [Timers -> Links \cup {LocalHead}] /\ ll[u] = target[u]
          /\ \A t \in Timers \ {u} : ll[t] = l[t]
      BY <3>1, <3>2 DEF Links
    <3> HIDE DEF ll
    <3>4. end[u] = target[u]
      <4>1. end[u] # LocalHead
        BY CellsApart, <2>5, <2>7 DEF MovedLinks, Links, Heads
      <4>2. links[u] = list
        BY <2>7, <3>1, <4>1
      <4>3. QED
        BY <4>2 DEF MovedLinks
    <3> HIDE DEF end
    <3>5. \A t \in Timers : ll[t] = end[t]
            \/ (ll[t] = LocalHead /\ links[t] = list)
      BY <3>1, <3>3, <3>4
    <3>6. left(ll) = left(l) \ {u} /\ u \in left(l)
      BY <2>7, <3>2, <3>3
    <3> HIDE DEF left
    <3>7. Cardinality(left(ll)) = Cardinality(left(l)) - 1
      BY <1>2, <3>6, FS_RemoveElement
    <3>8. Cardinality(left(ll)) + (k + 1) <= N
      BY <1>1, <1>2, <3>1, <3>6, <3>7
    <3>9. Fits(at(k + 1), Heads, ll)
      BY <2>7 DEF ll
    <3>10. QED
      BY <3>3, <3>5, <3>8, <3>9
  <2>8. QED
    <3> HIDE DEF left, end
    <3>1. l \in [Timers -> Links \cup {LocalHead}] /\ Fits(at(k), Heads, l)
      BY <2>3
    <3>2. \/ /\ \A t \in Timers : l[t] # LocalHead
             /\ at(k + 1) = at(k)
          \/ \E u \in Timers :
               /\ l[u] = LocalHead
               /\ Fits(at(k + 1), Heads, [l EXCEPT ![u] = target[u]])
      BY <2>4, <2>5, <3>1, FitsTurn
    <3> HIDE DEF Sofar
    <3>3. QED
      BY <2>6, <2>7, <3>2
<1>5. N \in reached
  <2> HIDE DEF reached
  <2>1. QED
    BY <1>1, <1>3, <1>4, NatInd
<1>6. PICK l : Sofar(l, N)
  BY <1>1, <1>5
<1>7. left(l) = {}
  <2> DEFINE rest == left(l)
  <2>1. rest = {} \/ Cardinality(rest) + N <= N
    BY <1>6
  <2>2. IsFiniteSet(rest) /\ Cardinality(rest) \in Nat
    BY <1>2
  <2> HIDE DEF rest
  <2>3. rest = {}
    BY <1>1, <2>1, <2>2, FS_EmptySet
  <2>4. QED
    BY <2>3 DEF rest
<1>8. \A t \in Timers : l[t] = end[t]
  BY <1>6, <1>7
<1>9. l = end /\ end \in [Timers -> Links]
  <2>1. l \in [Timers -> Links \cup {LocalHead}] /\ end \in [Timers -> Links]
    BY <1>6 DEF MovedLinks, Links
  <2> HIDE DEF end
  <2>2. QED
    BY <1>8, <2>1
<1>10. QED
  BY <1>6, <1>9, FitsWithoutLocal DEF Emptied

-------------------------------------------------------------------------------
(* A tick, and every other step.                                           *)

\* The ring of a head, as a sequence of the timers that belong to it.
LEMMA RingOfMembers ==
  ASSUME NEW heads, NEW m, NEW links, Fits(m, heads, links),
         heads \in SUBSET Heads, NEW h \in heads
  PROVE  \E s \in SetToSeqs({t \in Timers : links[t] = h}) : Ring(m, h, s)
<1> DEFINE S == {t \in Timers : links[t] = h}
<1>1. PICK lists \in [heads -> Seq(Timers)] :
        Represents(m, heads, lists) /\ Members(lists, links) /\ Loose(m, links)
  BY DEF Fits
<1> DEFINE s == lists[h]
<1>2. s \in Seq(Timers) /\ Len(s) \in Nat /\ s \in [1 .. Len(s) -> Timers]
  BY LenProperties
<1>3. Ring(m, h, s)
  BY <1>1 DEF Represents
<1>4. \A t \in Timers : t \in S <=> \E i \in 1 .. Len(s) : s[i] = t
  BY <1>1 DEF Members
<1>5. \A i, j \in 1 .. Len(s) : i # j => s[i] # s[j]
  <2>1. SUFFICES ASSUME NEW i \in 1 .. Len(s), NEW j \in 1 .. Len(s),
                        s[i] = s[j]
                 PROVE  i = j
    OBVIOUS
  <2>2. i \in 0 .. Len(s) /\ j \in 0 .. Len(s) /\ DOMAIN s = 1 .. Len(s)
    BY <1>2
  <2>3. At(h, s, i) = At(h, s, j)
    BY <2>1, <2>2 DEF At
  <2>4. QED
    BY <1>1, <2>2, <2>3, Apart
<1> HIDE DEF s
<1>6. s \in [1 .. Len(s) -> S]
  <2>1. \A i \in 1 .. Len(s) : s[i] \in S
    BY <1>2, <1>4
  <2> HIDE DEF S
  <2>2. QED
    BY <1>2, <2>1
<1>7. S \subseteq Timers
  OBVIOUS
<1> HIDE DEF S
<1>8. Cardinality(S) = Len(s)
  <2>1. s \in Injection(1 .. Len(s), S)
    BY <1>5, <1>6 DEF Injection, IsInjective
  <2>2. s \in Surjection(1 .. Len(s), S)
    BY <1>4, <1>6, <1>7 DEF Surjection
  <2>3. ExistsBijection(1 .. Len(s), S)
    BY <2>1, <2>2 DEF ExistsBijection, Bijection
  <2>4. QED
    BY <1>2, <2>3, FS_CountingElements
<1>9. s \in SetToSeqs(S)
  BY <1>5, <1>6, <1>8 DEF SetToSeqs
<1>10. QED
  BY <1>3, <1>9 DEF S

LEMMA HoldsOfFits ==
  ASSUME NEW m, NEW links, Fits(m, Slots, links)
  PROVE  Holds(m, Slots, links)
<1>1. m \in Memory /\ Loose(m, links)
  BY DEF Fits, Represents
<1>2. \A h \in Slots : \E s \in SetToSeqs({t \in Timers : links[t] = h}) :
        Ring(m, h, s)
  BY RingOfMembers DEF Heads
<1>3. QED
  BY <1>1, <1>2 DEF Holds, Loose


\* The links of the nodes, and what they are when the k lowest of the other
\* wheels have handed their lists down.
NodeLinks == [t \in Timers |-> node[t].links]

DownTo(k, now) ==
  [t \in Timers |->
     IF node[t].links \in Cascaded(now) /\ node[t].links[1] <= k
     THEN Placed(now, node[t].expire, Itself) ELSE node[t].links]

\* No timer that a tick hands down is lost.
NoneLost(now) ==
  \A t \in Timers : node[t].links \in Cascaded(now) =>
    ~NoHead(now, node[t].expire)

\* Where a timer goes that is handed down.
LEMMA PlacedElsewhere ==
  ASSUME NEW now \in Nat, NEW expire \in Nat, ~NoHead(now, expire)
  PROVE  /\ Placed(now, expire, Itself) \in Slots \cup {Itself}
         /\ Placed(now, expire, Itself) \notin Cascaded(now)
<1>1. CASE Expired(now, expire)
  <2>1. Placed(now, expire, Itself) = Itself
    BY <1>1 DEF Placed
  <2>2. QED
    BY <2>1, CascadedAreSlots, LinksAssumption
<1>2. CASE ~Expired(now, expire)
  <2>1. /\ Placed(now, expire, Itself) = HeadOf(now, expire)
        /\ HeadOf(now, expire) # NullPtr /\ expire >= now
    BY <1>2 DEF Placed, NoHead, Expired
  <2>2. QED
    BY <2>1, HeadIsSlot, HandedDownOnce
<1>3. QED
  BY <1>1, <1>2

LEMMA FitsHandedDown ==
  ASSUME TypeOK, NEW now \in Nat, NoneLost(now), NEW k \in OtherWheel,
         NEW m, Fits(m, Slots, DownTo(k, now))
  PROVE  Fits(HandedDown(m, k, now), Slots, DownTo(k + 1, now))
<1> DEFINE list   == <<k + 1, NthIndex(now, k)>>
           old    == DownTo(k, now)
           target == [t \in Timers |-> Placed(now, node[t].expire, Itself)]
<1>1. \A t \in Timers : node[t].links \in Links /\ node[t].expire \in Nat
  BY TicksAreInts DEF TypeOK, Nodes
<1>2. \A t \in Timers : node[t].links \in Cascaded(now) =>
        target[t] \in Slots \cup {Itself} /\ target[t] \notin Cascaded(now)
  BY <1>1, PlacedElsewhere DEF NoneLost
<1>3. \A t \in Timers :
        old[t] = IF node[t].links \in Cascaded(now) /\ node[t].links[1] <= k
                 THEN target[t] ELSE node[t].links
  BY DEF DownTo
<1>4. \A t \in Timers :
        DownTo(k + 1, now)[t] =
          IF node[t].links \in Cascaded(now) /\ node[t].links[1] <= k + 1
          THEN target[t] ELSE node[t].links
  BY DEF DownTo
<1>5. \A c \in Cascaded(now) : c[1] \in Int /\ (c[1] = k + 1 => c = list)
  <2>1. SUFFICES ASSUME NEW c \in Cascaded(now)
                 PROVE  c[1] \in Int /\ (c[1] = k + 1 => c = list)
    OBVIOUS
  <2>2. PICK i \in OtherWheel : c = <<i + 1, NthIndex(now, i)>>
    BY <2>1 DEF Cascaded
  <2>3. QED
    BY <2>2 DEF OtherWheel
<1>6. k \in Int /\ list[1] = k + 1
  BY DEF OtherWheel
<1>7. DOMAIN DownTo(k + 1, now) = Timers /\ DOMAIN old = Timers
      /\ DownTo(k + 1, now) = [t \in Timers |-> DownTo(k + 1, now)[t]]
      /\ old = [t \in Timers |-> old[t]]
  BY DEF DownTo
<1> HIDE DEF old, target
<1>8. \A t \in Timers : old[t] = list /\ list \in Cascaded(now) <=>
                          node[t].links = list /\ list \in Cascaded(now)
  BY <1>2, <1>3, <1>6
<1>9. CASE list \in Cascaded(now)
  <2>1. list \in Slots
    BY <1>9, CascadedAreSlots
  <2>2. old \in [Timers -> Links]
    BY <1>1, <1>2, <1>3, <1>7 DEF Links
  <2>3. \A t \in Timers : old[t] = list => target[t] \in Slots \cup {Itself}
    BY <1>2, <1>8, <1>9
  <2>4. Fits(Emptied(m, list, target), Slots, MovedLinks(old, list, target))
    BY <2>1, <2>2, <2>3, FitsEmptied DEF old
  <2>5. HandedDown(m, k, now) = Emptied(m, list, target)
    BY <1>9 DEF HandedDown, target
  <2>6. ASSUME NEW t \in Timers
        PROVE  MovedLinks(old, list, target)[t] = DownTo(k + 1, now)[t]
    <3>1. MovedLinks(old, list, target)[t] = IF old[t] = list THEN target[t]
            ELSE old[t]
      BY DEF MovedLinks
    <3>2. CASE node[t].links = list
      BY <1>4, <1>6, <1>8, <1>9, <3>1, <3>2
    <3>3. CASE node[t].links # list
      <4>1. old[t] # list
        BY <1>8, <1>9, <3>3
      <4>2. node[t].links \in Cascaded(now) =>
              (node[t].links[1] <= k <=> node[t].links[1] <= k + 1)
        BY <1>5, <1>6, <3>3
      <4>3. QED
        BY <1>3, <1>4, <3>1, <4>1, <4>2
    <3>4. QED
      BY <3>2, <3>3
  <2>7. MovedLinks(old, list, target) = DownTo(k + 1, now)
    <3>1. MovedLinks(old, list, target)
            = [t \in Timers |-> MovedLinks(old, list, target)[t]]
      BY DEF MovedLinks
    <3>2. QED
      BY <1>7, <2>6, <3>1
  <2>8. QED
    BY <2>4, <2>5, <2>7
<1>10. CASE list \notin Cascaded(now)
  <2>1. HandedDown(m, k, now) = m
    BY <1>10 DEF HandedDown
  <2>2. \A t \in Timers : old[t] = DownTo(k + 1, now)[t]
    BY <1>3, <1>4, <1>5, <1>6, <1>10
  <2>3. old = DownTo(k + 1, now)
    BY <1>7, <2>2
  <2>4. QED
    BY <2>1, <2>3 DEF old
<1>11. QED
  BY <1>9, <1>10

\* The lists when everything has been handed down.
LEMMA FitsAllHandedDown ==
  ASSUME TypeOK, NEW now \in Nat, NoneLost(now), Fits(mem, Slots, NodeLinks)
  PROVE  Fits(AllHandedDown(now), Slots,
           [t \in Timers |-> AfterCascade(t, now)])
<1>1. \A c \in Cascaded(now) : c[1] \in 1 .. 4
  BY DEF Cascaded, OtherWheel
<1>2. NodeLinks = DownTo(0, now)
  BY <1>1 DEF NodeLinks, DownTo
<1>3. [t \in Timers |-> AfterCascade(t, now)] = DownTo(4, now)
  BY <1>1 DEF AfterCascade, DownTo
<1> DEFINE m1 == HandedDown(mem, 0, now)
           m2 == HandedDown(m1, 1, now)
           m3 == HandedDown(m2, 2, now)
           m4 == HandedDown(m3, 3, now)
<1>4. /\ 0 \in OtherWheel /\ 1 \in OtherWheel /\ 2 \in OtherWheel
      /\ 3 \in OtherWheel
      /\ 0 + 1 = 1 /\ 1 + 1 = 2 /\ 2 + 1 = 3 /\ 3 + 1 = 4
  BY DEF OtherWheel
<1>5. Fits(mem, Slots, DownTo(0, now))
  BY <1>2
<1>6. Fits(m1, Slots, DownTo(1, now))
  BY <1>4, <1>5, FitsHandedDown
<1> HIDE DEF m1
<1>7. Fits(m2, Slots, DownTo(2, now))
  BY <1>4, <1>6, FitsHandedDown
<1> HIDE DEF m2
<1>8. Fits(m3, Slots, DownTo(3, now))
  BY <1>4, <1>7, FitsHandedDown
<1> HIDE DEF m3
<1>9. Fits(m4, Slots, DownTo(4, now))
  BY <1>4, <1>8, FitsHandedDown
<1>10. AllHandedDown(now) = m4
  BY DEF AllHandedDown, m1, m2, m3
<1>11. QED
  BY <1>3, <1>9, <1>10

-------------------------------------------------------------------------------
ListInv == Fits(mem, Slots, NodeLinks)

\* A tick, from the memory it finds to the one it leaves.
LEMMA TickFits ==
  ASSUME TypeOK, ListInv, ListTick, ~crashed'
  PROVE  ListInv'
<1> DEFINE now   == Wrap(tick + 1)
           list  == <<0, FirstIndex(now)>>
           links == [t \in Timers |-> AfterCascade(t, now)]
           mm    == AllHandedDown(now)
<1>1. /\ mem' = Ticked(now) /\ ~crashed
      /\ node' = [t \in Timers |-> AfterTick(t, now, Fired(now))]
      /\ NoneLost(now)
      /\ \A t \in Fired(now) : node[t].timerType = "Repeat"
                                 => ~NoHead(now, NextExpire(t, now))
  BY DEF ListTick, Tick, Unless, Crash, NoneLost
<1>2. now \in Nat
  <2>1. tick + 1 \in Nat
    BY TicksAreInts DEF TypeOK
  <2>2. now \in Uint32
    BY <2>1, WrapFits
  <2>3. QED
    BY <2>2, TicksAreInts
<1> HIDE DEF now
<1>3. \A t \in Timers : /\ node[t] \in Nodes /\ node[t].links \in Links
                        /\ node[t].expire \in Nat
  BY TicksAreInts DEF TypeOK, Nodes
<1>4. Fits(mm, Slots, links)
  BY <1>1, <1>2, FitsAllHandedDown DEF ListInv
<1>5. links \in [Timers -> Links]
  BY <1>1, <1>2, <1>3, PlacedElsewhere DEF AfterCascade, NoneLost, Links
<1>6. list \in Slots
  BY <1>2, IndexInWheel, SlotForms DEF OtherWheel
<1>7. \A t \in Timers : links[t] = list <=> t \in Fired(now)
  BY DEF Fired
<1>8. \A t \in Timers : t \in Fired(now) =>
        Rearmed(now)[t] \in Slots \cup {Itself}
  <2>1. SUFFICES ASSUME NEW t \in Timers, t \in Fired(now)
                 PROVE  Rearmed(now)[t] \in Slots \cup {Itself}
    OBVIOUS
  <2>2. CASE node[t].timerType = "Once"
    BY <2>2 DEF Rearmed
  <2>3. CASE node[t].timerType # "Once"
    <3>1. node[t].timerType = "Repeat"
      BY <1>3, <2>3 DEF Nodes, Types
    <3>2. NextExpire(t, now) \in Nat
      <4>1. node[t].delayTime \in Nat
        <5>1. node[t].delayTime \in Delays \cup {0}
          BY <1>3 DEF Nodes
        <5>2. \A d \in Delays \cup {0} : d \in Nat
          BY DelaysAreNat
        <5>3. QED
          BY <5>1, <5>2
      <4>2. node[t].delayTime \div Interval \in Nat
        BY <4>1, IntervalAssumption
      <4>3. QED
        <5>1. now + node[t].delayTime \div Interval \in Nat
          BY <1>2, <4>2
        <5>2. NextExpire(t, now) \in Uint32
          BY <5>1, WrapFits DEF NextExpire
        <5>3. QED
          BY <5>2, TicksAreInts
    <3>3. Placed(now, NextExpire(t, now), Itself) \in Slots \cup {Itself}
      BY <1>1, <1>2, <2>1, <3>1, <3>2, PlacedElsewhere
    <3>4. QED
      BY <2>3, <3>3 DEF Rearmed
  <2>4. QED
    BY <2>2, <2>3
<1> HIDE DEF links, list, mm
<1>9. Fits(Emptied(mm, list, Rearmed(now)), Slots,
        MovedLinks(links, list, Rearmed(now)))
  BY <1>4, <1>5, <1>6, <1>7, <1>8, FitsEmptied
<1>10. Fits(mem', Slots, MovedLinks(links, list, Rearmed(now)))
  BY <1>1, <1>9 DEF Ticked, mm, list
<1>11. MovedLinks(links, list, Rearmed(now)) = NodeLinks'
  <2>1. ASSUME NEW t \in Timers
        PROVE  MovedLinks(links, list, Rearmed(now))[t] = node'[t].links
    <3>1. node'[t] = AfterTick(t, now, Fired(now)) /\ node[t] \in Nodes
      BY <1>1, <1>3
    <3>2. MovedLinks(links, list, Rearmed(now))[t]
            = IF t \in Fired(now) THEN Rearmed(now)[t] ELSE links[t]
      BY <1>7 DEF MovedLinks
    <3>3. CASE t \notin Fired(now)
      BY <3>1, <3>2, <3>3 DEF AfterTick, Nodes, links
    <3>4. CASE t \in Fired(now)
      BY <3>1, <3>2, <3>4 DEF AfterTick, Nodes, Rearmed
    <3>5. QED
      BY <3>3, <3>4
  <2>2. MovedLinks(links, list, Rearmed(now))
          = [t \in Timers |-> MovedLinks(links, list, Rearmed(now))[t]]
    BY DEF MovedLinks
  <2>3. NodeLinks' = [t \in Timers |-> node'[t].links]
    BY DEF NodeLinks
  <2>4. QED
    BY <2>1, <2>2, <2>3
<1>12. QED
  BY <1>10, <1>11 DEF ListInv

\* Every step on the pointers is one of TimerMgr.
LEMMA ListNextIsNext == [ListNext]_listVars => [Next]_vars
BY DEF ListNext, listVars, Next, TickThread, AnyAddTimer, ListBeginUpdate,
   ListTick, ListAnyAddTimer, ListAddTimer, ListDelTimer, ListPauseTimer,
   ListReStartTimer

LEMMA NodeLinksAre == TypeOK => NodeLinks \in [Timers -> Links]
BY DEF TypeOK, Nodes, NodeLinks

\* TimerWheel_del unlinks a timer from wherever it is.
LEMMA DelinkFits ==
  ASSUME TypeOK, ListInv, NEW t \in Timers, node[t].links # NullPtr
  PROVE  Fits(Delinked(mem, t), Slots, [NodeLinks EXCEPT ![t] = Itself])
<1>1. /\ NodeLinks \in [Timers -> Links] /\ NodeLinks[t] = node[t].links
      /\ NodeLinks[t] \in Slots \cup {Itself}
      /\ Slots \in SUBSET Heads /\ Fits(mem, Slots, NodeLinks)
  BY NodeLinksAre DEF NodeLinks, Links, Heads, ListInv
<1>2. PICK lists \in [Slots -> Seq(Timers)] :
        /\ Represents(mem, Slots, lists) /\ Members(lists, NodeLinks)
        /\ Loose(mem, NodeLinks)
  BY <1>1 DEF Fits
<1>3. CASE NodeLinks[t] = Itself
  <2>1. Delinked(mem, t) = mem
    BY <1>2, <1>3 DEF Delinked, Linklist_is_empty, Loose, Alone
  <2>2. [NodeLinks EXCEPT ![t] = Itself] = NodeLinks
    BY <1>1, <1>3
  <2>3. QED
    BY <1>1, <2>1, <2>2
<1>4. CASE NodeLinks[t] \in Slots
  <2> DEFINE h == NodeLinks[t]
             s == lists[h]
  <2>1. PICK k \in 1 .. Len(s) : s[k] = t
    BY <1>2, <1>4 DEF Members
  <2>2. /\ s \in Seq(Cells) /\ h \in Cells /\ Len(s) \in Nat
        /\ k \in 0 .. Len(s) /\ k \in 1 .. Len(s) + 1
        /\ k + 1 \in 1 .. Len(s) + 1
        /\ k # k + 1
    BY <1>2, <1>4 DEF Represents
  <2>3. At(h, s, k) = t /\ mem.next[At(h, s, k)] = At(h, s, k + 1)
    BY <1>2, <1>4, <2>1, <2>2, Places DEF Represents, Ring
  <2>4. At(h, s, k) # At(h, s, k + 1)
    BY <1>2, <1>4, <2>2, ApartBehind
  <2>5. Delinked(mem, t) = Linklist_remote(mem, t)
    BY <2>3, <2>4 DEF Delinked, Linklist_is_empty
  <2>6. QED
    <3>1. NodeLinks \in [Timers -> Links \cup {LocalHead}]
      BY <1>1
    <3>2. Fits(mem, Slots, NodeLinks) /\ NodeLinks[t] \in Slots
          /\ Slots \in SUBSET Heads
      BY <1>1, <1>4
    <3>3. Fits(Linklist_remote(mem, t), Slots, [NodeLinks EXCEPT ![t] = Itself])
      BY <3>1, <3>2, FitsRemote
    <3>4. QED
      BY <2>5, <3>3
<1>5. QED
  BY <1>1, <1>3, <1>4

LEMMA ListStep ==
  TypeOK /\ PausedIsUnlinked /\ Unmapped /\ ListInv /\ [ListNext]_listVars
    => ListInv'
<1> SUFFICES ASSUME TypeOK, PausedIsUnlinked, Unmapped, ListInv,
                    [ListNext]_listVars
             PROVE  ListInv'
  OBVIOUS
<1>1. /\ NodeLinks \in [Timers -> Links] /\ Slots \in SUBSET Heads
      /\ Slots \subseteq Slots
      /\ \A t \in Timers : NodeLinks[t] = node[t].links
  BY NodeLinksAre DEF NodeLinks, Heads
<1>2. ASSUME mem' = mem, node' = node PROVE ListInv'
  BY <1>2 DEF ListInv, NodeLinks
<1>3. ASSUME NEW t \in Timers, NEW l, node' \in [Timers -> Nodes],
             \A u \in Timers \ {t} : node'[u].links = node[u].links,
             node'[t].links = l
      PROVE  NodeLinks' = [NodeLinks EXCEPT ![t] = l]
  <2>1. NodeLinks' = [u \in Timers |-> node'[u].links]
    BY DEF NodeLinks
  <2>2. QED
    BY <1>1, <1>3, <2>1
<1>4. TypeOK'
  BY ListNextIsNext, TypeStep
<1>5. node' \in [Timers -> Nodes] /\ node \in [Timers -> Nodes]
  BY <1>4 DEF TypeOK
<1>6. ASSUME NEW t \in Timers, NEW type \in Types, NEW delay \in Delays,
             NEW due \in Dues, ListAddTimer(t, type, delay, due)
      PROVE  ListInv'
  <2>1. CASE crashed'
    BY <1>2, <1>6, <2>1 DEF ListAddTimer, AddTimer, Unless, Crash, Locked, Quiet
  <2>2. CASE ~crashed'
    <3> DEFINE expire == Wrap(tick + FirstTicks(delay, due))
               list   == Placed(tick, expire, NullPtr)
    <3>1. /\ t \notin map /\ ~NoHead(tick, expire)
          /\ mem' = Linked(Zeroed(mem, t), node'[t].links, t)
          /\ \A u \in Timers \ {t} : node'[u] = node[u]
          /\ node'[t].links = list /\ node'[t].expire = expire
      BY <1>5, <1>6, <2>2 DEF ListAddTimer, AddTimer, Unless, Crash
    <3>2. node[t].links = Itself
      BY <3>1 DEF Unmapped, NoNode
    <3>3. NodeLinks[t] \notin Slots
      BY <1>1, <3>2, LinksAssumption
    <3> DEFINE null == [NodeLinks EXCEPT ![t] = NullPtr]
    <3>4. Fits(Zeroed(mem, t), Slots, null)
      BY <1>1, <3>3, FitsZeroed DEF ListInv
    <3>5. null \in [Timers -> Links] /\ null[t] = NullPtr
          /\ NullPtr \notin Slots
          /\ [null EXCEPT ![t] = list] = [NodeLinks EXCEPT ![t] = list]
      BY <1>1, LinksAssumption DEF Links
    <3>6. list \in Slots \/ list = NullPtr
      <4>1. /\ node'[t].links \in Links
            /\ list = NullPtr \/ list = HeadOf(tick, expire)
        BY <1>5, <3>1 DEF Nodes, Placed
      <4>2. tick \in Nat /\ expire \in Nat
        <5>1. tick \in Uint32 /\ node'[t].expire \in Uint32
          BY <1>5 DEF TypeOK, Nodes
        <5>2. QED
          BY <3>1, <5>1, TicksAreInts
      <4>3. QED
        BY <4>1, <4>2, HeadIsSlot
    <3> HIDE DEF null, list
    <3>7. Fits(Linked(Zeroed(mem, t), list, t), Slots,
            [null EXCEPT ![t] = list])
      BY <1>1, <3>4, <3>5, <3>6, FitsLinked
    <3>8. NodeLinks' = [NodeLinks EXCEPT ![t] = list]
      BY <1>3, <1>5, <3>1
    <3>9. QED
      BY <3>1, <3>5, <3>7, <3>8 DEF ListInv
  <2>3. QED
    BY <2>1, <2>2
<1>7. ASSUME NEW t \in Timers, ListPauseTimer(t) \/ ListDelTimer(t)
      PROVE  ListInv'
  <2>1. CASE crashed'
    BY <1>2, <1>7, <2>1
    DEF ListPauseTimer, ListDelTimer, PauseTimer, DelTimer, Unless, Crash,
          Locked, Quiet
  <2>2. CASE ~crashed'
    <3>1. /\ node[t].links # NullPtr /\ mem' = Delinked(mem, t)
          /\ \A u \in Timers \ {t} : node'[u] = node[u]
          /\ node'[t].links = Itself
      BY <1>5, <1>7, <2>2
      DEF ListPauseTimer, ListDelTimer, PauseTimer, DelTimer, Unless, Crash,
          Unlinkable, NoNode, Nodes
    <3>2. NodeLinks' = [NodeLinks EXCEPT ![t] = Itself]
      BY <1>3, <1>5, <3>1
    <3>3. QED
      BY <3>1, <3>2, DelinkFits DEF ListInv
  <2>3. QED
    BY <2>1, <2>2
<1>8. ASSUME NEW t \in Timers, ListReStartTimer(t) PROVE ListInv'
  <2>1. CASE crashed'
    BY <1>2, <1>8, <2>1 DEF ListReStartTimer, ReStartTimer, Unless, Crash,
      Locked, Quiet
  <2>2. CASE ~crashed'
    <3> DEFINE head == node[t].lastHead
    <3>1. /\ node[t].timerStat = "Pauseing" /\ head # NullPtr
          /\ mem' = Linklist_add_back(mem, head, t)
          /\ \A u \in Timers \ {t} : node'[u] = node[u]
          /\ node'[t].links = head
      BY <1>5, <1>8, <2>2 DEF ListReStartTimer, ReStartTimer, Unless, Crash,
        Nodes
    <3>2. head \in Slots
      BY <1>5, <3>1 DEF Nodes
    <3>3. NodeLinks[t] \notin Slots
      BY <1>1, <3>1, LinksAssumption DEF PausedIsUnlinked
    <3> HIDE DEF head
    <3>4. Fits(mem', Slots, [NodeLinks EXCEPT ![t] = head])
      BY <1>1, <3>1, <3>2, <3>3, FitsAddBack DEF ListInv
    <3>5. NodeLinks' = [NodeLinks EXCEPT ![t] = head]
      BY <1>3, <1>5, <3>1
    <3>6. QED
      BY <3>4, <3>5 DEF ListInv
  <2>3. QED
    BY <2>1, <2>2
<1>9. CASE ListTick
  <2>1. CASE crashed'
    BY <1>2, <1>9, <2>1 DEF ListTick, Tick, Unless, Crash
  <2>2. CASE ~crashed'
    BY <1>9, <2>2, TickFits
  <2>3. QED
    BY <2>1, <2>2
<1>10. CASE ListBeginUpdate
  BY <1>2, <1>10 DEF ListBeginUpdate, BeginUpdate
<1>11. CASE UNCHANGED listVars
  BY <1>2, <1>11 DEF listVars, vars
<1>12. QED
  BY <1>6, <1>7, <1>8, <1>9, <1>10, <1>11 DEF ListNext, ListAnyAddTimer

LEMMA ListInitially == ListInit => ListInv
<1> SUFFICES ASSUME ListInit PROVE ListInv
  OBVIOUS
<1>1. \A t \in Timers : NodeLinks[t] = Itself
  BY DEF ListInit, Init, NodeLinks, NoNode
<1>2. QED
  BY <1>1, FitsInitially DEF ListInit, ListInv

\* A step of TimerMgr on its pointers is a step of TimerMgr on sets of timers:
\* everything that is shown of TimerMgr is true of it on its pointers.
THEOREM ListsImplementSets == ListSpec => Spec
<1>1. ListInit => Init
  BY DEF ListInit
<1>2. QED
  BY <1>1, ListNextIsNext, PTL DEF ListSpec, Spec

\* The same with the fairness of the tick thread (TimerMgr.cpp:19-30).
THEOREM ListsImplementFairly == ListFairSpec => FairSpec
BY ListsImplementSets, PTL DEF ListFairSpec, FairSpec

\* The invariant that carries itself.
LEMMA ListsFit == ListSpec => [](TypeOK /\ ListInv)
<1>1. ListInit => TypeOK /\ PausedIsUnlinked /\ Unmapped /\ ListInv
  <2>1. Init => TypeOK /\ PausedIsUnlinked /\ Unmapped
    BY TypeInit DEF Init, PausedIsUnlinked, Unmapped, NoNode
  <2>2. QED
    BY <2>1, ListInitially DEF ListInit
<1>2. QED
  BY <1>1, ListNextIsNext, TypeStep, PausedStep, UnmappedStep, ListStep, PTL
  DEF ListSpec

\* The prev and next pointers of all nodes are, after every step and for every
\* number of timers and size of the wheels, those of the lists that TimerMgr
\* takes for sets: each ring goes once through each of its timers and through
\* nothing else, and what has been taken out stands alone
\* (CycleLinkList.h:23-71, TimerWheel.cpp:118-255).
THEOREM ListsAlwaysMatch == ListSpec => []ListsMatch
<1>1. ListInv => ListsMatch
  BY HoldsOfFits DEF ListInv, ListsMatch, NodeLinks
<1>2. QED
  BY <1>1, ListsFit, PTL

\* What a tick hands to the pool is what stands on the ring of its list once the
\* lists of the other wheels have been handed down, all of it and each timer
\* once (TimerWheel.cpp:214-246).
THEOREM TicksFireTheirRing == ListSpec => FiresItsRing
<1>1. TypeOK /\ ListInv =>
        (ListTick /\ ~crashed' =>
           \E s \in SetToSeqs(posted') :
             Ring(AllHandedDown(tick'), <<0, FirstIndex(tick')>>, s))
  <2> SUFFICES ASSUME TypeOK, ListInv, ListTick, ~crashed'
               PROVE  \E s \in SetToSeqs(posted') :
                        Ring(AllHandedDown(tick'), <<0, FirstIndex(tick')>>, s)
    OBVIOUS
  <2> DEFINE now   == Wrap(tick + 1)
             list  == <<0, FirstIndex(now)>>
             links == [t \in Timers |-> AfterCascade(t, now)]
  <2>1. tick' = now /\ posted' = Fired(now) /\ NoneLost(now)
    BY DEF ListTick, Tick, Crash, NoneLost
  <2>2. now \in Nat
    <3>1. tick + 1 \in Nat
      BY TicksAreInts DEF TypeOK
    <3>2. now \in Uint32
      BY <3>1, WrapFits
    <3>3. QED
      BY <3>2, TicksAreInts
  <2> HIDE DEF now
  <2>3. Fits(AllHandedDown(now), Slots, links)
    BY <2>1, <2>2, FitsAllHandedDown DEF ListInv
  <2>4. list \in Slots /\ Slots \in SUBSET Heads
    BY <2>2, IndexInWheel, SlotForms DEF OtherWheel, Heads
  <2>5. {t \in Timers : links[t] = list} = posted'
    BY <2>1 DEF Fired
  <2> HIDE DEF links, list
  <2>6. \E s \in SetToSeqs({t \in Timers : links[t] = list}) :
          Ring(AllHandedDown(now), list, s)
    BY <2>3, <2>4, RingOfMembers
  <2>7. QED
    BY <2>1, <2>5, <2>6 DEF list
<1>2. QED
  BY <1>1, ListsFit, PTL DEF FiresItsRing
================================================================================

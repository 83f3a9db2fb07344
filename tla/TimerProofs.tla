------------------------------ MODULE TimerProofs ------------------------------
(***************************************************************************)
(* The parts around TimerMgr.  The time arithmetic of TimerWheel_update,   *)
(* for every interval, every behaviour of the clock and any number of      *)
(* updates.  And the timer thread, for every set of users and delays: it   *)
(* does to the time of the wheel what WheelClock says, so that the         *)
(* theorems about that carry over; a timer stands, in time, where its      *)
(* expiry stands in ticks.                                                 *)
(***************************************************************************)
EXTENDS TimerService, TLAPS

-------------------------------------------------------------------------------
(* The time of the wheel.                                                  *)

\* What fits a uint16_t is not changed by the cast.
LEMMA CastKeeps ==
  ASSUME NEW n \in Nat, n < Uint16Size
  PROVE  n % Uint16Size = n
BY TimeAssumption

LEMMA InitInv == Init => ClockInv
<1> SUFFICES ASSUME Init PROVE ClockInv
  OBVIOUS
<1> USE TimeAssumption DEF Init
<1>1. TypeOK
  <2>1. updating \in BOOLEAN
    OBVIOUS
  <2>2. 0 \in 0 .. Uint16Size - 1
    OBVIOUS
  <2>3. QED
    BY <2>1, <2>2 DEF TypeOK
<1>2. ticks * Interval = 0 /\ Pending = 0
  BY DEF Pending
<1>3. TimeConserved
  BY <1>2 DEF TimeConserved
<1>4. LagBounded
  BY DEF LagBounded
<1>5. QED
  BY <1>1, <1>3, <1>4 DEF ClockInv

LEMMA ClockStep == ClockInv /\ [Next]_vars => ClockInv'
<1> SUFFICES ASSUME ClockInv, [Next]_vars
             PROVE  ClockInv'
  OBVIOUS
<1> USE TimeAssumption
    DEF ClockInv, TypeOK, TimeConserved, LagBounded, Pending
<1>1. CASE ClockMoves
  BY <1>1 DEF ClockMoves
<1>2. CASE BeginUpdate
  BY <1>2 DEF BeginUpdate
<1>3. CASE TickOnce
  <2>1. diff' \in Nat /\ ticks' \in Nat
    BY <1>3 DEF TickOnce, IntervalLeft
  <2>2. ticks' * Interval + diff' = ticks * Interval + diff
    BY <1>3 DEF TickOnce
  <2>3. QED
    BY <1>3, <2>1, <2>2 DEF TickOnce
<1>4. CASE EndUpdate
  <2>1. diff <= Interval /\ diff < Uint16Size
    BY <1>4 DEF EndUpdate, IntervalLeft
  <2>2. remainder' = diff
    BY <1>4, <2>1, CastKeeps DEF EndUpdate
  <2>3. TypeOK'
    <3>1. updating' \in BOOLEAN
      BY <1>4 DEF EndUpdate
    <3>2. remainder' \in 0 .. Uint16Size - 1
      BY <2>1, <2>2
    <3>3. QED
      BY <1>4, <3>1, <3>2 DEF EndUpdate
  <2>4. Pending' = Pending
    BY <1>4, <2>2 DEF EndUpdate
  <2>5. TimeConserved'
    BY <1>4, <2>4 DEF EndUpdate
  <2>6. LagBounded'
    BY <1>4, <2>1, <2>2 DEF EndUpdate
  <2>7. QED
    BY <2>3, <2>5, <2>6
<1>5. CASE UNCHANGED vars
  BY <1>5 DEF vars
<1>6. QED
  BY <1>1, <1>2, <1>3, <1>4, <1>5 DEF Next

THEOREM Inductive == Spec => []ClockInv
BY InitInv, ClockStep, PTL DEF Spec

\* The fields of TimerWheel that keep the time keep their types.
THEOREM TypeCorrect == Spec => []TypeOK
<1>1. ClockInv => TypeOK
  BY DEF ClockInv
<1>2. QED
  BY <1>1, Inductive, PTL

\* TimerWheel_update never loses or repeats a millisecond.
THEOREM ConservesTime == Spec => []TimeConserved
<1>1. ClockInv => TimeConserved
  BY DEF ClockInv
<1>2. QED
  BY <1>1, Inductive, PTL

\* The wheel lags the last update by one interval at most.
THEOREM BoundsLag == Spec => []LagBounded
<1>1. ClockInv => LagBounded
  BY DEF ClockInv
<1>2. QED
  BY <1>1, Inductive, PTL

-------------------------------------------------------------------------------
(* The thread implements the update of the wheel.                          *)

LEMMA StepMaps == [ServiceNext]_allVars => [Next]_vars
<1> SUFFICES ASSUME ServiceNext
             PROVE  Next \/ UNCHANGED vars
  BY DEF allVars
<1>1. CASE TickThread
  BY <1>1 DEF TickThread, Test, TakeMutex, StartUpdate, TickFires,
              FinishUpdate, ReleaseMutex, TouchesFreed, Next
<1>2. CASE \E u \in Users : Ask(u) \/ Arm(u)
  BY <1>2 DEF Ask, Arm, ArmAt
<1>3. CASE SetQuit \/ Destroy
  BY <1>3 DEF SetQuit, Destroy
<1>4. CASE TimePasses
  BY <1>4 DEF TimePasses, Next
<1>5. QED
  BY <1>1, <1>2, <1>3, <1>4 DEF ServiceNext

\* What the threads do to the time of the wheel is TimerWheel_update.
THEOREM ServiceImplementsClock == ServiceSpec => Spec
<1>1. ServiceInit => Init
  BY DEF ServiceInit
<1>2. QED
  BY <1>1, StepMaps, PTL DEF ServiceSpec, Spec

\* No millisecond is lost or counted twice, however the threads interleave.
THEOREM ServiceConservesTime == ServiceSpec => []TimeConserved
BY ServiceImplementsClock, ConservesTime, PTL

\* Between two updates the wheel lags the clock it last read by one interval at
\* most.
THEOREM ServiceBoundsLag == ServiceSpec => []LagBounded
BY ServiceImplementsClock, BoundsLag, PTL

-------------------------------------------------------------------------------
(* Who holds the mutex, and where the thread is.                           *)

\* The tick thread holds the mutex from the AutoLock to the end of the round;
\* users are served only by a manager that is up; and with the flag set the
\* thread is past the lock for the last time.
LockInv ==
  /\ at \in {"read", "update", "unlock"} => owner = Ticker
  /\ at = "lost" => manager = "gone"
  /\ waiting # {} => manager = "up"
  /\ late \in {0, 1}
  /\ manager = "up" => late = 0
  /\ late = 1 => at # "lock"

\* Where the wheel stood when a timer was armed.
Mark(t) == t.armed - t.lag

\* A time is one at which a timer may go off: at least one interval after the
\* mark, and the delay after it but for the rounding.
InTime(t, time) ==
  /\ Mark(t) + AtLeast(t.delay - Rounding, Interval) <= time
  /\ time <= Mark(t) + AtLeast(t.delay, Interval)

\* An armed timer expires at a tick to come, which stands for such a time.
TimerInv ==
  \A u \in Users : timer[u] # NoTimer =>
    /\ timer[u].expire > ticks
    /\ InTime(timer[u], StartTime + timer[u].expire * Interval)

ServiceInv == ServiceTypeOK /\ LockInv /\ TimerInv

LEMMA ServiceInitInv == ServiceInit => ServiceInv
<1> SUFFICES ASSUME ServiceInit PROVE ServiceInv
  OBVIOUS
<1> USE DEF ServiceInit
<1>1. TypeOK
  BY InitInv DEF ClockInv
<1>2. timer \in [Users -> TimerRecord]
  BY DEF NoTimer, TimerRecord
<1>3. ServiceTypeOK
  <2>1. updating = FALSE
    BY DEF Init
  <2>2. QED
    BY <1>1, <1>2, <2>1 DEF ServiceTypeOK, Places
<1>4. LockInv
  BY DEF LockInv
<1>5. TimerInv
  BY DEF TimerInv
<1>6. QED
  BY <1>3, <1>4, <1>5 DEF ServiceInv

\* The ticks of a delay are at least one, ...
LEMMA TicksOfNat ==
  ASSUME NEW delay \in Nat
  PROVE  TicksOf(delay) \in Nat \ {0}
BY TimeAssumption DEF TicksOf

\* ... and stand for the delay in milliseconds but for the rounding.
LEMMA TicksOfDelay ==
  ASSUME NEW delay \in Nat
  PROVE  /\ AtLeast(delay - Rounding, Interval) <= TicksOf(delay) * Interval
         /\ TicksOf(delay) * Interval <= AtLeast(delay, Interval)
<1> DEFINE q == delay \div Interval
<1>1. /\ q \in Nat
      /\ q * Interval <= delay
      /\ delay < q * Interval + Interval
  BY TimeAssumption
<1> HIDE DEF q
<1>2. CASE q = 0
  <2>1. TicksOf(delay) * Interval = Interval
    BY <1>2, TimeAssumption DEF TicksOf, q
  <2>2. delay < Interval
    BY <1>1, <1>2, TimeAssumption
  <2>3. QED
    BY <2>1, <2>2, TimeAssumption DEF AtLeast, Rounding
<1>3. CASE q # 0
  <2>1. TicksOf(delay) = q
    BY <1>1, <1>3 DEF TicksOf, q
  <2>2. q * Interval >= Interval /\ q * Interval \in Nat
    BY <1>1, <1>3, TimeAssumption
  <2>3. QED
    BY <1>1, <2>1, <2>2, TimeAssumption DEF AtLeast, Rounding
<1>4. QED
  BY <1>2, <1>3

\* What a user arms: a timer in time, that expires at a tick to come.
LEMMA ArmedInTime ==
  ASSUME TypeOK, TimeConserved, ~updating, NEW u, Arm(u)
  PROVE  \E t \in TimerRecord :
           /\ timer' = [timer EXCEPT ![u] = t]
           /\ t.expire > ticks
           /\ InTime(t, StartTime + t.expire * Interval)
<1>1. PICK delay \in Delays, due \in Dues, from \in {clock, lastTimeStamp} :
        /\ from >= lastTimeStamp
        /\ timer' = [timer EXCEPT ![u] =
             [expire |-> ticks + TicksOf(delay + due),
              armed  |-> from,
              delay  |-> delay + due,
              lag    |-> from - lastTimeStamp + remainder]]
  BY DEF Arm, ArmAt
<1> DEFINE d == delay + due
           k == TicksOf(d)
           t == [expire |-> ticks + k, armed |-> from, delay |-> d,
                 lag |-> from - lastTimeStamp + remainder]
<1>2. d \in Nat
  BY ServiceAssumption
<1> HIDE DEF d
<1>3. /\ k \in Nat \ {0}
      /\ AtLeast(d - Rounding, Interval) <= k * Interval
      /\ k * Interval <= AtLeast(d, Interval)
  BY <1>2, TicksOfNat, TicksOfDelay
<1>4. timer' = [timer EXCEPT ![u] = t]
  BY <1>1 DEF d
<1> HIDE DEF k
<1>5. ticks + k \in Nat /\ from - lastTimeStamp + remainder \in Nat
  BY <1>1, <1>3, TimeAssumption DEF TypeOK
<1>6. t \in TimerRecord
  BY <1>2, <1>5 DEF TypeOK, TimerRecord
<1>7. t.expire > ticks
  BY <1>3 DEF TypeOK
<1>8. Mark(t) = StartTime + ticks * Interval
  <2>1. Mark(t) = lastTimeStamp - remainder
    BY TimeAssumption DEF Mark, TypeOK
  <2>2. lastTimeStamp = StartTime + ticks * Interval + remainder
    BY DEF TimeConserved, Pending
  <2>3. ticks * Interval \in Nat
    BY TimeAssumption DEF TypeOK
  <2>4. QED
    BY <2>1, <2>2, <2>3, TimeAssumption DEF TypeOK
<1>9. StartTime + t.expire * Interval = Mark(t) + k * Interval
  <2>1. (ticks + k) * Interval = ticks * Interval + k * Interval
    BY <1>3, TimeAssumption DEF TypeOK
  <2>2. ticks * Interval \in Nat /\ k * Interval \in Nat
    BY <1>3, TimeAssumption DEF TypeOK
  <2>3. t.expire = ticks + k
    OBVIOUS
  <2>4. QED
    BY <1>8, <2>1, <2>2, <2>3, TimeAssumption
<1>10. InTime(t, StartTime + t.expire * Interval)
  <2>1. Mark(t) \in Nat /\ k * Interval \in Nat
    BY <1>3, <1>8, TimeAssumption DEF TypeOK
  <2>2. AtLeast(d - Rounding, Interval) \in Int /\ AtLeast(d, Interval) \in Int
    BY <1>2, TimeAssumption DEF AtLeast, Rounding
  <2>3. t.delay = d
    OBVIOUS
  <2> HIDE DEF t
  <2>4. QED
    BY <1>3, <1>9, <2>1, <2>2, <2>3 DEF InTime
<1> HIDE DEF t
<1>11. QED
  BY <1>4, <1>6, <1>7, <1>10

LEMMA TypeStep ==
  ASSUME ServiceInv, ClockInv, ClockInv', [ServiceNext]_allVars
  PROVE  ServiceTypeOK'
<1> USE DEF ServiceInv, ServiceTypeOK, Places
<1>1. TypeOK'
  BY DEF ClockInv
<1>2. CASE TickThread
  <2>1. CASE Test \/ TakeMutex \/ ReleaseMutex \/ TouchesFreed
    BY <1>1, <2>1 DEF Test, TakeMutex, ReleaseMutex, TouchesFreed, vars, LockInv
  <2>2. CASE StartUpdate
    BY <1>1, <2>2 DEF StartUpdate, BeginUpdate, vars
  <2>3. CASE TickFires
    <3>1. timer' \in [Users -> TimerRecord]
      BY <2>3 DEF TickFires, NoTimer, TimerRecord
    <3>2. QED
      BY <1>1, <2>3, <3>1 DEF TickFires, TickOnce
  <2>4. CASE FinishUpdate
    BY <1>1, <2>4 DEF FinishUpdate, EndUpdate
  <2>5. QED
    BY <1>2, <2>1, <2>2, <2>3, <2>4 DEF TickThread
<1>3. CASE \E u \in Users : Ask(u)
  BY <1>1, <1>3 DEF Ask, vars
<1>4. CASE \E u \in Users : Arm(u)
  <2>1. PICK u \in Users : Arm(u)
    BY <1>4
  <2>2. ~updating
    BY <2>1, ServiceAssumption DEF Arm, ArmAt, LockInv
  <2>3. PICK t \in TimerRecord : timer' = [timer EXCEPT ![u] = t]
    BY <2>1, <2>2, ArmedInTime DEF ClockInv
  <2>4. timer' \in [Users -> TimerRecord]
    BY <2>3
  <2>5. QED
    BY <1>1, <2>1, <2>4 DEF Arm, ArmAt, vars
<1>5. CASE SetQuit \/ Destroy
  BY <1>1, <1>5 DEF SetQuit, Destroy, vars
<1>6. CASE TimePasses
  BY <1>1, <1>6 DEF TimePasses, ClockMoves, serviceVars
<1>7. CASE UNCHANGED allVars
  BY <1>1, <1>7 DEF allVars, vars, serviceVars
<1>8. QED
  BY <1>2, <1>3, <1>4, <1>5, <1>6, <1>7 DEF ServiceNext

LEMMA LockStep ==
  ASSUME ServiceInv, [ServiceNext]_allVars
  PROVE  LockInv'
<1> USE ServiceAssumption DEF ServiceInv, ServiceTypeOK, LockInv, Places
<1>1. CASE TickThread
  BY <1>1 DEF TickThread, Test, TakeMutex, StartUpdate, TickFires,
              FinishUpdate, ReleaseMutex, TouchesFreed, Alive,
              BeginUpdate, TickOnce, EndUpdate, vars
<1>2. CASE \E u \in Users : Ask(u) \/ Arm(u)
  BY <1>2 DEF Ask, Arm, ArmAt
<1>3. CASE SetQuit \/ Destroy
  BY <1>3 DEF SetQuit, Destroy
<1>4. CASE TimePasses
  BY <1>4 DEF TimePasses, serviceVars
<1>5. CASE UNCHANGED allVars
  BY <1>5 DEF allVars, serviceVars
<1>6. QED
  BY <1>1, <1>2, <1>3, <1>4, <1>5 DEF ServiceNext

LEMMA TimerStep ==
  ASSUME ServiceInv, ClockInv, [ServiceNext]_allVars
  PROVE  TimerInv'
<1> USE DEF ServiceInv, ServiceTypeOK
<1>1. CASE ticks' = ticks /\ timer' = timer
  BY <1>1 DEF TimerInv
<1>2. CASE TickFires
  <2> SUFFICES ASSUME NEW u \in Users, timer'[u] # NoTimer
               PROVE  /\ timer'[u].expire > ticks'
                      /\ InTime(timer'[u], StartTime + timer'[u].expire * Interval)
    BY DEF TimerInv
  <2>1. timer'[u] = timer[u] /\ timer[u].expire # ticks + 1
    BY <1>2 DEF TickFires, Fires
  <2>2. timer[u].expire \in Nat /\ ticks \in Nat
    BY DEF TimerRecord, TypeOK
  <2>3. ticks' = ticks + 1
    BY <1>2 DEF TickFires, TickOnce
  <2>4. timer'[u].expire > ticks'
    BY <2>1, <2>2, <2>3 DEF TimerInv
  <2>5. QED
    BY <2>1, <2>4 DEF TimerInv
<1>3. CASE \E u \in Users : Arm(u)
  <2>1. PICK a \in Users : Arm(a)
    BY <1>3
  <2>2. ~updating /\ ticks' = ticks
    BY <2>1, ServiceAssumption DEF Arm, ArmAt, LockInv, Places, vars
  <2>3. PICK t \in TimerRecord :
          /\ timer' = [timer EXCEPT ![a] = t]
          /\ t.expire > ticks
          /\ InTime(t, StartTime + t.expire * Interval)
    BY <2>1, <2>2, ArmedInTime DEF ClockInv
  <2> SUFFICES ASSUME NEW u \in Users, timer'[u] # NoTimer
               PROVE  /\ timer'[u].expire > ticks'
                      /\ InTime(timer'[u], StartTime + timer'[u].expire * Interval)
    BY DEF TimerInv
  <2>4. CASE u # a
    BY <2>2, <2>3, <2>4 DEF TimerInv
  <2>5. CASE u = a
    BY <2>2, <2>3, <2>5
  <2>6. QED
    BY <2>4, <2>5
<1>4. CASE ServiceNext /\ ~TickFires /\ ~\E u \in Users : Arm(u)
  BY <1>1, <1>4 DEF ServiceNext, TickThread, Test, TakeMutex, StartUpdate,
     FinishUpdate, ReleaseMutex, TouchesFreed, BeginUpdate, EndUpdate,
     Ask, SetQuit, Destroy, TimePasses, ClockMoves, vars, serviceVars
<1>5. CASE UNCHANGED allVars
  BY <1>1, <1>5 DEF allVars, vars, serviceVars
<1>6. QED
  BY <1>2, <1>3, <1>4, <1>5

THEOREM ServiceInductive == ServiceSpec => []ServiceInv
<1>1. ServiceInv /\ ClockInv /\ ClockInv' /\ [ServiceNext]_allVars
        => ServiceInv'
  BY TypeStep, LockStep, TimerStep DEF ServiceInv
<1>2. ServiceSpec => []ClockInv
  BY ServiceImplementsClock, Inductive, PTL
<1>3. QED
  BY <1>1, <1>2, ServiceInitInv, PTL DEF ServiceSpec

\* The state of the timer thread, its mutex and its timers keeps its type.
THEOREM ServiceTypeCorrect == ServiceSpec => []ServiceTypeOK
<1>1. ServiceInv => ServiceTypeOK
  BY DEF ServiceInv
<1>2. QED
  BY <1>1, ServiceInductive, PTL

\* After ~TimerMgr has set the flag the thread begins one more round at most.
THEOREM StopsAfterOneRound == ServiceSpec => []OneMoreRound
<1>1. ServiceInv => OneMoreRound
  BY DEF ServiceInv, LockInv, OneMoreRound
<1>2. QED
  BY <1>1, ServiceInductive, PTL

\* No armed timer outlives the first update that reads a time after its delay,
\* or after one interval if the delay is shorter, counted from where the wheel
\* stood.
THEOREM FiresBeforeOverdue == ServiceSpec => []NotOverdue
<1>1. ASSUME ServiceInv, ClockInv PROVE NotOverdue
  <2> SUFFICES ASSUME NEW u \in Users, timer[u] # NoTimer, ~updating
               PROVE  lastTimeStamp
                        <= Mark(timer[u]) + AtLeast(timer[u].delay, Interval)
    BY DEF NotOverdue, Mark
  <2> USE <1>1 DEF ServiceInv, ServiceTypeOK
  <2> DEFINE e == timer[u].expire
             due == Mark(timer[u]) + AtLeast(timer[u].delay, Interval)
  <2>1. e \in Nat /\ e >= ticks + 1 /\ StartTime + e * Interval <= due
    BY DEF TimerInv, InTime, TimerRecord, TypeOK
  <2>2. due \in Int
    BY TimeAssumption DEF TimerRecord, Mark, AtLeast
  <2> HIDE DEF e, due
  <2>3. e * Interval >= (ticks + 1) * Interval
    BY <2>1, TimeAssumption DEF TypeOK
  <2>4. (ticks + 1) * Interval = ticks * Interval + Interval
    BY TimeAssumption DEF TypeOK
  <2>5. lastTimeStamp = StartTime + ticks * Interval + remainder
    BY DEF ClockInv, TimeConserved, Pending
  <2>6. remainder <= Interval
    BY DEF ClockInv, LagBounded
  <2>7. ticks * Interval \in Nat /\ e * Interval \in Nat
    BY <2>1, TimeAssumption DEF TypeOK
  <2>8. lastTimeStamp <= due
    BY <2>1, <2>2, <2>3, <2>4, <2>5, <2>6, <2>7, TimeAssumption DEF TypeOK
  <2>9. QED
    BY <2>8 DEF due
<1>2. ServiceSpec => []ClockInv
  BY ServiceImplementsClock, Inductive, PTL
<1>3. QED
  BY <1>1, <1>2, ServiceInductive, PTL

\* No timer fires one interval or more before its delay is over, nor within one
\* interval, counted from where the wheel stood.
THEOREM FiresNotEarly == ServiceSpec => NotEarly
<1>1. ASSUME ServiceInv, ClockInv, [ServiceNext]_allVars
      PROVE  [\A u \in Users :
                timer[u] # NoTimer /\ timer'[u] = NoTimer =>
                  lastTimeStamp' > timer[u].armed - timer[u].lag
                    + AtLeast(timer[u].delay - Rounding, Interval)]_allVars
  <2> DEFINE first(t) == Mark(t) + AtLeast(t.delay - Rounding, Interval)
  <2> SUFFICES ASSUME NEW u \in Users, timer[u] # NoTimer, timer'[u] = NoTimer
               PROVE  lastTimeStamp' > first(timer[u])
    BY DEF Mark
  <2> USE <1>1 DEF ServiceInv, ServiceTypeOK
  <2>1. CASE TickFires
    <3>1. timer[u].expire = ticks + 1
      BY <2>1 DEF TickFires, Fires
    <3>2. first(timer[u]) <= StartTime + (ticks + 1) * Interval
      BY <3>1 DEF TimerInv, InTime
    <3>3. first(timer[u]) \in Int
      BY TimeAssumption DEF TimerRecord, Mark, AtLeast, Rounding
    <3> HIDE DEF first
    <3>4. (ticks + 1) * Interval = ticks * Interval + Interval
      BY TimeAssumption DEF TypeOK
    <3>5. lastTimeStamp = StartTime + ticks * Interval + diff
      BY <2>1 DEF TickFires, TickOnce, ClockInv, TimeConserved, Pending
    <3>6. diff > Interval /\ lastTimeStamp' = lastTimeStamp
      BY <2>1 DEF TickFires, TickOnce, IntervalLeft
    <3>7. ticks * Interval \in Nat
      BY TimeAssumption DEF TypeOK
    <3>8. QED
      BY <3>2, <3>3, <3>4, <3>5, <3>6, <3>7, TimeAssumption DEF TypeOK
  <2>2. CASE \E a \in Users : Arm(a)
    <3>1. PICK a \in Users : Arm(a)
      BY <2>2
    <3>2. ~updating
      BY <3>1, ServiceAssumption DEF Arm, ArmAt, LockInv, Places
    <3>3. PICK t \in TimerRecord :
            timer' = [timer EXCEPT ![a] = t] /\ t.expire > ticks
      BY <3>1, <3>2, ArmedInTime DEF ClockInv
    <3>4. timer'[u] = t
      BY <3>3
    <3>5. timer'[u].expire = 0
      BY DEF NoTimer
    <3>6. QED
      BY <3>3, <3>4, <3>5 DEF TypeOK
  <2>3. CASE timer' = timer
    BY <2>3
  <2>4. QED
    BY <1>1, <2>1, <2>2, <2>3 DEF ServiceNext, TickThread, Test, TakeMutex,
       StartUpdate, FinishUpdate, ReleaseMutex, TouchesFreed, Ask, SetQuit,
       Destroy, TimePasses, allVars, serviceVars
<1>2. ServiceSpec => []ClockInv
  BY ServiceImplementsClock, Inductive, PTL
<1>3. QED
  BY <1>1, <1>2, ServiceInductive, PTL DEF ServiceSpec, NotEarly
===============================================================================

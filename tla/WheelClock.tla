------------------------------ MODULE WheelClock ------------------------------
(***************************************************************************)
(* How TimerWheel_update (TimerWheel.cpp:257-271) turns the wall clock     *)
(* into ticks, called over and over by the thread of TimerMgr::Start.      *)
(* TimerMgr takes the ticks of one update from here.  The wall clock is    *)
(* that of the system: it may stand, jump and go back.                     *)
(***************************************************************************)
EXTENDS Integers

CONSTANTS Interval,    \* TimerWheel::interval, milliseconds per tick
          Uint16Size,  \* the number of values of a uint16_t
          StartTime,   \* the time TimerWheel_init was given
          MaxTime      \* bound: the last time the clock shows

ASSUME TimeAssumption ==
  /\ Interval \in Nat \ {0}
  /\ Uint16Size \in Nat /\ Interval < Uint16Size
  /\ StartTime \in Nat /\ MaxTime \in Nat

VARIABLES
  clock,          \* what GetTimeStampInMS returns
  lastTimeStamp,  \* TimerWheel::lastTimeStamp
  remainder,      \* TimerWheel::remainder
  diff,           \* the local diff of the update under way
  updating,       \* an update is under way
  ticks           \* how many times _TimerWheel_tick was called

vars == <<clock, lastTimeStamp, remainder, diff, updating, ticks>>

TypeOK ==
  /\ clock \in Nat
  /\ lastTimeStamp \in Nat
  /\ remainder \in 0 .. Uint16Size - 1
  /\ diff \in Nat
  /\ updating \in BOOLEAN
  /\ ticks \in Nat

Init ==
  /\ clock = StartTime
  /\ lastTimeStamp = StartTime
  /\ remainder = 0
  /\ diff = 0
  /\ updating = FALSE
  /\ ticks = 0

ClockMoves ==
  /\ clock' \in 0 .. MaxTime
  /\ UNCHANGED <<lastTimeStamp, remainder, diff, updating, ticks>>

\* An update that finds the clock ahead of the last one.  (One that does not
\* changes nothing.)
BeginUpdate ==
  /\ ~updating
  /\ clock > lastTimeStamp
  /\ diff' = clock - lastTimeStamp + remainder
  /\ lastTimeStamp' = clock
  /\ updating' = TRUE
  /\ UNCHANGED <<clock, remainder, ticks>>

\* while (diff > tw->interval)
IntervalLeft == diff > Interval

TickOnce ==
  /\ updating
  /\ IntervalLeft
  /\ diff'  = diff - Interval
  /\ ticks' = ticks + 1
  /\ UNCHANGED <<clock, lastTimeStamp, remainder, updating>>

\* tw->remainder = (uint16_t)diff
EndUpdate ==
  /\ updating
  /\ ~IntervalLeft
  /\ remainder' = diff % Uint16Size
  /\ updating'  = FALSE
  /\ diff' = 0
  /\ UNCHANGED <<clock, lastTimeStamp, ticks>>

Next == ClockMoves \/ BeginUpdate \/ TickOnce \/ EndUpdate

Spec == Init /\ [][Next]_vars

-------------------------------------------------------------------------------
(* Properties.                                                             *)

\* Time not yet turned into ticks.
Pending == IF updating THEN diff ELSE remainder

\* No millisecond is lost or counted twice over any number of updates: what
\* has passed is the ticks made and the time pending, whatever the clock does.
TimeConserved == lastTimeStamp = StartTime + ticks * Interval + Pending

\* Between two updates at most one interval is pending, so that the cast to
\* uint16_t loses nothing and the wheel lags one interval at most.
LagBounded == ~updating => remainder <= Interval

ClockInv == TypeOK /\ TimeConserved /\ LagBounded
================================================================================

----------------------------- MODULE TimerService -----------------------------
(***************************************************************************)
(* The thread of TimerMgr::Start (TimerMgr.cpp:19-30) and the users of the *)
(* timer manager around m_timerMutex: who holds it and for how long, what  *)
(* a user's delay comes to on the clock of the system, and what ~TimerMgr  *)
(* leaves to the detached thread.                                          *)
(*                                                                         *)
(* TimerWheel_update is WheelClock; that a timer fires at the tick it was  *)
(* armed for is what TimerMgr shows of the wheel, and is taken from there. *)
(***************************************************************************)
EXTENDS WheelClock, FiniteSets

CONSTANTS Users,     \* threads that arm timers
          Delays,    \* values of delayTime_ms
          Dues,      \* values of dueTime_ms
          Nobody,    \* the mutex is free
          Ticker     \* the thread of TimerMgr::Start

ASSUME ServiceAssumption ==
  /\ Delays \subseteq Nat /\ Dues \subseteq Nat
  /\ Nobody \notin Users \cup {Ticker} /\ Ticker \notin Users

VARIABLES
  owner,    \* who holds m_timerMutex
  at,       \* where the tick thread is
  manager,  \* up; quitting: m_QuitExecuteThread is set; gone: destroyed
  late,     \* rounds the tick thread began after m_QuitExecuteThread was set
  waiting,  \* the users that wait for the mutex
  timer     \* the timer each user has armed and that has not fired

serviceVars == <<owner, at, manager, late, waiting, timer>>
allVars     == <<vars, serviceVars>>

\* Where the tick thread can be; "lost": it runs in a manager that is gone.
Places == {"test", "lock", "read", "update", "unlock", "stopped", "lost"}

\* No timer, or: the tick it expires at; and, in milliseconds, when it was
\* armed, after how long the user wants it, and how far the wheel lagged behind
\* the clock when it was armed.  The wheel knows the tick alone.
NoTimer == [expire |-> 0, armed |-> 0, delay |-> 0, lag |-> 0]
TimerRecord == [expire : Nat, armed : Nat, delay : Nat, lag : Nat]

ServiceTypeOK ==
  /\ TypeOK
  /\ owner \in Users \cup {Ticker, Nobody}
  /\ at \in Places
  /\ manager \in {"up", "quitting", "gone"}
  /\ late \in 0 .. 2
  /\ waiting \subseteq Users
  /\ timer \in [Users -> TimerRecord]
  /\ at # "lost" => (updating <=> at = "update")

ServiceInit ==
  /\ Init
  /\ owner = Nobody
  /\ at = "test"
  /\ manager = "up"
  /\ late = 0
  /\ waiting = {}
  /\ timer = [u \in Users |-> NoTimer]

-------------------------------------------------------------------------------
(* The tick thread.                                                        *)

Alive == manager # "gone"

\* Mutant: the flag is tested once, before the loop.
TestOnce ==
  /\ Alive
  /\ at = "test"
  /\ at' = "lock"
  /\ late' = IF manager = "quitting" /\ late < 2 THEN late + 1 ELSE late
  /\ UNCHANGED <<vars, owner, manager, waiting, timer>>

\* while (!m_QuitExecuteThread)
Test ==
  /\ Alive
  /\ at = "test"
  /\ at' = IF manager = "up" THEN "lock" ELSE "stopped"
  /\ UNCHANGED <<vars, owner, manager, late, waiting, timer>>

\* AutoLock takes the mutex.
TakeMutex ==
  /\ Alive
  /\ at = "lock"
  /\ owner = Nobody
  /\ owner' = Ticker
  /\ at' = "read"
  /\ late' = IF manager = "quitting" /\ late < 2 THEN late + 1 ELSE late
  /\ UNCHANGED <<vars, manager, waiting, timer>>

\* The clock is read under the mutex; one that is not ahead changes nothing.
StartUpdate ==
  /\ Alive
  /\ at = "read"
  /\ \/ BeginUpdate /\ at' = "update"
     \/ clock <= lastTimeStamp /\ at' = "unlock" /\ UNCHANGED vars
  /\ UNCHANGED <<owner, manager, late, waiting, timer>>

Fires(u) == timer[u] # NoTimer /\ timer[u].expire = ticks + 1

\* _TimerWheel_tick hands the timers of this tick to the pool.
TickFires ==
  /\ Alive
  /\ TickOnce
  /\ timer' = [u \in Users |-> IF Fires(u) THEN NoTimer ELSE timer[u]]
  /\ UNCHANGED <<owner, at, manager, late, waiting>>

FinishUpdate ==
  /\ Alive
  /\ EndUpdate
  /\ at' = "unlock"
  /\ UNCHANGED <<owner, manager, late, waiting, timer>>

\* Mutant: the AutoLock stands outside the loop.
ReleaseNever ==
  /\ Alive
  /\ at = "unlock"
  /\ at' = IF manager = "up" THEN "read" ELSE "stopped"
  /\ UNCHANGED <<vars, owner, manager, late, waiting, timer>>

\* The AutoLock goes out of scope at the end of the round.
ReleaseMutex ==
  /\ Alive
  /\ at = "unlock"
  /\ owner' = Nobody
  /\ at' = "test"
  /\ UNCHANGED <<vars, manager, late, waiting, timer>>

\* Whatever the thread does in a manager that is gone, beginning with the test
\* of the flag, reads or writes freed memory.
TouchesFreed ==
  /\ ~Alive
  /\ at \notin {"stopped", "lost"}
  /\ at' = "lost"
  /\ UNCHANGED <<vars, owner, manager, late, waiting, timer>>

TickThread == \/ Test \/ TakeMutex \/ StartUpdate \/ TickFires
              \/ FinishUpdate \/ ReleaseMutex \/ TouchesFreed

-------------------------------------------------------------------------------
(* The users and the owner of the manager.                                 *)

\* The ticks of a delay, in TimerMgr::AddTimer and TimerWheel_add.
TicksOf(delay) == IF delay \div Interval > 0 THEN delay \div Interval ELSE 1

\* A user of a manager that is being destroyed is an error of the user.
Ask(u) ==
  /\ manager = "up"
  /\ u \notin waiting
  /\ timer[u] = NoTimer
  /\ waiting' = waiting \cup {u}
  /\ UNCHANGED <<vars, owner, at, manager, late, timer>>

\* A user with the mutex arms its timer, at a time `from`, to go off after
\* delayTime_ms + dueTime_ms.  `from` is the time as far as anyone has seen it:
\* a clock that has gone back is behind the last update.
ArmAt(u, expire(_, _)) ==
  /\ u \in waiting
  /\ owner = Nobody
  /\ \E delay \in Delays, due \in Dues, from \in {clock, lastTimeStamp} :
       /\ from >= clock /\ from >= lastTimeStamp
       /\ timer' = [timer EXCEPT ![u] =
            [expire |-> expire(from, delay + due),
             armed  |-> from,
             delay  |-> delay + due,
             lag    |-> from - lastTimeStamp + remainder]]
  /\ waiting' = waiting \ {u}
  /\ UNCHANGED <<vars, owner, at, manager, late>>

\* Mutant: the expiry is counted from the time that has passed, not from the
\* tick the wheel stands at.
ArmFromClock(u) ==
  ArmAt(u, LAMBDA from, d : (from - StartTime) \div Interval + TicksOf(d))

\* Mutant: the tick the wheel stands at counts as the first.
ArmFromTickBefore(u) == ArmAt(u, LAMBDA from, d : ticks + TicksOf(d) - 1)

\* AddTimer from the AutoLock to its end.
Arm(u) == ArmAt(u, LAMBDA from, d : ticks + TicksOf(d))

\* ~TimerMgr sets the flag, when no user is left, ...
SetQuit ==
  /\ manager = "up"
  /\ waiting = {}
  /\ manager' = "quitting"
  /\ UNCHANGED <<vars, owner, at, late, waiting, timer>>

\* ... and the members go without a word to the thread.
Destroy ==
  /\ manager = "quitting"
  /\ manager' = "gone"
  /\ UNCHANGED <<vars, owner, at, late, waiting, timer>>

TimePasses == ClockMoves /\ UNCHANGED serviceVars

ServiceNext ==
  \/ TickThread
  \/ \E u \in Users : Ask(u) \/ Arm(u)
  \/ SetQuit \/ Destroy
  \/ TimePasses

ServiceSpec == ServiceInit /\ [][ServiceNext]_allVars

\* The tick thread is scheduled, and gets the mutex if it stays free.  Nothing
\* is assumed of who gets it when several want it: a critical section is not
\* handed out in turn.
FairServiceSpec == ServiceSpec /\ WF_allVars(TickThread)

-------------------------------------------------------------------------------
(* Properties.                                                             *)

\* What the division by the interval takes off a delay, at most.
Rounding == Interval - 1

AtLeast(x, y) == IF x > y THEN x ELSE y

\* A timer is less than one interval early, for every delay in milliseconds and
\* whether or not it is a whole number of intervals (the division of
\* TimerMgr.cpp:45 rounds down), and never goes off within one interval, but
\* for the time the wheel lagged behind when it was armed (TimerMgr.cpp:45
\* counts from the tick, not from the clock).
NotEarly ==
  [][\A u \in Users :
       timer[u] # NoTimer /\ timer'[u] = NoTimer =>
         lastTimeStamp' > timer[u].armed - timer[u].lag
                            + AtLeast(timer[u].delay - Rounding, Interval)]_allVars

\* Nor is it late: it does not outlive the first update that reads a time after
\* its delay, or after one interval if the delay is shorter, however long the
\* tick thread had to wait for the mutex and whatever the clock did.
NotOverdue ==
  \A u \in Users :
    timer[u] # NoTimer /\ ~updating =>
      lastTimeStamp <= timer[u].armed - timer[u].lag
                         + AtLeast(timer[u].delay, Interval)

\* No round of the tick thread keeps the users out for ever, however many ticks
\* it has to make up for: while a user waits the mutex becomes free
\* (TimerMgr.cpp:22-26).  Whether that user is the one to get it, before the
\* thread takes it again at once, is up to Windows.
MutexComesFree == \A u \in Users : u \in waiting ~> owner = Nobody

\* Once the flag is set the thread begins one more round at most
\* (TimerMgr.cpp:14, 22).
OneMoreRound == late <= 1
================================================================================

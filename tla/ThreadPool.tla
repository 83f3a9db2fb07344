------------------------------ MODULE ThreadPool ------------------------------
(***************************************************************************)
(* The dispatch of ThreadPool::AddTask (ThreadPool.cpp:33-58) over the     *)
(* threads of the pool.  The index is read and reset by one compare-and-   *)
(* exchange and advanced by a separate increment, so that two calls may    *)
(* interleave between them.  A thread of the pool is the serial executor   *)
(* TaskQueue, which PoolThread implements.                                 *)
(***************************************************************************)
EXTENDS Integers, Sequences, FiniteSets

CONSTANTS NumThread,  \* m_numThread
          DwordSize,  \* the number of values of the DWORD m_threadIndex
          Calls,      \* the calls of AddTask, one callback each
          NoCall      \* no callback is being called

\* The constructor caps m_numThread at MAX_THREADCNT, far below 2^32.
ASSUME NumThreadAssumption == NumThread \in Nat \ {0}
ASSUME DwordAssumption     == DwordSize \in Nat /\ NumThread < DwordSize
ASSUME NoCallAssumption    == NoCall \notin Calls

VARIABLES
  threadIndex,  \* m_threadIndex
  pc,           \* where each call stands in AddTask
  slot,         \* its local variable desired
  waiting,      \* the callbacks each thread has accepted, in order
  running,      \* the callback each thread is calling, or NoCall
  done,         \* the callbacks that have returned
  crashed       \* the read past the end of m_threadList ended the process

index   == <<threadIndex, pc, slot>>
threads == <<waiting, running, done>>
vars    == <<index, threads, crashed>>

Threads == 0 .. NumThread - 1
Dword   == 0 .. DwordSize - 1
Stages  == {"idle", "increment", "post", "returned", "dropped"}

TypeOK ==
  /\ threadIndex \in Dword
  /\ pc \in [Calls -> Stages]
  /\ slot \in [Calls -> Dword]
  /\ waiting \in [Threads -> Seq(Calls)]
  /\ running \in [Threads -> Calls \cup {NoCall}]
  /\ done \subseteq Calls
  /\ crashed \in BOOLEAN

\* The constructor, and Start, which creates the threads.
Init ==
  /\ threadIndex = 0
  /\ pc = [c \in Calls |-> "idle"]
  /\ slot = [c \in Calls |-> 0]
  /\ waiting = [t \in Threads |-> <<>>]
  /\ running = [t \in Threads |-> NoCall]
  /\ done = {}
  /\ crashed = FALSE

-------------------------------------------------------------------------------
\* Mutant: the end of the list is taken one slot too early.
IndexAtEndEarly == threadIndex = NumThread - 1

\* What the compare-and-exchange expects.
IndexAtEnd == threadIndex = NumThread

\* atomic_compare_exchange_strong succeeds: the index goes back to 0, and 0 is
\* the slot of this call.
ResetIndex(c) ==
  /\ pc[c] = "idle"
  /\ IndexAtEnd
  /\ threadIndex' = 0
  /\ slot' = [slot EXCEPT ![c] = 0]
  /\ pc'   = [pc EXCEPT ![c] = "post"]
  /\ UNCHANGED <<threads, crashed>>

\* It fails: expect, and then desired, is the index that was read.
ReadIndex(c) ==
  /\ pc[c] = "idle"
  /\ ~IndexAtEnd
  /\ slot' = [slot EXCEPT ![c] = threadIndex]
  /\ pc'   = [pc EXCEPT ![c] = "increment"]
  /\ UNCHANGED <<threadIndex, threads, crashed>>

\* The increment of a DWORD wraps.
DwordSuccessor == IF threadIndex = DwordSize - 1 THEN 0 ELSE threadIndex + 1

\* m_threadIndex++ on the index as it now is.
IncrementIndex(c) ==
  /\ pc[c] = "increment"
  /\ threadIndex' = DwordSuccessor
  /\ pc' = [pc EXCEPT ![c] = "post"]
  /\ UNCHANGED <<slot, threads, crashed>>

\* Mutant: the callback replaces the ones that wait.
PostTaskOverwrites(c) ==
  /\ pc[c] = "post"
  /\ slot[c] \in Threads
  /\ waiting' = [waiting EXCEPT ![slot[c]] = <<c>>]
  /\ pc' = [pc EXCEPT ![c] = "returned"]
  /\ UNCHANGED <<threadIndex, slot, running, done, crashed>>

\* m_threadList[desired] accepts the callback.
PostTask(c) ==
  /\ pc[c] = "post"
  /\ slot[c] \in Threads
  /\ waiting' = [waiting EXCEPT ![slot[c]] = Append(@, c)]
  /\ pc' = [pc EXCEPT ![c] = "returned"]
  /\ UNCHANGED <<threadIndex, slot, running, done, crashed>>

\* m_threadList[desired] reads past the end of the vector: what it finds there
\* is null, and the callback is dropped, or the process ends.
PostPastEnd(c) ==
  /\ pc[c] = "post"
  /\ slot[c] \notin Threads
  /\ \/ pc' = [pc EXCEPT ![c] = "dropped"] /\ UNCHANGED crashed
     \/ crashed' = TRUE /\ UNCHANGED pc
  /\ UNCHANGED <<threadIndex, slot, threads>>

-------------------------------------------------------------------------------
(* The threads, as TaskQueue promises.                                     *)

Start(t) ==
  /\ running[t] = NoCall
  /\ waiting[t] # <<>>
  /\ running' = [running EXCEPT ![t] = Head(waiting[t])]
  /\ waiting' = [waiting EXCEPT ![t] = Tail(@)]
  /\ UNCHANGED <<index, done, crashed>>

Finish(t) ==
  /\ running[t] # NoCall
  /\ done'    = done \cup {running[t]}
  /\ running' = [running EXCEPT ![t] = NoCall]
  /\ UNCHANGED <<index, waiting, crashed>>

-------------------------------------------------------------------------------
AddTask(c) ==
  \/ ResetIndex(c) \/ ReadIndex(c) \/ IncrementIndex(c)
  \/ PostTask(c) \/ PostPastEnd(c)

\* Nobody else is inside AddTask: TimerMgr calls it under m_timerMutex
\* (TimerMgr.cpp:24), StartServer from one loop (TcpThreadServer.cpp:66-73).
Alone(c) == \A d \in Calls \ {c} : pc[d] \in {"idle", "returned", "dropped"}

SerialCall(c) == ~crashed /\ Alone(c) /\ AddTask(c)

\* Calls of any thread at any time, as the socket handlers make them through
\* OnMsg (TcpThreadServer.cpp:206-214).
Next ==
  /\ ~crashed
  /\ \/ \E c \in Calls : AddTask(c)
     \/ \E t \in Threads : Start(t) \/ Finish(t)

SerialNext ==
  \/ \E c \in Calls : SerialCall(c)
  \/ \E t \in Threads : Start(t) \/ Finish(t)

Spec       == Init /\ [][Next]_vars
SerialSpec == Init /\ [][SerialNext]_vars

\* A call that has begun goes on; a thread that can call a callback does, and
\* a callback returns.
FairSpec ==
  /\ Spec
  /\ \A c \in Calls : WF_vars(~crashed /\ pc[c] # "idle" /\ AddTask(c))
  /\ \A t \in Threads : WF_vars(~crashed /\ (Start(t) \/ Finish(t)))

-------------------------------------------------------------------------------
(* Properties.                                                             *)

\* When calls do not overlap, every slot is one of the pool's: the index is
\* past the last thread only between the last increment and the reset.
SlotInRange == \A c \in Calls : pc[c] = "post" => slot[c] \in Threads

\* What that takes: one call is between its read and its increment at a time,
\* so the index it read is the index it advances.
SerialInv ==
  /\ threadIndex \in 0 .. NumThread
  /\ \A c, d \in Calls :
       pc[c] \in {"increment", "post"} /\ pc[d] \in {"increment", "post"}
         => c = d
  /\ \A c \in Calls :
       pc[c] = "increment" => slot[c] = threadIndex /\ slot[c] \in Threads
  /\ SlotInRange
  /\ ~crashed

\* The load of the threads when calls do not overlap.  The call that resets the
\* index takes slot 0 and so does the next one: thread 0 gets up to twice
\* what another one gets, and the others differ by one at most.
Load(t) == Cardinality({c \in Calls : pc[c] = "returned" /\ slot[c] = t})

DispatchSkew ==
  \A s, t \in Threads \ {0} :
    /\ Load(t) <= Load(0)
    /\ Load(0) <= 2 * Load(t) + 1
    /\ Load(s) <= Load(t) + 1

\* StartServer posts one handler for each thread, and a handler does not return
\* while the server runs (TcpThreadServer.cpp:66-73): no two of them may be
\* given to one thread.  The second one would never be called.
HandlersApart ==
  Cardinality({c \in Calls : pc[c] # "idle"}) <= NumThread =>
    \A t \in Threads : Load(t) <= 1

\* However the calls interleave, a callback whose slot is in range is called
\* and returns, unless another call has ended the process.
InRangeCallRuns ==
  \A c \in Calls :
    (pc[c] = "post" /\ slot[c] \in Threads) ~> (c \in done \/ crashed)
================================================================================

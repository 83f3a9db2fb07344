------------------------------ MODULE PoolThread ------------------------------
(***************************************************************************)
(* One thread of the pool: Thread (Thread.cpp), its default ThreadTask     *)
(* (ThreadTask.cpp) and its Event (Event.cpp), with the callers of         *)
(* ThreadPool::AddTask that were dispatched to it (ThreadPool.cpp:44-57)   *)
(* and the owner that deletes it (ThreadPool::RemoveAllThread).            *)
(*                                                                         *)
(* Every access to a shared object is a step of its own: the two atomic    *)
(* flags, the kernel event, and the callback list under its mutex.  A      *)
(* callback is a member of Tasks; what it does is left out.                *)
(***************************************************************************)
EXTENDS Sequences

CONSTANTS Tasks,    \* the AddTask calls dispatched to this thread
          NoTask    \* no callback is being called

ASSUME NoTaskAssumption == NoTask \notin Tasks

VARIABLES
  event,         \* Thread::m_event is signalled (manual-reset event)
  threadQuit,    \* Thread::m_quit
  taskQuit,      \* ThreadTask::m_quit: no Execute is under way
  callbackList,  \* ThreadTask::m_callbackList
  tmpQueue,      \* the local queue of Execute
  called,        \* the callback Execute is calling, or NoTask
  finished,      \* the callbacks that have returned, in order
  caller,        \* where each caller stands in ThreadPool::AddTask
  worker,        \* where the thread stands in Run and Execute
  remover,       \* where RemoveAllThread stands in delete m_threadList[i]
  memory         \* how much of the Thread object has been torn down

queues     == <<callbackList, tmpQueue, called, finished>>
flags      == <<threadQuit, taskQuit>>
threadVars == <<event, flags, queues, caller, worker, remover, memory>>

CallerStates == {"idle", "found", "pushed", "returned", "dropped", "fault"}
WorkerStates == {"loop", "nullTest", "statTest", "wait", "blocked", "reset",
                 "execute", "swap", "drain", "callback", "exited", "fault"}
OwnerStates  == {"idle", "setTaskQuit", "join", "blocked", "reset", "signal",
                 "deleteTask", "nullTask", "deleteThread", "nullSlot", "done"}
\* In the order in which Quit, the destructor and RemoveAllThread reach them.
MemoryStates == {"live", "taskFreed", "taskNull", "threadFreed", "slotNull"}

ThreadTypeOK ==
  /\ event \in BOOLEAN
  /\ threadQuit \in BOOLEAN
  /\ taskQuit \in BOOLEAN
  /\ callbackList \in Seq(Tasks)
  /\ tmpQueue \in Seq(Tasks)
  /\ called \in Tasks \cup {NoTask}
  /\ finished \in Seq(Tasks)
  /\ caller \in [Tasks -> CallerStates]
  /\ worker \in WorkerStates
  /\ remover \in OwnerStates
  /\ memory \in MemoryStates

ThreadInit ==
  /\ event = FALSE
  /\ threadQuit = FALSE
  /\ taskQuit = TRUE
  /\ callbackList = <<>>
  /\ tmpQueue = <<>>
  /\ called = NoTask
  /\ finished = <<>>
  /\ caller = [c \in Tasks |-> "idle"]
  /\ worker = "loop"
  /\ remover = "idle"
  /\ memory = "live"

-------------------------------------------------------------------------------
(* The serial executor this thread implements: its queue is what the two   *)
(* queues of the thread hold, the local one first, and Quit closes it.     *)
TQ == INSTANCE TaskQueue WITH
        Calls <- Tasks, NoCall <- NoTask, running <- called, done <- finished,
        waiting <- tmpQueue \o callbackList, open <- ~threadQuit

-------------------------------------------------------------------------------
(* Memory.  An access to an object that has been deleted either finds the  *)
(* old contents or is a fault, after which nothing is known of that actor. *)

ThreadFreed == memory \in {"threadFreed", "slotNull"}
TaskFreed   == memory # "live"

(* The event.  SetEvent releases the threads blocked on it at once, so a   *)
(* ResetEvent that follows cannot take the wake-up away from them.         *)

Released(state) == IF state = "blocked" THEN "reset" ELSE state

Signal ==
  /\ event'   = TRUE
  /\ worker'  = Released(worker)
  /\ remover' = Released(remover)

-------------------------------------------------------------------------------
(* The callers: ThreadPool::AddTask once the slot is chosen.               *)

\* m_threadList[desired] and GetThreadTask, with the two null tests.
FindTask(c) ==
  /\ caller[c] = "idle"
  /\ \/ /\ memory \in {"live", "taskFreed", "threadFreed"}
        /\ caller' = [caller EXCEPT ![c] = "found"]
     \/ /\ memory \in {"taskNull", "threadFreed", "slotNull"}
        /\ caller' = [caller EXCEPT ![c] = "dropped"]
     \/ /\ memory = "threadFreed"
        /\ caller' = [caller EXCEPT ![c] = "fault"]
  /\ UNCHANGED <<event, flags, queues, worker, remover, memory>>

\* ThreadTask::AddTask, under the mutex of the task.
Push(c) ==
  /\ caller[c] = "found"
  /\ callbackList' = Append(callbackList, c)
  /\ caller' = [caller EXCEPT ![c] = "pushed"]
  /\ UNCHANGED <<event, flags, tmpQueue, called, finished, worker, remover,
                 memory>>

\* pThread->Signal().
SignalThread(c) ==
  /\ caller[c] = "pushed"
  /\ Signal
  /\ caller' = [caller EXCEPT ![c] = "returned"]
  /\ UNCHANGED <<flags, queues, memory>>

\* The task, or the thread and its event, were deleted under the caller.
CallerFault(c) ==
  /\ \/ caller[c] = "found" /\ TaskFreed
     \/ caller[c] = "pushed" /\ ThreadFreed
  /\ caller' = [caller EXCEPT ![c] = "fault"]
  /\ UNCHANGED <<event, flags, queues, worker, remover, memory>>

-------------------------------------------------------------------------------
(* The thread: Thread::Run.                                                *)

\* while (!m_quit.load())
LoopTest ==
  /\ worker = "loop"
  /\ worker' = IF threadQuit THEN "exited" ELSE "nullTest"
  /\ UNCHANGED <<event, flags, queues, caller, remover, memory>>

\* m_task == nullptr ||
NullTest ==
  /\ worker = "nullTest"
  /\ worker' = IF memory \in {"live", "taskFreed"} THEN "statTest" ELSE "wait"
  /\ UNCHANGED <<event, flags, queues, caller, remover, memory>>

\* m_task->GetQuitStat()
StatTest ==
  /\ worker = "statTest"
  /\ memory \in {"live", "taskFreed"}
  /\ worker' = IF taskQuit THEN "wait" ELSE "execute"
  /\ UNCHANGED <<event, flags, queues, caller, remover, memory>>

\* Join(INFINITE): WaitForSingleObject returns at once or blocks.  The wait
\* on the handle that ~Event has closed fails at once.
WaitEvent ==
  /\ worker = "wait"
  /\ worker' = IF event \/ ThreadFreed THEN "reset" ELSE "blocked"
  /\ UNCHANGED <<event, flags, queues, caller, remover, memory>>

\* ResetEvent, on the way out of Event::Wait.
ResetEvent ==
  /\ worker = "reset"
  /\ event'  = FALSE
  /\ worker' = "execute"
  /\ UNCHANGED <<flags, queues, caller, remover, memory>>

\* m_task->Execute(nullptr), up to m_quit.store(false).
EnterExecute ==
  /\ worker = "execute"
  /\ memory \in {"live", "taskFreed"}
  /\ taskQuit' = FALSE
  /\ worker'   = "swap"
  /\ UNCHANGED <<event, threadQuit, queues, caller, remover, memory>>

\* tmpQueue.swap(m_callbackList), under the mutex of the task.
SwapQueues ==
  /\ worker = "swap"
  /\ tmpQueue'     = callbackList
  /\ callbackList' = tmpQueue
  /\ worker' = "drain"
  /\ UNCHANGED <<event, flags, called, finished, caller, remover, memory>>

\* front and pop, then the callback is entered.
TakeCallback ==
  /\ worker = "drain"
  /\ tmpQueue # <<>>
  /\ called'   = Head(tmpQueue)
  /\ tmpQueue' = Tail(tmpQueue)
  /\ worker'   = "callback"
  /\ UNCHANGED <<event, flags, callbackList, finished, caller, remover, memory>>

CallbackReturns ==
  /\ worker = "callback"
  /\ finished' = Append(finished, called)
  /\ called'   = NoTask
  /\ worker'   = "drain"
  /\ UNCHANGED <<event, flags, callbackList, tmpQueue, caller, remover, memory>>

\* Mutant: the event is reset after the work instead of before it.
LeaveExecuteResets ==
  /\ worker = "drain"
  /\ tmpQueue = <<>>
  /\ event'    = FALSE
  /\ taskQuit' = TRUE
  /\ worker'   = "loop"
  /\ UNCHANGED <<threadQuit, queues, caller, remover, memory>>

\* m_quit.store(true), the end of Execute.
LeaveExecute ==
  /\ worker = "drain"
  /\ tmpQueue = <<>>
  /\ taskQuit' = TRUE
  /\ worker'   = "loop"
  /\ UNCHANGED <<event, threadQuit, queues, caller, remover, memory>>

\* The thread reads its Thread or ThreadTask after it was deleted, or calls
\* Execute through the pointer Quit has cleared.
WorkerFault ==
  /\ \/ worker \in {"loop", "nullTest", "wait", "reset"} /\ ThreadFreed
     \/ worker \in {"statTest", "execute", "swap"} /\ TaskFreed
     \/ worker = "drain" /\ tmpQueue = <<>> /\ TaskFreed
  /\ worker' = "fault"
  /\ UNCHANGED <<event, flags, queues, caller, remover, memory>>

-------------------------------------------------------------------------------
(* The owner: RemoveAllThread deletes the thread, whose destructor quits.  *)

\* m_quit.store(true); m_task is the default task and is not null.
BeginQuit ==
  /\ remover = "idle"
  /\ threadQuit' = TRUE
  /\ remover'    = "setTaskQuit"
  /\ UNCHANGED <<event, taskQuit, queues, caller, worker, memory>>

SetTaskQuit ==
  /\ remover = "setTaskQuit"
  /\ taskQuit' = TRUE
  /\ remover'  = "join"
  /\ UNCHANGED <<event, threadQuit, queues, caller, worker, memory>>

\* Join(2000) waits for the event the thread itself waits for.
JoinEvent ==
  /\ remover = "join"
  /\ remover' = IF event THEN "reset" ELSE "blocked"
  /\ UNCHANGED <<event, flags, queues, caller, worker, memory>>

JoinTimeout ==
  /\ remover = "blocked"
  /\ remover' = "reset"
  /\ UNCHANGED <<event, flags, queues, caller, worker, memory>>

JoinReset ==
  /\ remover = "reset"
  /\ event' = FALSE
  /\ remover' = "signal"
  /\ UNCHANGED <<flags, queues, caller, worker, memory>>

\* Mutant: Quit deletes without signalling.
QuitSignalSilent ==
  /\ remover = "signal"
  /\ remover' = "deleteTask"
  /\ UNCHANGED <<event, flags, queues, caller, worker, memory>>

QuitSignal ==
  /\ remover = "signal"
  /\ event'   = TRUE
  /\ worker'  = Released(worker)
  /\ remover' = "deleteTask"
  /\ UNCHANGED <<flags, queues, caller, memory>>

\* delete m_task: the callbacks still in its list are destroyed with it.
DeleteTask ==
  /\ remover = "deleteTask"
  /\ memory'       = "taskFreed"
  /\ callbackList' = <<>>
  /\ remover'      = "nullTask"
  /\ UNCHANGED <<event, flags, tmpQueue, called, finished, caller, worker>>

ClearTask ==
  /\ remover = "nullTask"
  /\ memory'  = "taskNull"
  /\ remover' = "deleteThread"
  /\ UNCHANGED <<event, flags, queues, caller, worker>>

\* The end of ~Thread: ~Event closes the handle and the object is freed.
DeleteThread ==
  /\ remover = "deleteThread"
  /\ memory'  = "threadFreed"
  /\ remover' = "nullSlot"
  /\ UNCHANGED <<event, flags, queues, caller, worker>>

\* m_threadList[i] = nullptr
ClearSlot ==
  /\ remover = "nullSlot"
  /\ memory'  = "slotNull"
  /\ remover' = "done"
  /\ UNCHANGED <<event, flags, queues, caller, worker>>

-------------------------------------------------------------------------------
Caller(c) == FindTask(c) \/ Push(c) \/ SignalThread(c) \/ CallerFault(c)

\* Run and Execute, from the first test of m_quit to the end of the thread.
Worker ==
  \/ LoopTest \/ NullTest \/ StatTest \/ WaitEvent \/ ResetEvent
  \/ EnterExecute \/ SwapQueues \/ TakeCallback \/ CallbackReturns
  \/ LeaveExecute \/ WorkerFault

\* ThreadPool::RemoveAllThread for this thread, with Thread::Quit inlined.
Owner ==
  \/ BeginQuit \/ SetTaskQuit \/ JoinEvent \/ JoinTimeout \/ JoinReset
  \/ QuitSignal \/ DeleteTask \/ ClearTask \/ DeleteThread \/ ClearSlot

ThreadNext == Worker \/ (\E c \in Tasks : Caller(c)) \/ Owner

ThreadSpec == ThreadInit /\ [][ThreadNext]_threadVars

\* The owner's 2000 ms never run out.
PatientSpec == ThreadInit /\ [][ThreadNext /\ ~JoinTimeout]_threadVars

\* The scheduler starves no thread, every callback returns, a caller that has
\* found the task goes on, and so does Quit once it has begun.
ThreadFairSpec ==
  /\ ThreadSpec
  /\ WF_threadVars(Worker)
  /\ \A c \in Tasks :
       WF_threadVars(Push(c) \/ SignalThread(c) \/ CallerFault(c))
  /\ WF_threadVars(Owner /\ remover # "idle")

-------------------------------------------------------------------------------
(* Properties.                                                             *)

OwnerPastSignal ==
  remover \in {"deleteTask", "nullTask", "deleteThread", "nullSlot", "done"}

\* No lost wake-up: the thread never sleeps on a callback unless an actor that
\* has still to set the event is on its way.  (Event.cpp:7 resets the event
\* after the wait and before Execute swaps, so a signal that the reset loses
\* is that of a callback the swap finds; Quit resets the same event,
\* Thread.cpp:91, and then signals.)
NoLostWakeup ==
  callbackList # <<>> /\ worker = "blocked" =>
    \/ \E c \in Tasks : caller[c] = "pushed"
    \/ remover = "signal"

\* Once Quit has signalled (Thread.cpp:92) the thread does not sleep, and so
\* never waits on the event that ~Event closes.
AwakeAfterQuit == OwnerPastSignal => worker # "blocked"

\* The invariant both follow from.
WakeupPending ==
  \/ event
  \/ worker \in {"reset", "execute", "swap"}
  \/ \E c \in Tasks : caller[c] = "pushed"
  \/ remover = "signal"

\* Between two Executes the local queue is empty and no callback runs.
LocalQueueInv ==
  /\ worker \notin {"drain", "callback"} => tmpQueue = <<>>
  /\ worker = "callback" <=> called # NoTask

\* Only a callback whose push was made is anywhere in the queues.
HasPushed == {c \in Tasks : caller[c] \in {"pushed", "returned", "fault"}}

PushedInv ==
  /\ callbackList \in Seq(HasPushed)
  /\ tmpQueue \in Seq(HasPushed)
  /\ called \in HasPushed \cup {NoTask}
  /\ finished \in Seq(HasPushed)

\* Quit raises m_quit first, and nothing is deleted before it has signalled.
QuitInv ==
  /\ remover # "idle" => threadQuit
  /\ memory # "live" => OwnerPastSignal
  /\ ThreadFreed => remover \in {"nullSlot", "done"}

\* What keeps the thread awake, before and after Quit has signalled.
WakeupInv ==
  /\ worker = "blocked" => ~event
  /\ callbackList # <<>> => WakeupPending \/ OwnerPastSignal
  /\ OwnerPastSignal /\ worker \in {"nullTest", "statTest", "wait", "blocked"}
       => event

ThreadInv == ThreadTypeOK /\ LocalQueueInv /\ QuitInv /\ WakeupInv

\* Every callback whose push was made is called, in the order of the pushes
\* and one at a time (ThreadTask.cpp:18-23): the thread implements the serial
\* executor of TaskQueue.  While it is in service no callback is lost, and each
\* is called in the end; what Quit leaves behind is never called out of turn.
ImplementsTaskQueue     == TQ!Spec
ImplementsFairTaskQueue == TQ!FairSpec

\* Quit never leaves the thread asleep: once ~Thread is over, Run ends, or
\* touches freed memory (Thread.cpp:34 and 92).
QuitReleasesWorker == (remover = "done") ~> (worker \in {"exited", "fault"})

\* "the main thread waits for the child thread to finish" (Thread.cpp:91, in
\* Chinese): the task is freed only after Run has ended.
QuitWaitsForWorker == memory # "live" => worker = "exited"
================================================================================

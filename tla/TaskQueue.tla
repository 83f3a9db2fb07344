------------------------------- MODULE TaskQueue -------------------------------
(***************************************************************************)
(* What one thread of the pool promises to the callers of                  *)
(* ThreadPool::AddTask: a serial FIFO executor.  Every callback it accepts *)
(* is called exactly once, one at a time, in the order of acceptance.      *)
(* Once it is closed, callbacks that wait may be dropped from the end of   *)
(* the queue, but none is called twice or out of turn.  PoolThread is      *)
(* shown to implement this module.                                         *)
(***************************************************************************)
EXTENDS Naturals, Sequences

CONSTANTS Calls,    \* the AddTask calls made on the thread, one callback each
          NoCall    \* no callback is being called

VARIABLES waiting,  \* accepted callbacks that have not been called, in order
          running,  \* the callback being called, or NoCall
          done,     \* the callbacks that have returned, in order
          open      \* the thread has not been told to quit

vars == <<waiting, running, done, open>>

ElementsOf(s) == {s[i] : i \in DOMAIN s}

Init ==
  /\ waiting = <<>>
  /\ running = NoCall
  /\ done    = <<>>
  /\ open    = TRUE

\* A callback is accepted at most once and joins the end of the queue.
Accept(c) ==
  /\ c \notin ElementsOf(waiting) \cup {running} \cup ElementsOf(done)
  /\ waiting' = Append(waiting, c)
  /\ UNCHANGED <<running, done, open>>

\* The oldest callback is called when no other one is running.
Start ==
  /\ running = NoCall
  /\ waiting # <<>>
  /\ running' = Head(waiting)
  /\ waiting' = Tail(waiting)
  /\ UNCHANGED <<done, open>>

Finish ==
  /\ running # NoCall
  /\ done'    = Append(done, running)
  /\ running' = NoCall
  /\ UNCHANGED <<waiting, open>>

\* Thread::Quit.
Close ==
  /\ open
  /\ open' = FALSE
  /\ UNCHANGED <<waiting, running, done>>

\* A closed executor keeps the callbacks before some point of its queue.
Discard ==
  /\ ~open
  /\ \E n \in 0 .. Len(waiting) : waiting' = SubSeq(waiting, 1, n)
  /\ UNCHANGED <<running, done, open>>

Next ==
  \/ \E c \in Calls : Accept(c)
  \/ Start
  \/ Finish
  \/ Close
  \/ Discard

Spec == Init /\ [][Next]_vars

\* An open executor calls what it has accepted.
FairSpec == Spec /\ WF_vars(open /\ Start) /\ WF_vars(open /\ Finish)
================================================================================

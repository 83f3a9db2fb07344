------------------------------ MODULE ServerLife ------------------------------
(***************************************************************************)
(* The life of a TcpThreadServer (TcpThreadServer.cpp:17-103, 334-337):    *)
(* StartServer hands one never-returning SocketHandler to the pool for     *)
(* each thread it was asked for and accepts connections until CloseServer; *)
(* the destructor tells the handlers to quit, posts a null packet for each *)
(* of them, removes the threads and closes the completion port.  The       *)
(* thread that runs StartServer, the handlers and the owner of the object  *)
(* interleave.  The pool is ThreadPool, whose calls here do not overlap.   *)
(***************************************************************************)
EXTENDS Integers, Sequences, FiniteSets

CONSTANTS Calls,         \* the handlers 1 .. m_threadNum, one AddTask each
          NumThread,     \* the threads of m_sockHandleThreadPool
          MaxThreadCnt,  \* MAX_THREADCNT
          DwordSize, NoCall,
          MaxPackets     \* bound: the completions of connections

ThreadNum == Cardinality(Calls)

\* A server that was asked for no handler serves nothing and is left out.
ASSUME HandlersAssumption ==
  ThreadNum \in Nat \ {0} /\ Calls = 1 .. ThreadNum /\ NoCall \notin Calls
ASSUME CapAssumption ==
  /\ NumThread = IF ThreadNum > MaxThreadCnt THEN MaxThreadCnt ELSE ThreadNum
  /\ MaxThreadCnt \in Nat \ {0} /\ DwordSize \in Nat /\ MaxThreadCnt < DwordSize
ASSUME PacketsAssumption == MaxPackets \in Nat

VARIABLES
  threadIndex, pc, slot, waiting, running, done, crashed,  \* of ThreadPool
  listener,  \* the position of the thread of the server in StartServer
  started,   \* m_started
  closing,   \* CloseServer: not called, called before m_started was set, after
  owner,     \* the position of the owner in the destructor
  turn,      \* the handler that the loop of the destructor is at
  quit,      \* the handlers whose m_quit is set
  at,        \* the position of each handler in Execute
  port,      \* the packets in the completion port
  arrived,   \* how many packets of connections have come
  stolen,    \* history: null packets taken by a handler that had not to quit
  removed    \* the threads deleted by RemoveAllThread

Pool == INSTANCE ThreadPool

index  == <<threadIndex, pc, slot>>
pool   == <<index, waiting, running, done, crashed>>
server == <<listener, started, closing>>
ending == <<owner, turn, quit, removed>>
iocp   == <<at, port, arrived, stolen>>
vars   == <<pool, server, ending, iocp>>

Threads == Pool!Threads
Packets == {"null", "io"}

TypeOK ==
  /\ Pool!TypeOK
  /\ listener \in {"init", "posting", "accepting", "returned"}
  /\ started \in BOOLEAN
  /\ closing \in {"no", "early", "late"}
  /\ owner \in {"using", "quit", "wake", "remove", "close", "gone"}
  /\ turn \in 1 .. ThreadNum + 1
  /\ quit \subseteq Calls
  /\ at \in [Calls -> {"out", "test", "get", "serve"}]
  /\ port \in Seq(Packets)
  /\ arrived \in 0 .. MaxPackets
  /\ stolen \in 0 .. ThreadNum
  /\ removed \subseteq Threads

Init ==
  /\ Pool!Init
  /\ listener = "init" /\ started = FALSE /\ closing = "no"
  /\ owner = "using" /\ turn = 1 /\ quit = {} /\ removed = {}
  /\ at = [c \in Calls |-> "out"]
  /\ port = <<>> /\ arrived = 0 /\ stolen = 0

-------------------------------------------------------------------------------
(* The thread of the server: Run, StartServer, HandleNewConn.              *)

\* Init opens the port and the listening socket, and the pools are made; or it
\* fails, and there is no pool.
InitServer ==
  /\ listener = "init"
  /\ listener' \in {"posting", "returned"}
  /\ UNCHANGED <<pool, started, closing, ending, iocp>>

\* The loop hands over the handlers one after the other.
PostHandler(c) ==
  /\ listener = "posting"
  /\ \A d \in 1 .. c - 1 : pc[d] \in {"returned", "dropped"}
  /\ Pool!SerialCall(c)
  /\ UNCHANGED <<server, ending, iocp>>

SetStarted ==
  /\ listener = "posting"
  /\ \A c \in Calls : pc[c] \in {"returned", "dropped"}
  /\ started'  = TRUE
  /\ listener' = "accepting"
  /\ UNCHANGED <<pool, closing, ending, iocp>>

\* A connection comes, and with it a completion; or its socket cannot be
\* associated, and HandleNewConn gives up.
Accept ==
  /\ listener = "accepting" /\ started
  /\ \/ /\ arrived < MaxPackets
        /\ arrived' = arrived + 1
        /\ port'    = Append(port, "io")
        /\ UNCHANGED listener
     \/ listener' = "returned" /\ UNCHANGED <<arrived, port>>
  /\ UNCHANGED <<pool, started, closing, ending, at, stolen>>

\* The listening socket does not block, so that the loop always comes back to
\* m_started.
AcceptEnds ==
  /\ listener = "accepting" /\ ~started
  /\ listener' = "returned"
  /\ UNCHANGED <<pool, started, closing, ending, iocp>>

Listener ==
  \/ InitServer
  \/ \E c \in Calls : PostHandler(c)
  \/ SetStarted
  \/ Accept
  \/ AcceptEnds

-------------------------------------------------------------------------------
(* The owner: CloseServer and the destructor.                              *)

CloseServer ==
  /\ owner = "using" /\ closing = "no"
  /\ started' = FALSE
  /\ closing' = IF listener \in {"init", "posting"} THEN "early" ELSE "late"
  /\ UNCHANGED <<pool, listener, ending, iocp>>

\* The destructor starts once the handlers have been posted, or without a
\* pool: then it follows a null pointer.
Destroy ==
  /\ owner = "using"
  /\ listener # "posting"
  /\ IF \E c \in Calls : pc[c] # "idle"
       THEN owner' = "quit" /\ UNCHANGED crashed
       ELSE crashed' = TRUE /\ UNCHANGED owner
  /\ UNCHANGED <<index, waiting, running, done, turn, quit, removed, server, iocp>>

QuitHandler ==
  /\ owner = "quit"
  /\ quit'  = quit \cup {turn}
  /\ owner' = "wake"
  /\ UNCHANGED <<pool, server, turn, removed, iocp>>

\* Mutant: the loop goes one past the last handler.
WakeHandlerPastEnd ==
  /\ owner = "wake"
  /\ port'  = Append(port, "null")
  /\ turn'  = turn + 1
  /\ owner' = IF turn > ThreadNum THEN "remove" ELSE "quit"
  /\ UNCHANGED <<pool, server, quit, removed, at, arrived, stolen>>

\* Mutant: one packet to wake them all.
WakeHandlerOnce ==
  /\ owner = "wake"
  /\ port'  = IF turn = 1 THEN Append(port, "null") ELSE port
  /\ turn'  = turn + 1
  /\ owner' = IF turn = ThreadNum THEN "remove" ELSE "quit"
  /\ UNCHANGED <<pool, server, quit, removed, at, arrived, stolen>>

WakeHandler ==
  /\ owner = "wake"
  /\ port'  = Append(port, "null")
  /\ turn'  = turn + 1
  /\ owner' = IF turn = ThreadNum THEN "remove" ELSE "quit"
  /\ UNCHANGED <<pool, server, quit, removed, at, arrived, stolen>>

\* RemoveAllThread deletes one thread after the other.
RemoveThread ==
  /\ owner = "remove"
  /\ IF removed = Threads
       THEN owner' = "close" /\ UNCHANGED removed
       ELSE removed' = removed \cup {Cardinality(removed)} /\ UNCHANGED owner
  /\ UNCHANGED <<pool, server, turn, quit, iocp>>

\* CloseHandle on the port; the packets in it are lost.
ClosePort ==
  /\ owner = "close"
  /\ owner' = "gone"
  /\ port'  = <<>>
  /\ UNCHANGED <<pool, server, turn, quit, removed, at, arrived, stolen>>

\* The thread of the server reads m_started of an object that is gone.
ListenerFault ==
  /\ owner = "gone" /\ listener = "accepting"
  /\ crashed' = TRUE
  /\ UNCHANGED <<index, waiting, running, done, server, ending, iocp>>

Destructor == QuitHandler \/ WakeHandler \/ RemoveThread \/ ClosePort

-------------------------------------------------------------------------------
(* The threads of the pool and the handlers they run.                      *)

\* A thread calls the oldest handler it was given.
Enter(t) ==
  /\ Pool!Start(t)
  /\ at' = [at EXCEPT ![Head(waiting[t])] = "test"]
  /\ UNCHANGED <<server, ending, port, arrived, stolen>>

\* A thread that is being deleted drops what it has not begun (TaskQueue).
Discard(t) ==
  /\ t \in removed /\ waiting[t] # <<>>
  /\ waiting' = [waiting EXCEPT ![t] = <<>>]
  /\ UNCHANGED <<index, running, done, crashed, server, ending, iocp>>

Move(t, place) == at' = [at EXCEPT ![running[t]] = place]

Stands(t, place) == running[t] # NoCall /\ at[running[t]] = place

\* while (!m_quit)
Test(t) ==
  /\ Stands(t, "test")
  /\ running[t] \notin quit
  /\ Move(t, "get")
  /\ UNCHANGED <<pool, server, ending, port, arrived, stolen>>

Leave(t) ==
  /\ Stands(t, "test")
  /\ running[t] \in quit
  /\ Move(t, "out")
  /\ Pool!Finish(t)
  /\ UNCHANGED <<server, ending, port, arrived, stolen>>

\* Any handler that waits may get the oldest packet.  One without a context
\* only brings it back to its loop.
GetNull(t) ==
  /\ Stands(t, "get")
  /\ port # <<>> /\ Head(port) = "null"
  /\ port'   = Tail(port)
  /\ stolen' = stolen + IF running[t] \in quit THEN 0 ELSE 1
  /\ Move(t, "test")
  /\ UNCHANGED <<pool, server, ending, arrived>>

GetPacket(t) ==
  /\ Stands(t, "get")
  /\ port # <<>> /\ Head(port) = "io"
  /\ port' = Tail(port)
  /\ Move(t, "serve")
  /\ UNCHANGED <<pool, server, ending, arrived, stolen>>

\* Mutant: a call that fails is made again.
GetFailsAgain(t) ==
  /\ Stands(t, "get") /\ owner = "gone"
  /\ UNCHANGED vars

\* On a closed port the call fails, also when it has been waiting.
GetFails(t) ==
  /\ Stands(t, "get") /\ owner = "gone"
  /\ Move(t, "test")
  /\ UNCHANGED <<pool, server, ending, port, arrived, stolen>>

\* The completion is handled through m_server; if that is gone, the process
\* may end.
Serve(t) ==
  /\ Stands(t, "serve")
  /\ Move(t, "test")
  /\ crashed' \in {FALSE, owner = "gone"}
  /\ UNCHANGED <<index, waiting, running, done, server, ending, port, arrived, stolen>>

Thread(t) ==
  \/ Enter(t) \/ Discard(t) \/ Test(t) \/ Leave(t) \/ GetNull(t)
  \/ GetPacket(t) \/ GetFails(t) \/ Serve(t)

-------------------------------------------------------------------------------
Next ==
  /\ ~crashed
  /\ \/ Listener
     \/ CloseServer
     \/ Destroy
     \/ Destructor
     \/ ListenerFault
     \/ \E t \in Threads : Thread(t)

Spec == Init /\ [][Next]_vars

\* The scheduler starves no thread: the one of the server, the ones of the
\* pool, and the owner once it destroys the server.
FairSpec ==
  /\ Spec
  /\ WF_vars(~crashed /\ (Listener \/ ListenerFault))
  /\ WF_vars(~crashed /\ Destructor)
  /\ \A t \in Threads : WF_vars(~crashed /\ Thread(t))

-------------------------------------------------------------------------------
(* Properties.                                                             *)

\* The calls of StartServer, one after the other, spread its handlers over the
\* threads (ThreadPool.cpp:35-42, TcpThreadServer.cpp:66-73): no index is past
\* the list, no thread is given many more handlers than another, and two share
\* a thread only once there are more handlers than threads, so that every
\* thread comes to serve one.
FairDispatch == Pool!SlotInRange /\ Pool!DispatchSkew /\ Pool!HandlersApart

Stranded    == {c \in quit : at[c] = "get"}
NullPackets == {i \in 1 .. Len(port) : port[i] = "null"}

\* The null packet posted for a handler (TcpThreadServer.cpp:50-51) may be taken
\* by another one, which leaves in its place.  A handler that has to quit is
\* left waiting only if its packet went to one that had not to quit yet.
WakesSuffice ==
  owner # "gone" =>
    Cardinality(Stranded) <=
      Cardinality(NullPackets) + stolen + IF owner = "wake" THEN 1 ELSE 0

\* Closing the port (TcpThreadServer.cpp:55) lets out every handler that is
\* left, whatever became of the null packets.
HandlersLeave ==
  owner = "gone" ~> (crashed \/ \A t \in Threads : running[t] = NoCall)
================================================================================

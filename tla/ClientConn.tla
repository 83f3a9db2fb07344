------------------------------ MODULE ClientConn ------------------------------
(***************************************************************************)
(* A TcpClient from Connect to CloseAll (TcpClient.cpp): the thread that   *)
(* takes completions from the client's port and reconnects, the thread     *)
(* that connects and closes the client (the owner), and the threads that   *)
(* send.  The peer and the kernel are external.                            *)
(*                                                                         *)
(* The sockets are numbered in the order of their creation; 0 is           *)
(* INVALID_SOCKET.  A receive uses the PER_IO_CONTEXT that SetRecvIO made  *)
(* for some socket, and bears its number.                                  *)
(***************************************************************************)
EXTENDS Integers, Sequences, FiniteSets

CONSTANTS MaxTimes,  \* MAX_RECONNECT_TIMES
          MaxSocks,  \* bound: the sockets that are created
          MaxSends,  \* bound: the messages that are sent
          MaxMsgs    \* bound: the receives that bring data

ASSUME BoundsAssumption ==
  /\ MaxTimes \in Nat \ {0} /\ MaxSocks \in Nat \ {0}
  /\ MaxSends \in Nat /\ MaxMsgs \in Nat

VARIABLES
  sock,      \* m_clientSock
  ctxSock,   \* the socket of m_cltContext
  made,      \* how many sockets were created
  link,      \* the connection of each socket
  bound,     \* the sockets associated with the completion port
  pending,   \* the overlapped operations that have not completed
  port,      \* the completion port, a FIFO queue
  portOpen,  \* its handle has not been closed
  filled,    \* the buffer of the first receive, which Connect looks at, holds data
  lost,      \* the last PostRecv has posted nothing, and nobody will notice
  freedIo,   \* the PER_IO_CONTEXTs of receives that SetRecvIO took back
  pc,        \* where the thread stands in Execute and Reconnect
  job,       \* the packet it has taken
  quit,      \* m_quit of the task
  started,   \* m_bReconnectStarted
  times,     \* m_reconnectTimes
  owner,     \* where the owner stands in Connect and CloseAll
  sent, received,
  outlived,  \* history: Reconnect closed a socket with an operation under way
  crashed    \* freed or null memory was followed, and the process ended

socket  == <<sock, made, link>>
kernel  == <<pending, port, portOpen, bound, received>>
context == <<ctxSock, filled, lost, freedIo>>
thread  == <<pc, job>>
retry   == <<started, times>>
rest    == <<sent, outlived, crashed>>
vars    == <<socket, kernel, context, thread, quit, retry, owner, rest>>

Socks == 1 .. MaxSocks
Ops   == [kind : {"recv"}, sock : Socks, io : Socks]
           \cup [kind : {"send"}, sock : Socks, io : 1 .. MaxSends]

\* The packet of PostQueuedCompletionStatus, with a null key.
NoOp    == [kind |-> "none", sock |-> 0, io |-> 0]
Wake    == [op |-> NoOp, res |-> "data"]
Packets == [op : Ops, res : {"data", "zero", "failed"}] \cup {Wake}

TypeOK ==
  /\ sock \in 0 .. MaxSocks /\ ctxSock \in 0 .. MaxSocks /\ made \in Socks
  /\ link \in [0 .. MaxSocks -> {"none", "open", "fin", "reset", "closed"}]
  /\ bound \subseteq Socks
  /\ pending \subseteq Ops
  /\ port \in Seq(Packets)
  /\ portOpen \in BOOLEAN /\ filled \in BOOLEAN /\ lost \in BOOLEAN
  /\ freedIo \subseteq Socks
  /\ pc \in {"test", "take", "taken", "alive", "gate", "close", "socket", "connect",
             "associate", "setRecv", "giveUp", "join", "done"}
  /\ job \in Packets
  /\ quit \in BOOLEAN /\ started \in BOOLEAN
  /\ times \in 0 .. MaxTimes
  /\ owner \in {"posting", "checking", "open", "closing", "posted", "handle",
                "joining", "joined", "context", "task", "end", "gone"}
  /\ sent \in 0 .. MaxSends /\ received \in 0 .. MaxMsgs
  /\ outlived \in BOOLEAN /\ crashed \in BOOLEAN

\* Connect has connected the first socket, associated it and started the thread.
Init ==
  /\ sock = 1 /\ ctxSock = 1 /\ made = 1 /\ bound = {1}
  /\ link = [s \in 0 .. MaxSocks |-> IF s = 1 THEN "open" ELSE "none"]
  /\ pending = {} /\ port = <<>> /\ portOpen = TRUE
  /\ filled = FALSE /\ lost = FALSE /\ freedIo = {}
  /\ pc = "test" /\ job = Wake
  /\ quit = FALSE /\ started = FALSE /\ times = MaxTimes
  /\ owner = "posting"
  /\ sent = 0 /\ received = 0 /\ outlived = FALSE /\ crashed = FALSE

\* m_closed; the context, the task, and in the end the client have been deleted.
Closed       == owner \notin {"posting", "checking", "open"}
ContextFreed == owner \in {"task", "end", "gone"}
TaskFreed    == owner \in {"end", "gone"}

-------------------------------------------------------------------------------
(* The kernel and the peer.                                                *)

PeerLeaves(s) ==
  /\ \E l \in {"fin", "reset"} :
       /\ link[s] = "open" \/ (link[s] = "fin" /\ l = "reset")
       /\ link' = [link EXCEPT ![s] = l]
  /\ UNCHANGED <<sock, made, kernel, context, thread, quit, retry, owner, rest>>

\* An operation ends with this result.
Arrives(op, res) ==
  /\ port' = IF portOpen /\ op.sock \in bound
             THEN Append(port, [op |-> op, res |-> res]) ELSE port
  /\ IF op.kind = "recv" /\ res = "data"
     THEN received < MaxMsgs /\ received' = received + 1
     ELSE UNCHANGED received

Outcomes(op) ==
  IF op.kind = "send"
  THEN {"data"} \cup IF link[op.sock] = "open" THEN {} ELSE {"failed"}
  ELSE CASE link[op.sock] = "open" -> {"data"}
         [] link[op.sock] = "fin"  -> {"data", "zero"}
         [] OTHER                  -> {"failed"}

Completes(op) ==
  /\ pending' = pending \ {op}
  /\ \E res \in Outcomes(op) :
       /\ Arrives(op, res)
       /\ filled' = (filled \/ (op.kind = "recv" /\ op.io = 1 /\ res = "data"))
  /\ UNCHANGED <<socket, portOpen, bound, ctxSock, lost, freedIo, thread, quit, retry,
                 owner, rest>>

CloseFd(s) == IF s = 0 THEN link ELSE [link EXCEPT ![s] = "closed"]

-------------------------------------------------------------------------------
(* PostRecv on the socket of the context: ResetBuffer and WSARecv, which   *)
(* pends, or ends at once (with a packet all the same).  Or it fails, at    *)
(* any time: an error is told to the caller, but WSAEWOULDBLOCK passes for  *)
(* a receive that pends (TcpClient.cpp:113).                                *)

Takes(s) == link[s] \in {"open", "fin"}

PostRecv(io, result) ==
  LET op == [kind |-> "recv", sock |-> ctxSock, io |-> io]
  IN  /\ CASE result = "pending" -> /\ Takes(ctxSock)
                                    /\ pending' = pending \cup {op}
                                    /\ UNCHANGED <<port, received>>
           [] result \in {"data", "zero"}
                                 -> /\ Takes(ctxSock) /\ result \in Outcomes(op)
                                    /\ Arrives(op, result)
                                    /\ UNCHANGED pending
           [] OTHER              -> UNCHANGED <<pending, port, received>>
      /\ lost' = (result = "blocked" \/ (result = "error" /\ Takes(ctxSock)))
      /\ filled' = IF io = 1 THEN result = "data" ELSE filled
      /\ UNCHANGED <<portOpen, bound, ctxSock>>

Results == {"pending", "data", "zero", "error", "blocked"}

\* The results with which PostRecv returns true, if nobody touches the buffer.
Good == {"pending", "data", "blocked"}

-------------------------------------------------------------------------------
(* Execute.                                                                *)

LoopTest ==
  /\ pc = "test"
  /\ pc' = IF quit THEN "done" ELSE "take"
  /\ UNCHANGED <<socket, kernel, context, job, quit, retry, owner, rest>>

Take ==
  /\ pc = "take" /\ portOpen /\ port # <<>>
  /\ job' = Head(port) /\ port' = Tail(port)
  /\ pc' = "taken"
  /\ UNCHANGED <<socket, pending, portOpen, bound, received, context, quit, retry, owner, rest>>

\* The handle of the port has been closed: no packet.
TakeFails ==
  /\ pc = "take" /\ ~portOpen
  /\ pc' = "test"
  /\ UNCHANGED <<socket, kernel, context, job, quit, retry, owner, rest>>

Handled(to) == pc = "taken" /\ pc' = to /\ job' = Wake

NullKey ==
  /\ job = Wake /\ Handled("test")
  /\ UNCHANGED <<socket, kernel, context, quit, retry, owner, rest>>

\* An error (HandleError), or 0 bytes: Reconnect is called.
Ended ==
  /\ job.res # "data" /\ Handled("gate")
  /\ UNCHANGED <<socket, kernel, context, quit, retry, owner, rest>>

\* Mutant: a send that is done falls through.
SendDoneFalls ==
  /\ job.op.kind = "send" /\ job.res = "data" /\ Handled("gate")
  /\ UNCHANGED <<socket, kernel, context, quit, retry, owner, rest>>

SendDone ==
  /\ job.op.kind = "send" /\ job.res = "data" /\ Handled("test")
  /\ UNCHANGED <<socket, kernel, context, quit, retry, owner, rest>>

\* OnMsg, and the receive is posted again, on the socket of the context as it
\* now is.
RePostRecv ==
  /\ job.op.kind = "recv" /\ job.res = "data"
  /\ \E result \in Results :
       /\ PostRecv(job.op.io, result)
       /\ Handled(IF result \in Good THEN "test" ELSE "alive")
  /\ UNCHANGED <<socket, freedIo, quit, retry, owner, rest>>

\* Mutants: an ended connection that takes the bytes gets another receive; one
\* that does not is left alone.
AliveTestRetries ==
  /\ pc = "alive"
  /\ \/ Takes(ctxSock) /\ pc' = "setRecv"
     \/ link[ctxSock] # "open" /\ pc' = "gate"
  /\ UNCHANGED <<socket, kernel, context, job, quit, retry, owner, rest>>

AliveTestGivesIn ==
  /\ pc = "alive" /\ pc' = "test"
  /\ UNCHANGED <<socket, kernel, context, job, quit, retry, owner, rest>>

\* IsSocketAlive sends two bytes, which an ended connection may yet take.
AliveTest ==
  /\ pc = "alive"
  /\ \/ Takes(ctxSock) /\ pc' = "test"
     \/ link[ctxSock] # "open" /\ pc' = "gate"
  /\ UNCHANGED <<socket, kernel, context, job, quit, retry, owner, rest>>

-------------------------------------------------------------------------------
(* Reconnect.                                                              *)

\* The tests of m_closed and m_bReconnectStarted.
Gate ==
  /\ pc = "gate"
  /\ IF Closed \/ started THEN pc' = "test" /\ UNCHANGED started
     ELSE pc' = "close" /\ started' = TRUE
  /\ UNCHANGED <<socket, kernel, context, job, quit, times, owner, rest>>

UnderWay == pending \cup {port[i].op : i \in DOMAIN port}

CloseOld ==
  /\ pc = "close" /\ pc' = "socket"
  /\ link' = CloseFd(sock) /\ sock' = 0
  /\ outlived' = (outlived \/ \E op \in UnderWay : op.sock = sock)
  /\ UNCHANGED <<made, kernel, context, job, quit, retry, owner, sent, crashed>>

NewSocket ==
  /\ pc = "socket" /\ made < MaxSocks
  /\ pc' = "connect"
  /\ made' = made + 1 /\ sock' = made + 1
  /\ UNCHANGED <<link, kernel, context, job, quit, retry, owner, rest>>

Connected ==
  /\ pc = "connect" /\ sock # 0
  /\ link' = [link EXCEPT ![sock] = "open"]
  /\ pc' = "associate"
  /\ UNCHANGED <<sock, made, kernel, context, job, quit, retry, owner, rest>>

ConnectFails ==
  /\ pc = "connect"
  /\ times' = times - 1
  /\ pc' = IF times' > 0 THEN "connect" ELSE "giveUp"
  /\ UNCHANGED <<socket, kernel, context, job, quit, started, owner, rest>>

\* SetSocketFD and CreateIoCompletionPort, whose failure leaves
\* m_bReconnectStarted set.
Associate ==
  /\ pc = "associate" /\ ~ContextFreed
  /\ ctxSock' = sock
  /\ \/ /\ portOpen /\ sock # 0
        /\ bound' = bound \cup {sock}
        /\ times' = MaxTimes /\ started' = FALSE
        /\ pc' = "setRecv"
     \/ pc' = "test" /\ UNCHANGED <<bound, retry>>
  /\ UNCHANGED <<socket, pending, port, portOpen, received, filled, lost, freedIo,
                 job, quit, owner, rest>>

\* Mutant: a receive that pends counts as one that failed.
SetRecvIOImpatient ==
  /\ pc = "setRecv" /\ ~ContextFreed
  /\ pc' = "test"
  /\ \E result \in Results :
       /\ PostRecv(ctxSock, result)
       /\ freedIo' = IF result = "data" THEN freedIo ELSE freedIo \cup {ctxSock}
  /\ UNCHANGED <<socket, job, quit, retry, owner, rest>>

\* A new PER_IO_CONTEXT, taken back when PostRecv returns false.
SetRecvIO ==
  /\ pc = "setRecv" /\ ~ContextFreed
  /\ pc' = "test"
  /\ \E result \in Results :
       /\ PostRecv(ctxSock, result)
       /\ freedIo' = IF result \in Good THEN freedIo ELSE freedIo \cup {ctxSock}
  /\ UNCHANGED <<socket, job, quit, retry, owner, rest>>

\* Mutant: the task is not told to quit.
GiveUpStays ==
  /\ pc = "giveUp" /\ pc' = "join"
  /\ link' = CloseFd(sock) /\ sock' = 0
  /\ portOpen' = FALSE /\ port' = <<>>
  /\ UNCHANGED <<made, pending, bound, received, context, job, quit, retry, owner, rest>>

\* CloseSocket and CloseIocpThread, on the thread itself, up to its own Join.
GiveUp ==
  /\ pc = "giveUp" /\ pc' = "join"
  /\ link' = CloseFd(sock) /\ sock' = 0
  /\ portOpen' = FALSE /\ port' = <<>>
  /\ quit' = TRUE
  /\ UNCHANGED <<made, pending, bound, received, context, job, retry, owner, rest>>

GivenUp ==
  /\ pc = "join" /\ pc' = "test"
  /\ started' = FALSE
  /\ UNCHANGED <<socket, kernel, context, job, quit, times, owner, rest>>

\* A deleted task, context or PER_IO_CONTEXT is used.
ThreadFault ==
  /\ \/ pc \in {"test", "gate", "giveUp"} /\ TaskFreed
     \/ pc = "taken" /\ job # Wake /\ ContextFreed
     \/ pc \in {"alive", "associate", "setRecv"} /\ ContextFreed
     \/ pc = "taken" /\ job.op.kind = "recv" /\ job.op.io \in freedIo
  /\ crashed' = TRUE
  /\ UNCHANGED <<socket, kernel, context, thread, quit, retry, owner, sent, outlived>>

-------------------------------------------------------------------------------
(* The owner, and the threads that send.                                   *)

\* SetRecvIO in Connect, while the thread may already take the packet.
FirstRecv ==
  /\ owner = "posting"
  /\ \E result \in Results :
       /\ PostRecv(1, result)
       /\ owner' = IF result \in {"data", "zero"} THEN "checking" ELSE "open"
       /\ freedIo' = IF result = "error" THEN freedIo \cup {1} ELSE freedIo
  /\ UNCHANGED <<socket, thread, quit, retry, rest>>

FirstCheck ==
  /\ owner = "checking" /\ owner' = "open"
  /\ freedIo' = IF filled THEN freedIo ELSE freedIo \cup {1}
  /\ UNCHANGED <<socket, kernel, ctxSock, filled, lost, thread, quit, retry, rest>>

SetCloseStat ==
  /\ owner = "open" /\ owner' = "closing"
  /\ UNCHANGED <<socket, kernel, context, thread, quit, retry, rest>>

PostWake ==
  /\ owner = "closing" /\ owner' = "posted"
  /\ port' = IF portOpen THEN Append(port, Wake) ELSE port
  /\ UNCHANGED <<socket, pending, portOpen, bound, received, context, thread, quit,
                 retry, rest>>

CloseHandle ==
  /\ owner = "posted" /\ owner' = "handle"
  /\ portOpen' = FALSE /\ port' = <<>>
  /\ UNCHANGED <<socket, pending, bound, received, context, thread, quit, retry, rest>>

QuitThread ==
  /\ owner = "handle" /\ owner' = "joining"
  /\ quit' = TRUE
  /\ UNCHANGED <<socket, kernel, context, thread, retry, rest>>

\* Join(2000) in Thread::Quit does not wait for the thread (PoolThread).
JoinEnds ==
  /\ owner = "joining" /\ owner' = "joined"
  /\ UNCHANGED <<socket, kernel, context, thread, quit, retry, rest>>

CloseSocket ==
  /\ owner = "joined" /\ owner' = "context"
  /\ link' = CloseFd(sock) /\ sock' = 0
  /\ UNCHANGED <<made, kernel, context, thread, quit, retry, rest>>

\* The destructor closes the socket it has, once more.
DeleteContext ==
  /\ owner = "context" /\ owner' = "task"
  /\ link' = CloseFd(ctxSock)
  /\ UNCHANGED <<sock, made, kernel, context, thread, quit, retry, rest>>

DeleteTask ==
  /\ owner = "task" /\ owner' = "end"
  /\ UNCHANGED <<socket, kernel, context, thread, quit, retry, rest>>

\* ~TcpClient after CloseAll: ~Thread calls Quit once more, whose m_task is the
\* task that CloseAll deleted.
DestroyClient ==
  /\ owner = "end" /\ owner' = "gone"
  /\ crashed' \in BOOLEAN
  /\ UNCHANGED <<socket, kernel, context, thread, quit, retry, sent, outlived>>

\* SendMsgAsync, once Connect has returned.  Nobody looks at whether the send is
\* posted.
SendMsgAsync ==
  /\ owner \notin {"posting", "checking"} /\ ~ContextFreed /\ ~quit
  /\ sent < MaxSends /\ sent' = sent + 1
  /\ \/ /\ Takes(ctxSock)
        /\ pending' = pending \cup {[kind |-> "send", sock |-> ctxSock, io |-> sent + 1]}
     \/ UNCHANGED pending
  /\ UNCHANGED <<socket, port, portOpen, bound, received, context, thread, quit, retry,
                 owner, outlived, crashed>>

-------------------------------------------------------------------------------
Reconnect ==
  \/ Gate \/ CloseOld \/ NewSocket \/ Connected \/ ConnectFails \/ Associate
  \/ SetRecvIO \/ GiveUp \/ GivenUp

Execute ==
  /\ ~crashed
  /\ \/ LoopTest \/ Take \/ TakeFails \/ NullKey \/ Ended \/ SendDone \/ RePostRecv
     \/ AliveTest \/ Reconnect \/ ThreadFault

Connect == FirstRecv \/ FirstCheck

CloseAll ==
  \/ SetCloseStat \/ PostWake \/ CloseHandle \/ QuitThread \/ JoinEnds
  \/ CloseSocket \/ DeleteContext \/ DeleteTask \/ DestroyClient

Ends(s) ==
  /\ ~crashed /\ link[s] # "open"
  /\ \E op \in pending : op.kind = "recv" /\ op.sock = s /\ Completes(op)

Next ==
  \/ Execute
  \/ ~crashed /\ \/ Connect \/ CloseAll \/ SendMsgAsync
                 \/ \E op \in pending : Completes(op)
                 \/ \E s \in Socks : PeerLeaves(s)

Spec == Init /\ [][Next]_vars

\* The thread runs, and a receive on an ended connection ends.
FairSpec == Spec /\ WF_vars(Execute) /\ \A s \in Socks : WF_vars(Ends(s))

-------------------------------------------------------------------------------
(* Properties.                                                             *)

\* How many receives are under way on a socket: they pend, are in the port, or
\* are being handled.
IsRecv(op, s) == op.kind = "recv" /\ op.sock = s
Receives(s) ==
  Cardinality({op \in pending : IsRecv(op, s)})
    + Cardinality({i \in DOMAIN port : IsRecv(port[i].op, s)})
    + IF IsRecv(job.op, s) THEN 1 ELSE 0

\* Over any number of reconnects there is at most one receive on the socket of
\* the context, and an open connection has one unless posting it has failed (in
\* which case it never gets one again: TcpClient.cpp:113, 140-144, 461-465), as
\* long as no operation outlived its socket (TcpClient.cpp:213-214, 382).
OneReceive ==
  ~outlived =>
    /\ Receives(ctxSock) <= 1
    /\ owner = "open" /\ pc \in {"test", "take"} /\ ~started /\ link[ctxSock] = "open"
         => (Receives(ctxSock) = 1 <=> ~lost)

\* A PER_IO_CONTEXT is taken back while its receive is under way only when the
\* peer has left (TcpClient.cpp:461-465); the first one also when the thread
\* has emptied the buffer that Connect tests (TcpClient.cpp:119-126).
TakenBackIdle ==
  \A op \in UnderWay :
    op.kind = "recv" /\ op.io \in freedIo =>
      link[op.sock] # "open" \/ (op.io = 1 /\ received > 0)

\* The thread closes a connection whose peer has not left only on account of a
\* packet that outlived an earlier socket (TcpClient.cpp:200-206, 360-366).
KeepsOpen ==
  [][\A s \in Socks : link[s] = "open" /\ link'[s] = "closed" => outlived \/ Closed]_vars

\* When the peer leaves a connection with a receive under way, the client drops
\* that connection (TcpClient.cpp:130-146, 186-206), unless it loses the receive
\* before it gets to the end of the stream.
EndIsNoticed ==
  \A s \in Socks :
    (ctxSock = s /\ s \in bound /\ Receives(s) > 0 /\ link[s] \in {"fin", "reset"})
      ~> (link[s] = "closed" \/ Closed \/ quit \/ crashed \/ lost)

\* A client that gives up, or is closed by its owner, ends its thread
\* (TcpClient.cpp:157, 315-321, 392), unless the model has run out of sockets.
OutOfSocks == pc = "socket" /\ made = MaxSocks
ThreadEnds == (quit \/ pc = "giveUp") ~> (pc = "done" \/ crashed \/ OutOfSocks)
================================================================================

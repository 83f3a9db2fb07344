------------------------------ MODULE ServerConn ------------------------------
(***************************************************************************)
(* The life of one connection of TcpThreadServer: its PER_SOCKET_CONTEXT   *)
(* from HandleNewConn, through the completions that any SocketHandler may  *)
(* take from the port and the messages that any thread of the task pool    *)
(* may run, to the thread that frees it (TcpThreadServer.cpp,              *)
(* SocketHandler.cpp, SocketDefine.h, LinkNetObj.cpp).                     *)
(*                                                                         *)
(* A receive brings one whole message.  Message 1 is the client's          *)
(* PROTO_BUILD_CONN_REQ, sent once (ConnectionPool.cpp:130-146); every     *)
(* message that reaches a LinkNetObj is answered.  The peer and the kernel *)
(* are external.                                                           *)
(***************************************************************************)
EXTENDS Integers, FiniteSets

CONSTANTS Handlers,  \* the SocketHandlers
          MaxMsg,    \* bound: the messages the peer sends
          RefSize    \* the number of values of the uint16_t m_Ref

ASSUME HandlersAssumption ==
  IsFiniteSet(Handlers) /\ Handlers \cap {"map", "context", "task"} = {}
ASSUME MsgAssumption      == MaxMsg \in Nat \ {0}
ASSUME RefAssumption      == RefSize \in Nat /\ 2 * Cardinality(Handlers) + 1 < RefSize

VARIABLES
  peer,         \* what the other end has done
  sent,         \* how many messages it has sent
  received,     \* how many of them receives have brought
  recvPending,  \* a receive is posted and has not completed
  filled,       \* the buffer of the receive holds data
  lost,         \* the last WSARecv, if any, has posted no receive
  sendPending,  \* the messages whose answers are posted and have not completed
  port,         \* the completions in the completion port
  listener,     \* where HandleNewConn stands with this connection
  ref,          \* m_Ref
  listed,       \* the context is in m_socketList
  holders,      \* who has a shared_ptr to the LinkNetObj of the connection
  freed,        \* how many times the context was deleted
  pc,           \* where each handler stands in Execute
  job,          \* the completion it has taken
  task,         \* where OnAsyncMsg stands with each message
  crashed       \* freed or null memory was followed, and the process ended

receive == <<received, recvPending, filled, lost>>
network == <<peer, sent, receive, sendPending, port>>
context == <<ref, listed, holders, freed>>
vars    == <<network, listener, context, pc, job, task, crashed>>

Msgs == 1 .. MaxMsg

Completions ==
  [io : {"recv"}, res : {"data"}, msg : Msgs]
    \cup [io : {"recv"}, res : {"zero", "failed"}, msg : {0}]
    \cup [io : {"send"}, res : {"data", "failed"}, msg : Msgs]

NoJob == [io |-> "none", res |-> "data", msg |-> 0]

HandlerStates ==
  {"wait", "taken", "zero", "zeroTest", "log", "message", "repost", "post",
   "check", "dead", "deadRelease", "deadTest", "reposted", "sent", "release",
   "error", "errorRelease", "errorTest",
   "getLink", "unlink", "unmap", "dropLink", "delete"}

ListenerStates ==
  {"accepted", "associated", "check", "posted", "listed", "dropped", "stopped"}

TaskStates == {"none", "queued", "linked", "ack", "dropLink", "answer", "done"}

\* m_linkNetMap, m_pLinkNetObj, and the local variable of OnAsyncMsg.
Owners == {"map", "context", "task"}

TypeOK ==
  /\ peer \in {"open", "closed", "reset"}
  /\ sent \in 0 .. MaxMsg
  /\ received \in 0 .. MaxMsg
  /\ recvPending \in BOOLEAN
  /\ filled \in BOOLEAN
  /\ lost \in BOOLEAN
  /\ sendPending \subseteq Msgs
  /\ port \subseteq Completions
  /\ listener \in ListenerStates
  /\ ref \in 0 .. RefSize - 1
  /\ listed \in BOOLEAN
  /\ holders \subseteq Owners \cup Handlers
  /\ freed \in Nat
  /\ pc \in [Handlers -> HandlerStates]
  /\ job \in [Handlers -> Completions \cup {NoJob}]
  /\ task \in [Msgs -> TaskStates]
  /\ crashed \in BOOLEAN

\* Accept has returned a socket, and the context is new.
Init ==
  /\ peer = "open" /\ sent = 0 /\ received = 0
  /\ recvPending = FALSE /\ filled = FALSE /\ lost = FALSE
  /\ sendPending = {} /\ port = {}
  /\ listener = "accepted"
  /\ ref = 0 /\ listed = FALSE /\ holders = {} /\ freed = 0
  /\ pc = [h \in Handlers |-> "wait"]
  /\ job = [h \in Handlers |-> NoJob]
  /\ task = [m \in Msgs |-> "none"]
  /\ crashed = FALSE

-------------------------------------------------------------------------------
(* The peer and the network.                                               *)

PeerSends ==
  /\ peer = "open" /\ sent < MaxMsg
  /\ sent' = sent + 1
  /\ UNCHANGED <<peer, receive, sendPending, port, listener, context, pc, job,
                 task, crashed>>

\* It closes when it has no more to send, or the connection breaks.
PeerLeaves ==
  /\ \/ peer = "open" /\ peer' = "closed"
     \/ peer # "reset" /\ peer' = "reset"
  /\ UNCHANGED <<sent, receive, sendPending, port, listener, context, pc, job,
                 task, crashed>>

Completed(io, res, msg) == port' = port \cup {[io |-> io, res |-> res, msg |-> msg]}

\* What a receive brings: the next message, or the end of the stream.
DataArrives ==
  /\ peer # "reset" /\ received < sent
  /\ received' = received + 1
  /\ filled' = TRUE
  /\ Completed("recv", "data", received + 1)

EndArrives ==
  /\ peer = "closed" /\ received = sent
  /\ filled' = FALSE
  /\ Completed("recv", "zero", 0)
  /\ UNCHANGED received

\* Closing the socket, which the destructor of the context does, fails what is
\* still pending.
Broken == peer = "reset" \/ freed > 0

RecvCompletes ==
  /\ recvPending
  /\ recvPending' = FALSE
  /\ \/ freed = 0 /\ (DataArrives \/ EndArrives)
     \/ Broken /\ Completed("recv", "failed", 0) /\ UNCHANGED <<received, filled>>
  /\ UNCHANGED <<peer, sent, lost, sendPending, listener, context, pc, job, task,
                 crashed>>

SendCompletes(m) ==
  /\ m \in sendPending
  /\ sendPending' = sendPending \ {m}
  /\ \/ ~Broken /\ Completed("send", "data", m)
     \/ Broken /\ Completed("send", "failed", m)
  /\ UNCHANGED <<peer, sent, receive, listener, context, pc, job, task, crashed>>

\* WSARecv, after ResetBuffer: it pends, or completes at once (its completion
\* goes to the port all the same).  Or it fails, at any time, and there is no
\* receive: an error is told to the caller, but WSAEWOULDBLOCK passes for a
\* receive that pends (SocketHandler.cpp:206).
WsaRecv(whenPending, whenDone, whenFailed) ==
  \/ /\ freed = 0
     /\ recvPending' = TRUE /\ filled' = FALSE /\ lost' = FALSE
     /\ UNCHANGED <<received, port>>
     /\ whenPending
  \/ /\ freed = 0
     /\ DataArrives \/ EndArrives
     /\ lost' = FALSE
     /\ UNCHANGED recvPending
     /\ whenDone
  \/ /\ filled' = FALSE /\ lost' = TRUE
     /\ UNCHANGED <<received, recvPending, port>>
     /\ whenFailed \/ whenPending

\* WSASend of the answer to m, which may fail likewise.  Nobody looks at what
\* it returns.
WsaSend(m) ==
  \/ ~Broken /\ sendPending' = sendPending \cup {m}
  \/ UNCHANGED sendPending

-------------------------------------------------------------------------------
(* HandleNewConn.                                                          *)

ListenerAt(from, to) == ~crashed /\ listener = from /\ listener' = to

\* CreateIoCompletionPort; when it fails the server accepts no more.
Associate ==
  /\ \/ ListenerAt("accepted", "associated")
     \/ ListenerAt("accepted", "stopped")
  /\ UNCHANGED <<network, context, pc, job, task, crashed>>

\* PostRecv, up to the return of WSARecv.
FirstRecv ==
  /\ ~crashed /\ listener = "associated"
  /\ WsaRecv(listener' = "posted", listener' = "check", listener' = "dropped")
  /\ UNCHANGED <<peer, sent, sendPending, context, pc, job, task, crashed>>

\* The end of PostRecv: a receive that was done at once, with an empty buffer.
FirstRecvCheck ==
  /\ ListenerAt("check", IF filled THEN "posted" ELSE "dropped")
  /\ UNCHANGED <<network, context, pc, job, task, crashed>>

\* Mutant: the list does not count as a reference.
EnterListUncounted ==
  /\ ListenerAt("posted", "listed")
  /\ listed' = TRUE
  /\ UNCHANGED <<network, ref, holders, freed, pc, job, task, crashed>>

\* Under m_sockListMutex: the map, and the first reference.
EnterList ==
  /\ ListenerAt("posted", "listed")
  /\ listed' = TRUE
  /\ ref'    = (ref + 1) % RefSize
  /\ UNCHANGED <<network, holders, freed, pc, job, task, crashed>>

-------------------------------------------------------------------------------
(* A handler: SocketHandler::Execute, HandleError and RePostRecv.          *)

\* The local variables of Execute mean nothing once it waits again.
Goto(h, from, to) ==
  /\ ~crashed /\ pc[h] = from
  /\ pc'  = [pc EXCEPT ![h] = to]
  /\ job' = IF to = "wait" THEN [job EXCEPT ![h] = NoJob] ELSE job

Elsewhere == UNCHANGED <<peer, sent, listener, task, crashed>>

AddRef(h, from, to) ==
  /\ Goto(h, from, to)
  /\ ref' = (ref + 1) % RefSize
  /\ UNCHANGED <<receive, sendPending, port, listed, holders, freed>>
  /\ Elsewhere

\* m_Ref--.  What Release returns is a reference, which is read later.
Release(h, from, to) ==
  /\ Goto(h, from, to)
  /\ ref' = (ref + RefSize - 1) % RefSize
  /\ UNCHANGED <<receive, sendPending, port, listed, holders, freed>>
  /\ Elsewhere

\* Release() == 1
LastTest(h, from, otherwise) ==
  /\ Goto(h, from, IF ref = 1 THEN "getLink" ELSE otherwise)
  /\ UNCHANGED <<network, context>>
  /\ Elsewhere

\* GetQueuedCompletionStatus.
Dequeue(h) ==
  /\ ~crashed /\ pc[h] = "wait"
  /\ \E done \in port :
       /\ port' = port \ {done}
       /\ job'  = [job EXCEPT ![h] = done]
       /\ pc'   = [pc EXCEPT ![h] = IF done.res = "failed" THEN "error" ELSE "taken"]
  /\ UNCHANGED <<receive, sendPending, context>>
  /\ Elsewhere

BeginCompletion(h) ==
  AddRef(h, "taken", IF job[h].res = "zero" THEN "zero"
                     ELSE IF job[h].io = "recv" THEN "message" ELSE "sent")

\* The client has closed: the last reference removes the context, and what is
\* not the last is released twice.
EndOfStream(h) == Release(h, "zero", "zeroTest") \/ LastTest(h, "zeroTest", "release")

\* WriteLog, after the context was removed.
LogClosed(h) ==
  /\ Goto(h, "log", "wait")
  /\ UNCHANGED <<network, context>>
  /\ Elsewhere

\* TcpThreadServer::OnMsg copies the message and hands it to m_taskThreadPool.
OnMsg(h) ==
  /\ Goto(h, "message", "repost")
  /\ task' = [task EXCEPT ![job[h].msg] = "queued"]
  /\ UNCHANGED <<network, context, peer, sent, listener, crashed>>

RePostRecv(h) ==
  /\ ~crashed /\ pc[h] = "post"
  /\ WsaRecv(pc' = [pc EXCEPT ![h] = "reposted"],
             pc' = [pc EXCEPT ![h] = "check"],
             pc' = [pc EXCEPT ![h] = "dead"])
  /\ UNCHANGED <<sendPending, context, job>>
  /\ Elsewhere

RePostCheck(h) ==
  /\ Goto(h, "check", IF filled THEN "reposted" ELSE "dead")
  /\ UNCHANGED <<network, context>>
  /\ Elsewhere

\* Mutants: a receive that seems to have failed on a live socket is posted
\* again; the test is the wrong way round.
AliveTestRetries(h) ==
  /\ \/ ~Broken /\ Goto(h, "dead", "post")
     \/ peer # "open" /\ Goto(h, "dead", "deadRelease")
  /\ UNCHANGED <<network, context>>
  /\ Elsewhere

AliveTestInverted(h) ==
  /\ \/ ~Broken /\ Goto(h, "dead", "deadRelease")
     \/ peer # "open" /\ Goto(h, "dead", "reposted")
  /\ UNCHANGED <<network, context>>
  /\ Elsewhere

\* IsSocketAlive sends two bytes.
AliveTest(h) ==
  /\ \/ ~Broken /\ Goto(h, "dead", "reposted")
     \/ peer # "open" /\ Goto(h, "dead", "deadRelease")
     \/ freed > 0 /\ Goto(h, "dead", "deadRelease")
  /\ UNCHANGED <<network, context>>
  /\ Elsewhere

\* Mutant: the message is handed on after the receive was posted again.
DeliverAfterPost(h) ==
  \/ AddRef(h, "message", "post")
  \/ RePostRecv(h) \/ RePostCheck(h) \/ AliveTest(h)
  \/ Release(h, "deadRelease", "deadTest")
  \/ LastTest(h, "deadTest", "reposted")
  \/ Release(h, "reposted", "repost")
  \/ /\ Goto(h, "repost", "release")
     /\ task' = [task EXCEPT ![job[h].msg] = "queued"]
     /\ UNCHANGED <<network, context, peer, sent, listener, crashed>>

Deliver(h) ==
  \/ OnMsg(h)
  \/ AddRef(h, "repost", "post")
  \/ RePostRecv(h)
  \/ RePostCheck(h)
  \/ AliveTest(h)
  \/ Release(h, "deadRelease", "deadTest")
  \/ LastTest(h, "deadTest", "reposted")
  \/ Release(h, "reposted", "release")

\* A send has gone out whole: its I/O context is removed.
SendDone(h) ==
  /\ Goto(h, "sent", "release")
  /\ UNCHANGED <<network, context>>
  /\ Elsewhere

HandleError(h) ==
  \/ AddRef(h, "error", "errorRelease")
  \/ Release(h, "errorRelease", "errorTest")
  \/ LastTest(h, "errorTest", "wait")

EndCompletion(h) == Release(h, "release", "wait")

-------------------------------------------------------------------------------
(* RemoveSocketContext.  The LinkNetObj is destroyed with its last          *)
(* shared_ptr, and deletes the context.  The destructor of the context      *)
(* clears m_Socket, so that no map holds a freed context's key.             *)

DropLink(holder) ==
  /\ holders' = holders \ {holder}
  /\ freed'   = IF holders = {holder} THEN freed + 1 ELSE freed

\* GetLinkNetObj, under m_linkNetMapLock.
GetLink(h) ==
  /\ IF freed = 0 /\ "map" \in holders
     THEN Goto(h, "getLink", "unlink") /\ holders' = holders \cup {h}
     ELSE Goto(h, "getLink", "delete") /\ UNCHANGED holders
  /\ UNCHANGED <<receive, sendPending, port, ref, listed, freed>>
  /\ Elsewhere

\* SetLinkNetObj(nullptr).
Unlink(h) ==
  /\ Goto(h, "unlink", "unmap")
  /\ DropLink("context")
  /\ UNCHANGED <<receive, sendPending, port, ref, listed>>
  /\ Elsewhere

\* RemoveLinkNetObj, under m_linkNetMapLock.
Unmap(h) ==
  /\ Goto(h, "unmap", "dropLink")
  /\ IF freed = 0 THEN DropLink("map") ELSE UNCHANGED <<holders, freed>>
  /\ UNCHANGED <<receive, sendPending, port, ref, listed>>
  /\ Elsewhere

\* Where Execute goes on after RemoveSocketContext.
AfterRemove(h) ==
  CASE job[h].res = "zero"   -> "log"
    [] job[h].res = "data"   -> "release"
    [] job[h].res = "failed" -> "wait"

\* The end of DisConnected: its shared_ptr.
DisConnected(h) ==
  /\ Goto(h, "dropLink", AfterRemove(h))
  /\ DropLink(h)
  /\ UNCHANGED <<receive, sendPending, port, ref, listed>>
  /\ Elsewhere

\* DeleteSocketContext, under m_sockListMutex: deletes what the map still has.
DeleteSocketContext(h) ==
  /\ Goto(h, "delete", AfterRemove(h))
  /\ IF freed = 0 /\ listed
     THEN /\ listed'  = FALSE
          /\ holders' = holders \ {"context"}
          /\ freed'   = IF holders = {"context"} THEN freed + 2 ELSE freed + 1
     ELSE UNCHANGED <<listed, holders, freed>>
  /\ UNCHANGED <<receive, sendPending, port, ref>>
  /\ Elsewhere

RemoveSocketContext(h) ==
  GetLink(h) \/ Unlink(h) \/ Unmap(h) \/ DisConnected(h) \/ DeleteSocketContext(h)

\* The freed context, or the I/O context HandleNewConn took back, is followed
\* and is no longer there.  (When it still is, the steps above go on with it.)
HandlerFault(h) ==
  /\ ~crashed
  /\ \/ freed > 0 /\ pc[h] \notin {"wait", "dropLink"}
     \/ /\ listener = "dropped" /\ job[h].io = "recv"
        /\ pc[h] \in {"taken", "message", "post", "check"}
  /\ crashed' = TRUE
  /\ UNCHANGED <<network, listener, context, pc, job, task>>

-------------------------------------------------------------------------------
(* The task pool: OnAsyncMsg, with the raw pointer OnMsg bound into it.    *)
(* ThreadPool gives the messages to one thread after another, so that they *)
(* run in any order.                                                       *)

RunTask(m, from, to) ==
  /\ ~crashed /\ task[m] = from
  /\ task' = [task EXCEPT ![m] = to]
  /\ UNCHANGED <<peer, sent, receive, port, listener, ref, pc, job, crashed>>

\* Mutant: the context does not learn of its LinkNetObj.
AddLinkNetObjUnset ==
  /\ freed = 0
  /\ RunTask(1, "queued", "linked") /\ holders' = holders \cup {"map", "task"}
  /\ UNCHANGED <<sendPending, listed, freed>>

\* AddLinkNetObj: an object of the type asked for, in the map and in the
\* context, or none for the types CreateLinkNetObjBase does not know.
AddLinkNetObj ==
  /\ freed = 0
  /\ \/ RunTask(1, "queued", "linked") /\ holders' = holders \cup Owners
     \/ RunTask(1, "queued", "done") /\ UNCHANGED holders
  /\ UNCHANGED <<sendPending, listed, freed>>

\* RemoveSocketContext(SOCKET): from now on the LinkNetObj owns the context.
LeaveList ==
  /\ RunTask(1, "linked", "ack")
  /\ listed' = IF freed = 0 THEN FALSE ELSE listed
  /\ UNCHANGED <<sendPending, holders, freed>>

SendBuildConnectAck ==
  /\ freed = 0
  /\ RunTask(1, "ack", "dropLink")
  /\ WsaSend(1)
  /\ UNCHANGED <<listed, holders, freed>>

\* The end of OnAsyncMsg: its shared_ptr.
EndBuild ==
  /\ RunTask(1, "dropLink", "done")
  /\ DropLink("task")
  /\ UNCHANGED <<sendPending, listed>>

\* PER_SOCKET_CONTEXT::OnMsg tests m_pLinkNetObj; a message that comes to a
\* context without one is dropped.
FindLinkNetObj(m) ==
  /\ m # 1
  /\ RunTask(m, "queued", IF "context" \in holders THEN "answer" ELSE "done")
  /\ UNCHANGED <<sendPending, listed, holders, freed>>

\* LinkNetObj::OnMsg answers through the object that is there now.
Answer(m) ==
  /\ freed = 0 /\ "context" \in holders
  /\ RunTask(m, "answer", "done")
  /\ WsaSend(m)
  /\ UNCHANGED <<listed, holders, freed>>

\* The context was freed, or its m_pLinkNetObj cleared, since OnMsg.
TaskFault(m) ==
  /\ ~crashed
  /\ \/ freed > 0 /\ task[m] \in {"queued", "linked", "ack", "answer"}
     \/ task[m] = "answer" /\ "context" \notin holders
  /\ crashed' = TRUE
  /\ UNCHANGED <<network, listener, context, pc, job, task>>

-------------------------------------------------------------------------------
HandleNewConn == Associate \/ FirstRecv \/ FirstRecvCheck \/ EnterList

Execute(h) ==
  \/ Dequeue(h) \/ BeginCompletion(h) \/ EndOfStream(h) \/ LogClosed(h)
  \/ Deliver(h) \/ SendDone(h) \/ HandleError(h) \/ EndCompletion(h)
  \/ RemoveSocketContext(h) \/ HandlerFault(h)

OnAsyncMsg(m) ==
  \/ m = 1 /\ (AddLinkNetObj \/ LeaveList \/ SendBuildConnectAck \/ EndBuild)
  \/ FindLinkNetObj(m) \/ Answer(m) \/ TaskFault(m)

Network ==
  /\ ~crashed
  /\ PeerSends \/ PeerLeaves \/ RecvCompletes \/ \E m \in Msgs : SendCompletes(m)

Next ==
  \/ Network
  \/ HandleNewConn
  \/ \E h \in Handlers : Execute(h)
  \/ \E m \in Msgs : OnAsyncMsg(m)

Spec == Init /\ [][Next]_vars

-------------------------------------------------------------------------------
(* Properties.                                                             *)

\* The receive of a connection goes round: it is posted, completes into the
\* port, is taken by a handler and posted again (SocketHandler.cpp:77-78).  It
\* is never in two places, so that its buffer has one user; and as long as the
\* peer has not left it is in one, except that a WSARecv that failed has left
\* none (which nobody does anything about: SocketHandler.cpp:183-188, 206).  So
\* only such a failure makes an open connection fall silent.
Receiving == {h \in Handlers : /\ job[h].io = "recv" /\ job[h].res = "data"
                               /\ pc[h] \in {"taken", "message", "repost", "post"}}
InPort    == {done \in port : done.io = "recv"}
Receives  == Cardinality(Receiving) + Cardinality(InPort) + (IF recvPending THEN 1 ELSE 0)

Before == {"accepted", "associated", "stopped"}

OneReceive ==
  /\ Receives <= 1
  /\ peer = "open" /\ listener \notin Before => (Receives = 1 <=> ~lost)

\* So messages are handed to the task pool in the order they were sent, though
\* any handler may take any completion.
DispatchedInOrder ==
  \A m, n \in Msgs : m < n /\ task[n] # "none" => task[m] # "none"

\* As long as the peer has not left, m_Ref counts the references: the one of
\* the list, one of each handler at work, and one more while it posts.
Held(h) ==
  IF pc[h] \in {"message", "repost", "sent", "release"} THEN 1
  ELSE IF pc[h] \in {"post", "check", "dead", "reposted"} THEN 2 ELSE 0

Holding(n) == {h \in Handlers : Held(h) >= n}

RefExact ==
  peer = "open" =>
    ref = Cardinality(Holding(1)) + Cardinality(Holding(2))
            + (IF listener = "listed" THEN 1 ELSE 0)

\* A connection whose peer has not left is never removed, whatever its
\* handlers do.
OpenIsKept == freed > 0 => peer # "open"

\* Messages are dispatched to different threads, and one that overtakes the
\* build request finds no LinkNetObj and is dropped (TcpThreadServer.cpp:206-213,
\* SocketDefine.h:237-243).  Once the object is there, and as long as the peer
\* has not left, no message is dropped any more.
ServedOnceBuilt ==
  [][\A m \in Msgs \ {1} : task[m] = "queued" /\ task'[m] = "done" =>
       holders = {} \/ peer # "open"]_vars

\* "ret == 0, but the buffer has no data: the client has disconnected"
\* (TcpThreadServer.cpp:175, SocketHandler.cpp:214).
EmptyMeansClosed ==
  ~filled /\ (listener = "check" \/ \E h \in Handlers : pc[h] = "check")
    => peer # "open"

-------------------------------------------------------------------------------
(* The inductive invariant of ServerConnProofs.                            *)

\* A handler that delivers has taken a receive with a message.
Delivering ==
  {"message", "repost", "post", "check", "dead", "deadRelease", "deadTest", "reposted"}

JobInv ==
  \A h \in Handlers :
    /\ pc[h] = "taken" => job[h].res # "failed"
    /\ pc[h] \in Delivering => job[h].io = "recv" /\ job[h].res = "data"

\* The one receive, place by place.
ReceiveInv ==
  /\ \A h, k \in Receiving : h = k
  /\ \A d, e \in InPort : d = e
  /\ Receiving = {} \/ InPort = {}
  /\ recvPending \/ listener \in Before => Receiving = {} /\ InPort = {}
  /\ listener \in Before => ~recvPending
  /\ peer = "open" /\ listener \notin Before
       => lost \/ recvPending \/ Receiving # {} \/ InPort # {}
  /\ lost => ~recvPending /\ Receiving = {} /\ InPort = {}

\* Every message but the last one received has been dispatched; the last one is
\* dispatched, or on its way in the port or at a handler.
Arrived(done) == done.io = "recv" /\ done.res = "data"
Bringing(h)   == Arrived(job[h]) /\ pc[h] \in {"taken", "message"}
OnItsWay(m)   == m = received /\ task[m] = "none"

OrderInv ==
  /\ \A m \in Msgs : m > received => task[m] = "none"
  /\ \A m \in Msgs : m < received => task[m] # "none"
  /\ \A done \in port : Arrived(done) => OnItsWay(done.msg)
  /\ \A h \in Handlers : Bringing(h) => OnItsWay(job[h].msg)
  /\ \A m \in Msgs : OnItsWay(m) =>
       (\E done \in port : Arrived(done)) \/ (\E h \in Handlers : Bringing(h))

\* As long as the peer has not left, no handler is on the way to a removal.
OpenStates ==
  {"wait", "taken", "message", "repost", "post", "check", "dead", "reposted",
   "sent", "release"}

OpenInv ==
  peer = "open" =>
    /\ freed = 0
    /\ holders # {} => {"map", "context"} \subseteq holders
    /\ \A done \in port : done.res = "data"
    /\ \A h \in Handlers : pc[h] \in OpenStates /\ job[h].res = "data"

IInv ==
  TypeOK /\ JobInv /\ ReceiveInv /\ OrderInv /\ OpenInv /\ RefExact
================================================================================

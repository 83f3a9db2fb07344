--------------------------- MODULE ServerConnProofs ---------------------------
(***************************************************************************)
(* Proofs about ServerConn for every number of handlers and messages: the  *)
(* receive is never doubled, messages are dispatched in order, and as long *)
(* as the peer has not left the count of references is exact and the       *)
(* connection is kept.                                                     *)
(***************************************************************************)
EXTENDS ServerConn, FiniteSetTheorems, TLAPS

-------------------------------------------------------------------------------
(* The steps of a handler, by what they do to the receive.                 *)

\* Where a handler has no receive of its own.
Late == HandlerStates \ {"wait", "taken", "message", "repost", "post"}

LateStep(h) ==
  /\ pc[h] \in Late
  /\ \E to \in Late \cup {"wait"} :
       Goto(h, pc[h], to) /\ (to \in Delivering => pc[h] \in Delivering)
  /\ UNCHANGED <<receive, port, peer, listener, task>>

LEMMA HandlerSteps ==
  ASSUME TypeOK, NEW h \in Handlers, Execute(h)
  PROVE  \/ Dequeue(h) \/ BeginCompletion(h) \/ OnMsg(h)
         \/ AddRef(h, "repost", "post") \/ RePostRecv(h)
         \/ HandlerFault(h) \/ LateStep(h)
<1>0. ASSUME NEW from \in Late, NEW to \in Late \cup {"wait"}, Goto(h, from, to),
             to \in Delivering => from \in Delivering,
             UNCHANGED <<receive, port, peer, listener, task>>
      PROVE  LateStep(h)
  BY <1>0 DEF Goto, LateStep
<1> USE <1>0 DEF Elsewhere, Late, HandlerStates, Delivering, network, context, receive
<1>1. ASSUME NEW from \in Late, NEW to \in Late \cup {"wait"}, Release(h, from, to),
             to \in Delivering => from \in Delivering
      PROVE  LateStep(h)
  BY <1>1 DEF Release
<1>2. ASSUME NEW from \in Late, NEW otherwise \in Late \cup {"wait"},
             LastTest(h, from, otherwise), otherwise \in Delivering => from \in Delivering
      PROVE  LateStep(h)
  <2>1. CASE ref = 1
    BY <1>2, <2>1 DEF LastTest
  <2>2. CASE ref # 1
    BY <1>2, <2>2 DEF LastTest
  <2>3. QED
    BY <2>1, <2>2
<1>3. CASE EndOfStream(h)
  BY <1>1, <1>2, <1>3 DEF EndOfStream
<1>4. CASE LogClosed(h)
  BY <1>4 DEF LogClosed
<1>5. CASE RePostCheck(h)
  BY <1>5 DEF RePostCheck
<1>6. CASE AliveTest(h)
  BY <1>6 DEF AliveTest
<1>7. CASE SendDone(h)
  BY <1>7 DEF SendDone
<1>8. CASE HandleError(h)
  BY <1>1, <1>2, <1>8 DEF HandleError, AddRef
<1>9. CASE EndCompletion(h)
  BY <1>1, <1>9 DEF EndCompletion
<1>10. CASE RemoveSocketContext(h)
  <2>1. AfterRemove(h) \in {"log", "release", "wait"}
    BY DEF TypeOK, AfterRemove, Completions, NoJob
  <2>2. QED
    BY <1>10, <2>1
    DEF RemoveSocketContext, GetLink, Unlink, Unmap, DisConnected,
        DeleteSocketContext
<1>11. CASE Deliver(h)
  BY <1>1, <1>2, <1>5, <1>6, <1>11 DEF Deliver
<1>12. QED
  BY <1>3, <1>4, <1>7, <1>8, <1>9, <1>10, <1>11 DEF Execute

-------------------------------------------------------------------------------
(* Types.                                                                  *)

\* m_Ref wraps at 16 bits.
LEMMA RefWraps ==
  ASSUME NEW n \in Nat
  PROVE  n % RefSize \in 0 .. RefSize - 1
BY RefAssumption, FS_CardinalityType, HandlersAssumption

LEMMA HandlerTypes ==
  ASSUME TypeOK, NEW h \in Handlers, Execute(h)
  PROVE  pc' \in [Handlers -> HandlerStates] /\ job' \in [Handlers -> Completions \cup {NoJob}]
<1> USE DEF TypeOK, Goto, HandlerStates
<1>1. CASE Dequeue(h)
  BY <1>1 DEF Dequeue
<1>2. CASE BeginCompletion(h)
  BY <1>2 DEF BeginCompletion, AddRef
<1>3. CASE OnMsg(h)
  BY <1>3 DEF OnMsg
<1>4. CASE AddRef(h, "repost", "post")
  BY <1>4 DEF AddRef
<1>5. CASE RePostRecv(h)
  BY <1>5 DEF RePostRecv, WsaRecv
<1>6. CASE HandlerFault(h)
  BY <1>6 DEF HandlerFault
<1>7. CASE LateStep(h)
  BY <1>7 DEF LateStep, Late
<1>8. QED
  BY <1>1, <1>2, <1>3, <1>4, <1>5, <1>6, <1>7, HandlerSteps

ReceiveTypes ==
  /\ received \in 0 .. MaxMsg /\ recvPending \in BOOLEAN /\ filled \in BOOLEAN
  /\ lost \in BOOLEAN
  /\ port \subseteq Completions

LEMMA CompletionTypes ==
  /\ \A m \in Msgs :
       /\ [io |-> "recv", res |-> "data", msg |-> m] \in Completions
       /\ [io |-> "send", res |-> "data", msg |-> m] \in Completions
       /\ [io |-> "send", res |-> "failed", msg |-> m] \in Completions
  /\ [io |-> "recv", res |-> "zero", msg |-> 0] \in Completions
  /\ [io |-> "recv", res |-> "failed", msg |-> 0] \in Completions
<1>1. ASSUME NEW m \in Msgs
      PROVE  /\ [io |-> "recv", res |-> "data", msg |-> m] \in Completions
             /\ [io |-> "send", res |-> "data", msg |-> m] \in Completions
             /\ [io |-> "send", res |-> "failed", msg |-> m] \in Completions
  BY DEF Completions
<1>2. [io |-> "recv", res |-> "zero", msg |-> 0] \in Completions
  BY DEF Completions
<1>3. [io |-> "recv", res |-> "failed", msg |-> 0] \in Completions
  BY DEF Completions
<1>4. QED
  BY <1>1, <1>2, <1>3

LEMMA ArrivalTypes ==
  ASSUME TypeOK, DataArrives \/ EndArrives
  PROVE  received' \in 0 .. MaxMsg /\ filled' \in BOOLEAN /\ port' \subseteq Completions
<1>1. CASE DataArrives
  <2>1. received + 1 \in Msgs
    BY <1>1, MsgAssumption DEF DataArrives, TypeOK, Msgs
  <2>2. port' \subseteq Completions
    BY <1>1, <2>1, CompletionTypes DEF DataArrives, Completed, TypeOK
  <2>3. QED
    BY <1>1, <2>1, <2>2, MsgAssumption DEF DataArrives, Msgs
<1>2. CASE EndArrives
  BY <1>2, CompletionTypes DEF EndArrives, Completed, TypeOK
<1>3. QED
  BY <1>1, <1>2

\* What WsaRecv does to the receive, whatever the caller does after it.
Posted ==
  \/ /\ freed = 0 /\ lost' = FALSE
     /\ recvPending' = TRUE /\ filled' = FALSE /\ UNCHANGED <<received, port>>
  \/ /\ freed = 0 /\ lost' = FALSE
     /\ (DataArrives \/ EndArrives) /\ UNCHANGED recvPending
  \/ /\ lost' = TRUE
     /\ filled' = FALSE /\ UNCHANGED <<received, recvPending, port>>

LEMMA PostedTypes ==
  ASSUME TypeOK, Posted
  PROVE  ReceiveTypes'
BY ArrivalTypes DEF Posted, TypeOK, ReceiveTypes

LEMMA DropLinkTypes ==
  ASSUME TypeOK, NEW holder, DropLink(holder)
  PROVE  holders' \subseteq Owners \cup Handlers /\ freed' \in Nat
BY DEF DropLink, TypeOK

LEMMA TypeStep == TypeOK /\ [Next]_vars => TypeOK'
<1> SUFFICES ASSUME TypeOK, [Next]_vars PROVE TypeOK'
  OBVIOUS
<1> USE DEF receive, network, context
<1>1. CASE Network
  <2>1. CASE PeerSends
    BY <2>1, MsgAssumption DEF PeerSends, TypeOK
  <2>2. CASE PeerLeaves
    BY <2>2 DEF PeerLeaves, TypeOK
  <2>3. CASE RecvCompletes
    <3>1. received' \in 0 .. MaxMsg /\ filled' \in BOOLEAN /\ port' \subseteq Completions
      BY <2>3, ArrivalTypes, CompletionTypes DEF RecvCompletes, Completed, TypeOK
    <3>2. QED
      BY <2>3, <3>1 DEF RecvCompletes, TypeOK
  <2>4. ASSUME NEW m \in Msgs, SendCompletes(m) PROVE TypeOK'
    BY <2>4, CompletionTypes DEF SendCompletes, Completed, TypeOK
  <2>5. QED
    BY <1>1, <2>1, <2>2, <2>3, <2>4 DEF Network
<1>2. CASE HandleNewConn
  <2>1. CASE Associate
    BY <2>1 DEF Associate, ListenerAt, ListenerStates, TypeOK
  <2>2. CASE FirstRecv
    <3>1. Posted /\ listener' \in {"posted", "check", "dropped"}
      BY <2>2 DEF FirstRecv, WsaRecv, Posted
    <3>2. ReceiveTypes'
      BY <3>1, PostedTypes
    <3>3. QED
      BY <2>2, <3>1, <3>2 DEF FirstRecv, ReceiveTypes, ListenerStates, TypeOK
  <2>3. CASE FirstRecvCheck
    BY <2>3 DEF FirstRecvCheck, ListenerAt, ListenerStates, TypeOK
  <2>4. CASE EnterList
    <3>1. ref' \in 0 .. RefSize - 1
      BY <2>4, RefWraps DEF EnterList, TypeOK
    <3>2. QED
      BY <2>4, <3>1 DEF EnterList, ListenerAt, ListenerStates, TypeOK
  <2>5. QED
    BY <1>2, <2>1, <2>2, <2>3, <2>4 DEF HandleNewConn
<1>3. ASSUME NEW h \in Handlers, Execute(h) PROVE TypeOK'
  <2> DEFINE Placed == pc' \in [Handlers -> HandlerStates]
                       /\ job' \in [Handlers -> Completions \cup {NoJob}]
  <2>1. Placed
    BY <1>3, HandlerTypes
  <2> HIDE DEF Placed
  <2>2. ASSUME NEW from, NEW to, AddRef(h, from, to) PROVE TypeOK'
    <3>1. ref' \in 0 .. RefSize - 1
      BY <2>2, RefWraps DEF AddRef, TypeOK
    <3>2. QED
      BY <2>1, <2>2, <3>1 DEF AddRef, Elsewhere, Placed, TypeOK
  <2>3. ASSUME NEW from, NEW to, Release(h, from, to) PROVE TypeOK'
    <3>1. ref + RefSize - 1 \in Nat
      BY RefAssumption DEF TypeOK
    <3>2. ref' \in 0 .. RefSize - 1
      BY <2>3, <3>1, RefWraps DEF Release
    <3>3. QED
      BY <2>1, <2>3, <3>2 DEF Release, Elsewhere, Placed, TypeOK
  <2>4. ASSUME UNCHANGED <<network, context, listener, task, crashed>> PROVE TypeOK'
    BY <2>1, <2>4 DEF Placed, TypeOK
  <2>5. ASSUME NEW from, NEW otherwise, LastTest(h, from, otherwise) PROVE TypeOK'
    BY <2>4, <2>5 DEF LastTest, Elsewhere
  <2>6. CASE Dequeue(h)
    BY <2>1, <2>6 DEF Dequeue, Elsewhere, Placed, TypeOK
  <2>7. CASE OnMsg(h)
    <3>1. task' \in [Msgs -> TaskStates]
      BY <2>7 DEF OnMsg, TypeOK, TaskStates
    <3>2. QED
      BY <2>1, <2>7, <3>1 DEF OnMsg, Placed, TypeOK
  <2>8. CASE RePostRecv(h)
    <3>1. Posted
      BY <2>8 DEF RePostRecv, WsaRecv, Posted
    <3>2. ReceiveTypes'
      BY <3>1, PostedTypes
    <3>3. QED
      BY <2>1, <2>8, <3>2 DEF RePostRecv, ReceiveTypes, Elsewhere, Placed, TypeOK
  <2>9. CASE LogClosed(h) \/ RePostCheck(h) \/ AliveTest(h) \/ SendDone(h)
    BY <2>4, <2>9 DEF LogClosed, RePostCheck, AliveTest, SendDone, Elsewhere
  <2>10. CASE RemoveSocketContext(h)
    <3>1. /\ listed' \in BOOLEAN
          /\ holders' \subseteq Owners \cup Handlers
          /\ freed' \in Nat
      <4>1. CASE GetLink(h)
        BY <4>1 DEF GetLink, TypeOK
      <4>2. CASE Unlink(h) \/ Unmap(h) \/ DisConnected(h)
        BY <4>2, DropLinkTypes DEF Unlink, Unmap, DisConnected, TypeOK
      <4>3. CASE DeleteSocketContext(h)
        <5>1. CASE freed = 0 /\ listed
          <6>1. /\ listed' = FALSE /\ holders' = holders \ {"context"}
                /\ freed' \in {freed + 1, freed + 2}
            BY <4>3, <5>1 DEF DeleteSocketContext
          <6>2. holders' \subseteq Owners \cup Handlers
            BY <6>1 DEF TypeOK
          <6>3. freed' \in Nat
            BY <6>1 DEF TypeOK
          <6>4. QED
            BY <6>1, <6>2, <6>3
        <5>2. CASE ~(freed = 0 /\ listed)
          BY <4>3, <5>2 DEF DeleteSocketContext, TypeOK
        <5>3. QED
          BY <5>1, <5>2
      <4>4. QED
        BY <2>10, <4>1, <4>2, <4>3 DEF RemoveSocketContext
    <3>2. UNCHANGED <<network, listener, ref, task, crashed>>
      BY <2>10
      DEF RemoveSocketContext, GetLink, Unlink, Unmap, DisConnected,
          DeleteSocketContext, Elsewhere
    <3>3. QED
      BY <2>1, <3>1, <3>2 DEF Placed, TypeOK
  <2>11. CASE HandlerFault(h)
    BY <2>11 DEF HandlerFault, TypeOK
  <2>12. QED
    BY <1>3, <2>2, <2>3, <2>5, <2>6, <2>7, <2>8, <2>9, <2>10, <2>11
    DEF Execute, BeginCompletion, EndOfStream, Deliver, HandleError, EndCompletion
<1>4. ASSUME NEW m \in Msgs, OnAsyncMsg(m) PROVE TypeOK'
  <2>1. ASSUME NEW n \in Msgs, NEW from, NEW to \in TaskStates, RunTask(n, from, to)
        PROVE  task' \in [Msgs -> TaskStates]
    BY <2>1 DEF RunTask, TypeOK
  <2>2. 1 \in Msgs
    BY MsgAssumption DEF Msgs
  <2>3. CASE TaskFault(m)
    BY <2>3 DEF TaskFault, TypeOK
  <2>4. CASE ~TaskFault(m)
    <3>1. task' \in [Msgs -> TaskStates]
      BY <1>4, <2>1, <2>2, <2>4
      DEF OnAsyncMsg, AddLinkNetObj, LeaveList, SendBuildConnectAck, EndBuild,
          FindLinkNetObj, Answer, TaskStates
    <3>2. /\ holders' \subseteq Owners \cup Handlers /\ freed' \in Nat
          /\ listed' \in BOOLEAN /\ sendPending' \subseteq Msgs
      BY <1>4, <2>2, <2>4, DropLinkTypes
      DEF OnAsyncMsg, AddLinkNetObj, LeaveList, SendBuildConnectAck, EndBuild,
          FindLinkNetObj, Answer, WsaSend, TypeOK
    <3>3. UNCHANGED <<peer, sent, receive, port, listener, ref, pc, job, crashed>>
      BY <1>4, <2>4
      DEF OnAsyncMsg, AddLinkNetObj, LeaveList, SendBuildConnectAck, EndBuild,
          FindLinkNetObj, Answer, RunTask
    <3>4. QED
      BY <3>1, <3>2, <3>3 DEF TypeOK
  <2>5. QED
    BY <2>3, <2>4
<1>5. CASE UNCHANGED vars
  BY <1>5 DEF vars, TypeOK
<1>6. QED
  BY <1>1, <1>2, <1>3, <1>4, <1>5 DEF Next

-------------------------------------------------------------------------------
(* Who may change what.                                                    *)

LEMMA OthersKeepHandlers ==
  Network \/ HandleNewConn \/ (\E m \in Msgs : OnAsyncMsg(m)) \/ UNCHANGED vars
    => UNCHANGED <<pc, job>>
<1>1. Network => UNCHANGED <<pc, job>>
  BY DEF Network, PeerSends, PeerLeaves, RecvCompletes, SendCompletes
<1>2. HandleNewConn => UNCHANGED <<pc, job>>
  BY DEF HandleNewConn, Associate, FirstRecv, FirstRecvCheck, EnterList
<1>3. ASSUME NEW m \in Msgs, OnAsyncMsg(m) PROVE UNCHANGED <<pc, job>>
  BY <1>3
  DEF OnAsyncMsg, AddLinkNetObj, LeaveList, SendBuildConnectAck, EndBuild,
      FindLinkNetObj, Answer, TaskFault, RunTask
<1>4. UNCHANGED vars => UNCHANGED <<pc, job>>
  BY DEF vars
<1>5. QED
  BY <1>1, <1>2, <1>3, <1>4

LEMMA TasksKeepReceive ==
  ASSUME NEW m \in Msgs, OnAsyncMsg(m)
  PROVE  UNCHANGED <<peer, receive, port, listener, ref, pc, job>>
BY DEF OnAsyncMsg, AddLinkNetObj, LeaveList, SendBuildConnectAck, EndBuild,
       FindLinkNetObj, Answer, TaskFault, RunTask, network, receive, context

LEMMA JobStep == TypeOK /\ JobInv /\ [Next]_vars => JobInv'
<1> SUFFICES ASSUME TypeOK, JobInv, [Next]_vars PROVE JobInv'
  OBVIOUS
<1> USE DEF JobInv, Delivering, Goto
<1>1. ASSUME NEW h \in Handlers, Execute(h) PROVE JobInv'
  <2>0. pc \in [Handlers -> HandlerStates] /\ job \in [Handlers -> Completions \cup {NoJob}]
    BY DEF TypeOK
  <2>1. CASE Dequeue(h)
    BY <2>0, <2>1 DEF Dequeue
  <2>2. CASE BeginCompletion(h)
    <3>1. job[h].res \in {"data", "zero"} /\ job[h].io \in {"recv", "send", "none"}
      BY <2>0, <2>2 DEF BeginCompletion, AddRef, Completions, NoJob
    <3>2. QED
      BY <2>0, <2>2, <3>1 DEF BeginCompletion, AddRef
  <2>3. CASE OnMsg(h)
    BY <2>0, <2>3 DEF OnMsg
  <2>4. CASE AddRef(h, "repost", "post")
    BY <2>0, <2>4 DEF AddRef
  <2>5. CASE RePostRecv(h)
    BY <2>0, <2>5 DEF RePostRecv, WsaRecv
  <2>6. CASE HandlerFault(h)
    BY <2>6 DEF HandlerFault
  <2>7. CASE LateStep(h)
    BY <2>0, <2>7 DEF LateStep, Late
  <2>8. QED
    BY <1>1, <2>1, <2>2, <2>3, <2>4, <2>5, <2>6, <2>7, HandlerSteps
<1>2. CASE UNCHANGED <<pc, job>>
  BY <1>2
<1>3. QED
  BY <1>1, <1>2, OthersKeepHandlers DEF Next

-------------------------------------------------------------------------------
(* As long as the peer has not left.                                       *)

\* The steps of a handler that has no receive of its own.
LEMMA OpenLateSteps ==
  ASSUME TypeOK, OpenInv, peer = "open", NEW h \in Handlers, Execute(h), pc[h] \in Late
  PROVE  \/ RePostCheck(h) \/ AliveTest(h) \/ SendDone(h)
         \/ Release(h, "reposted", "release") \/ Release(h, "release", "wait")
         \/ HandlerFault(h)
<1>1. pc[h] \in {"check", "dead", "reposted", "sent", "release"}
  BY DEF OpenInv, OpenStates, Late
<1> USE DEF Goto
<1>2. ~Dequeue(h) /\ ~BeginCompletion(h)
  BY <1>1 DEF Dequeue, BeginCompletion, AddRef
<1>3. ~EndOfStream(h) /\ ~LogClosed(h) /\ ~HandleError(h)
  BY <1>1 DEF EndOfStream, LogClosed, HandleError, AddRef, Release, LastTest
<1>4. ~RemoveSocketContext(h)
  BY <1>1
  DEF RemoveSocketContext, GetLink, Unlink, Unmap, DisConnected, DeleteSocketContext
<1>5. /\ ~OnMsg(h) /\ ~AddRef(h, "repost", "post") /\ ~RePostRecv(h)
      /\ ~Release(h, "deadRelease", "deadTest") /\ ~LastTest(h, "deadTest", "reposted")
  BY <1>1 DEF OnMsg, AddRef, RePostRecv, Release, LastTest
<1>6. QED
  BY <1>2, <1>3, <1>4, <1>5 DEF Execute, Deliver, EndCompletion

\* While the connection is open no receive brings its end, and none fails.
LEMMA OpenArrivals ==
  ASSUME OpenInv, peer = "open",
         DataArrives \/ EndArrives \/ (Broken /\ Completed("recv", "failed", 0))
  PROVE  \A done \in port' : done.res = "data"
BY DEF OpenInv, DataArrives, EndArrives, Broken, Completed

\* No step removes an open connection (SocketHandler.cpp:63, 141, 176).
LEMMA OpenStep == TypeOK /\ JobInv /\ OpenInv /\ [Next]_vars => OpenInv'
<1> SUFFICES ASSUME TypeOK, JobInv, OpenInv, [Next]_vars, peer' = "open"
             PROVE  OpenInv'
  BY DEF OpenInv
<1> USE DEF network, receive, context
<1> DEFINE Kept == freed = 0 /\ (holders # {} => {"map", "context"} \subseteq holders)
           Ports == \A done \in port : done.res = "data"
           Places == \A h \in Handlers : pc[h] \in OpenStates /\ job[h].res = "data"
<1>0. peer = "open" => Kept /\ Ports /\ Places
  BY DEF OpenInv
<1>1. Kept' /\ Ports' /\ Places' => OpenInv'
  BY DEF OpenInv
<1>2. CASE Network
  <2>1. peer = "open" /\ UNCHANGED <<context, pc, job>>
    BY <1>2 DEF Network, PeerSends, PeerLeaves, RecvCompletes, SendCompletes
  <2>2. Ports'
    <3>1. CASE PeerSends \/ PeerLeaves
      BY <1>0, <2>1, <3>1 DEF PeerSends, PeerLeaves
    <3>2. CASE RecvCompletes
      BY <2>1, <3>2, OpenArrivals DEF RecvCompletes
    <3>3. ASSUME NEW m \in Msgs, SendCompletes(m) PROVE Ports'
      BY <1>0, <2>1, <3>3 DEF SendCompletes, Completed, Broken
    <3>4. QED
      BY <1>2, <3>1, <3>2, <3>3 DEF Network
  <2>3. QED
    BY <1>0, <1>1, <2>1, <2>2
<1>3. CASE HandleNewConn
  <2>1. peer = "open" /\ UNCHANGED <<freed, holders, pc, job>>
    BY <1>3 DEF HandleNewConn, Associate, FirstRecv, FirstRecvCheck, EnterList
  <2>2. Ports'
    <3>1. CASE FirstRecv
      BY <1>0, <2>1, <3>1, OpenArrivals DEF FirstRecv, WsaRecv
    <3>2. CASE ~FirstRecv
      BY <1>0, <1>3, <2>1, <3>2 DEF HandleNewConn, Associate, FirstRecvCheck, EnterList
    <3>3. QED
      BY <3>1, <3>2
  <2>3. QED
    BY <1>0, <1>1, <2>1, <2>2
<1>4. ASSUME NEW h \in Handlers, Execute(h) PROVE OpenInv'
  <2>0. peer = "open" /\ pc \in [Handlers -> HandlerStates]
        /\ job \in [Handlers -> Completions \cup {NoJob}]
    <3>1. peer = "open"
      BY <1>4, HandlerSteps
      DEF Dequeue, BeginCompletion, OnMsg, AddRef, RePostRecv, HandlerFault,
          LateStep, Elsewhere
    <3>2. QED
      BY <3>1 DEF TypeOK
  <2> USE <2>0 DEF Goto, Elsewhere
  <2>1. CASE Dequeue(h)
    <3>1. Places'
      BY <1>0, <2>1 DEF Dequeue, OpenStates
    <3>2. QED
      BY <1>0, <1>1, <2>1, <3>1 DEF Dequeue
  <2>2. CASE BeginCompletion(h)
    <3>1. Places'
      BY <1>0, <2>2 DEF BeginCompletion, AddRef, OpenStates
    <3>2. QED
      BY <1>0, <1>1, <2>2, <3>1 DEF BeginCompletion, AddRef
  <2>3. CASE OnMsg(h) \/ AddRef(h, "repost", "post")
    <3>1. Places'
      BY <1>0, <2>3 DEF OnMsg, AddRef, OpenStates
    <3>2. QED
      BY <1>0, <1>1, <2>3, <3>1 DEF OnMsg, AddRef
  <2>4. CASE RePostRecv(h)
    <3>1. Places'
      BY <1>0, <2>4 DEF RePostRecv, WsaRecv, Broken, OpenStates
    <3>2. Ports'
      BY <1>0, <2>4, OpenArrivals DEF RePostRecv, WsaRecv
    <3>3. QED
      BY <1>0, <1>1, <2>4, <3>1, <3>2 DEF RePostRecv
  <2>5. CASE HandlerFault(h)
    BY <1>0, <1>1, <2>5 DEF HandlerFault
  <2>6. CASE LateStep(h)
    <3>1. UNCHANGED <<holders, freed, port>>
      BY <1>4, <2>6, OpenLateSteps
      DEF LateStep, RePostCheck, AliveTest, SendDone, Release, HandlerFault
    <3>2. Places'
      <4>1. CASE RePostCheck(h) \/ SendDone(h)
        BY <1>0, <4>1 DEF RePostCheck, SendDone, OpenStates
      <4>2. CASE AliveTest(h)
        BY <1>0, <4>2 DEF AliveTest, Broken, OpenStates
      <4>3. CASE Release(h, "reposted", "release") \/ Release(h, "release", "wait")
        BY <1>0, <4>3 DEF Release, OpenStates, NoJob
      <4>4. CASE HandlerFault(h)
        BY <1>0, <4>4 DEF HandlerFault
      <4>5. QED
        BY <1>4, <2>6, <4>1, <4>2, <4>3, <4>4, OpenLateSteps DEF LateStep
    <3>3. QED
      BY <1>0, <1>1, <3>1, <3>2
  <2>7. QED
    BY <1>4, <2>1, <2>2, <2>3, <2>4, <2>5, <2>6, HandlerSteps
<1>5. ASSUME NEW m \in Msgs, OnAsyncMsg(m) PROVE OpenInv'
  <2>1. UNCHANGED <<peer, port, pc, job>>
    BY <1>5, TasksKeepReceive
  <2>2. Kept'
    <3>1. CASE AddLinkNetObj
      <4>1. holders' = holders \/ holders' = holders \cup {"map", "context", "task"}
        BY <3>1 DEF AddLinkNetObj, Owners
      <4>2. QED
        BY <1>0, <2>1, <3>1, <4>1 DEF AddLinkNetObj
    <3>2. CASE EndBuild
      <4>1. holders # {"task"}
        BY <1>0, <2>1
      <4>2. holders' = holders \ {"task"} /\ freed' = freed
        BY <3>2, <4>1 DEF EndBuild, DropLink
      <4>3. QED
        BY <1>0, <2>1, <4>2
    <3>3. CASE ~AddLinkNetObj /\ ~EndBuild
      BY <1>0, <1>5, <2>1, <3>3
      DEF OnAsyncMsg, LeaveList, SendBuildConnectAck, FindLinkNetObj, Answer, TaskFault
    <3>4. QED
      BY <3>1, <3>2, <3>3
  <2>3. QED
    BY <1>0, <1>1, <2>1, <2>2
<1>6. CASE UNCHANGED vars
  BY <1>0, <1>1, <1>6 DEF vars
<1>7. QED
  BY <1>2, <1>3, <1>4, <1>5, <1>6 DEF Next

-------------------------------------------------------------------------------
(* The one receive.                                                        *)

\* The completion of a receive is the only one in the port.
LEMMA OneArrival ==
  ASSUME InPort = {},
         DataArrives \/ EndArrives \/ Completed("recv", "failed", 0)
  PROVE  InPort' # {} /\ \A d, e \in InPort' : d = e
<1>1. ASSUME NEW res, NEW msg, Completed("recv", res, msg)
      PROVE  InPort' = {[io |-> "recv", res |-> res, msg |-> msg]}
  BY <1>1 DEF Completed, InPort
<1>2. \/ InPort' = {[io |-> "recv", res |-> "data", msg |-> received + 1]}
      \/ InPort' = {[io |-> "recv", res |-> "zero", msg |-> 0]}
      \/ InPort' = {[io |-> "recv", res |-> "failed", msg |-> 0]}
  BY <1>1 DEF DataArrives, EndArrives
<1>3. QED
  BY <1>2

LEMMA PostedOne ==
  ASSUME Posted, InPort = {}, ~recvPending, recvPending \in BOOLEAN
  PROVE  /\ recvPending' \in BOOLEAN
         /\ recvPending' => InPort' = {}
         /\ \A d, e \in InPort' : d = e
         /\ lost' \/ recvPending' \/ InPort' # {}
         /\ lost' => ~recvPending' /\ InPort' = {}
<1>1. CASE recvPending' = TRUE /\ UNCHANGED port /\ ~lost'
  BY <1>1 DEF InPort
<1>2. CASE (DataArrives \/ EndArrives) /\ UNCHANGED recvPending /\ ~lost'
  BY <1>2, OneArrival
<1>3. CASE lost' = TRUE /\ UNCHANGED <<recvPending, port>>
  BY <1>3 DEF InPort
<1>4. QED
  BY <1>1, <1>2, <1>3 DEF Posted

LEMMA PeerStaysGone == [Next]_vars /\ peer' = "open" => peer = "open"
<1> SUFFICES ASSUME [Next]_vars, peer' = "open" PROVE peer = "open"
  OBVIOUS
<1>1. CASE Network
  BY <1>1 DEF Network, PeerSends, PeerLeaves, RecvCompletes, SendCompletes
<1>2. CASE HandleNewConn
  BY <1>2 DEF HandleNewConn, Associate, FirstRecv, FirstRecvCheck, EnterList, network, context
<1>3. ASSUME NEW h \in Handlers, Execute(h) PROVE peer' = peer
  BY <1>3
  DEF Execute, Dequeue, BeginCompletion, EndOfStream, LogClosed, Deliver, SendDone,
      HandleError, EndCompletion, RemoveSocketContext, HandlerFault, AddRef, Release,
      LastTest, OnMsg, RePostRecv, RePostCheck, AliveTest, GetLink, Unlink, Unmap,
      DisConnected, DeleteSocketContext, Elsewhere, network
<1>4. ASSUME NEW m \in Msgs, OnAsyncMsg(m) PROVE peer' = peer
  BY <1>4, TasksKeepReceive
<1>5. QED
  BY <1>1, <1>2, <1>3, <1>4 DEF Next, vars, network

LEMMA ReceiveStep ==
  TypeOK /\ JobInv /\ OpenInv /\ ReceiveInv /\ [Next]_vars => ReceiveInv'
<1> SUFFICES ASSUME TypeOK, JobInv, OpenInv, ReceiveInv, [Next]_vars
             PROVE  ReceiveInv'
  OBVIOUS
<1> USE DEF network, receive, context
<1>0. peer' = "open" => peer = "open"
  BY PeerStaysGone
<1>1. ASSUME UNCHANGED <<recvPending, lost>>, Receiving' = Receiving, InPort' = InPort,
             (listener \in Before) = (listener' \in Before)
      PROVE  ReceiveInv'
  BY <1>0, <1>1 DEF ReceiveInv
<1>2. UNCHANGED port => InPort' = InPort
  BY DEF InPort
<1>3. UNCHANGED <<pc, job>> => Receiving' = Receiving
  BY DEF Receiving
<1>4. CASE Network
  <2>1. UNCHANGED listener /\ Receiving' = Receiving
    BY <1>3, <1>4, OthersKeepHandlers
    DEF Network, PeerSends, PeerLeaves, RecvCompletes, SendCompletes
  <2>2. CASE PeerSends \/ PeerLeaves
    BY <1>1, <1>2, <2>1, <2>2 DEF PeerSends, PeerLeaves
  <2>3. CASE RecvCompletes
    <3>1. recvPending' = FALSE /\ InPort' # {} /\ \A d, e \in InPort' : d = e
      BY <2>3, OneArrival DEF RecvCompletes, ReceiveInv
    <3>2. Receiving = {} /\ listener \notin Before /\ ~lost /\ lost' = lost
      BY <2>3 DEF RecvCompletes, ReceiveInv
    <3>3. QED
      BY <2>1, <3>1, <3>2 DEF ReceiveInv
  <2>4. ASSUME NEW m \in Msgs, SendCompletes(m) PROVE ReceiveInv'
    <3>1. InPort' = InPort
      BY <2>4 DEF SendCompletes, Completed, InPort
    <3>2. QED
      BY <1>1, <2>1, <2>4, <3>1 DEF SendCompletes
  <2>5. QED
    BY <1>4, <2>2, <2>3, <2>4 DEF Network
<1>5. CASE HandleNewConn
  <2>1. Receiving' = Receiving
    BY <1>3, <1>5, OthersKeepHandlers
  <2>2. CASE FirstRecv
    <3>1. Posted /\ listener' \notin Before
      BY <2>2 DEF FirstRecv, WsaRecv, Posted, Before
    <3>2. Receiving = {} /\ InPort = {} /\ ~recvPending
      BY <2>2 DEF FirstRecv, ReceiveInv, Before
    <3>3. QED
      BY <1>0, <2>1, <3>1, <3>2, PostedOne DEF ReceiveInv, TypeOK
  <2>3. CASE Associate \/ FirstRecvCheck \/ EnterList
    BY <1>1, <1>2, <2>1, <2>3
    DEF Associate, FirstRecvCheck, EnterList, ListenerAt, Before
  <2>4. QED
    BY <1>5, <2>2, <2>3 DEF HandleNewConn
<1>6. ASSUME NEW h \in Handlers, Execute(h) PROVE ReceiveInv'
  <2>0. pc \in [Handlers -> HandlerStates] /\ job \in [Handlers -> Completions \cup {NoJob}]
    BY DEF TypeOK
  <2> USE <2>0 DEF Goto, Elsewhere
  <2>1. CASE Dequeue(h)
    <3>1. PICK done \in port :
            /\ port' = port \ {done}
            /\ job'  = [job EXCEPT ![h] = done]
            /\ pc'   = [pc EXCEPT ![h] = IF done.res = "failed" THEN "error" ELSE "taken"]
      BY <2>1 DEF Dequeue
    <3>2. h \notin Receiving /\ UNCHANGED <<peer, recvPending, lost, listener>>
      BY <2>1 DEF Dequeue, Receiving
    <3>3. CASE Arrived(done)
      <4>1. InPort = {done} /\ Receiving = {} /\ ~recvPending /\ listener \notin Before
        BY <3>1, <3>3 DEF ReceiveInv, InPort, Arrived
      <4>2. InPort' = {}
        BY <3>1, <4>1 DEF InPort
      <4>3. Receiving' = {h}
        BY <3>1, <3>3, <4>1 DEF Receiving, Arrived
      <4>4. QED
        BY <3>2, <4>1, <4>2, <4>3 DEF ReceiveInv
    <3>4. CASE done.io = "recv" /\ ~Arrived(done)
      <4>1. InPort = {done} /\ Receiving = {} /\ ~recvPending /\ listener \notin Before
        BY <3>1, <3>4 DEF ReceiveInv, InPort
      <4>2. InPort' = {} /\ peer # "open"
        BY <3>1, <3>4, <4>1 DEF InPort, OpenInv, Arrived
      <4>3. Receiving' = {}
        BY <3>1, <3>4, <4>1 DEF Receiving, Arrived
      <4>4. QED
        BY <3>2, <4>1, <4>2, <4>3 DEF ReceiveInv
    <3>5. CASE done.io # "recv"
      <4>1. InPort' = InPort
        BY <3>1, <3>5 DEF InPort
      <4>2. Receiving' = Receiving
        BY <3>1, <3>2, <3>5 DEF Receiving
      <4>3. QED
        BY <1>1, <3>2, <4>1, <4>2
    <3>6. QED
      BY <3>3, <3>4, <3>5
  <2>2. CASE BeginCompletion(h)
    <3>1. Receiving' = Receiving
      BY <2>2 DEF BeginCompletion, AddRef, Receiving
    <3>2. QED
      BY <1>1, <1>2, <2>2, <3>1 DEF BeginCompletion, AddRef
  <2>3. CASE OnMsg(h) \/ AddRef(h, "repost", "post")
    <3>1. Receiving' = Receiving
      BY <2>3 DEF OnMsg, AddRef, Receiving
    <3>2. QED
      BY <1>1, <1>2, <2>3, <3>1 DEF OnMsg, AddRef
  <2>4. CASE RePostRecv(h)
    <3>1. h \in Receiving
      BY <2>4 DEF RePostRecv, Receiving, JobInv, Delivering
    <3>2. Receiving = {h} /\ InPort = {} /\ ~recvPending /\ listener \notin Before
      BY <3>1 DEF ReceiveInv
    <3>3. Posted /\ pc'[h] \in {"reposted", "check", "dead"}
          /\ job' = job /\ pc' = [pc EXCEPT ![h] = pc'[h]] /\ listener' = listener
      BY <2>4 DEF RePostRecv, WsaRecv, Posted
    <3>4. Receiving' = {}
      BY <3>2, <3>3 DEF Receiving
    <3>5. QED
      BY <1>0, <3>2, <3>3, <3>4, PostedOne DEF ReceiveInv, TypeOK
  <2>5. CASE HandlerFault(h)
    BY <1>1, <1>2, <1>3, <2>5 DEF HandlerFault
  <2>6. CASE LateStep(h)
    <3>1. Receiving' = Receiving
      BY <2>6 DEF LateStep, Late, Receiving
    <3>2. QED
      BY <1>1, <1>2, <2>6, <3>1 DEF LateStep
  <2>7. QED
    BY <1>6, <2>1, <2>2, <2>3, <2>4, <2>5, <2>6, HandlerSteps
<1>7. ASSUME NEW m \in Msgs, OnAsyncMsg(m) PROVE ReceiveInv'
  BY <1>1, <1>2, <1>3, <1>7, TasksKeepReceive
<1>8. CASE UNCHANGED vars
  BY <1>1, <1>2, <1>3, <1>8 DEF vars
<1>9. QED
  BY <1>4, <1>5, <1>6, <1>7, <1>8 DEF Next

-------------------------------------------------------------------------------
(* The order of the messages.                                              *)

InFlight ==
  (\E done \in port : Arrived(done)) \/ (\E h \in Handlers : Bringing(h))

\* A handler that brings a message has the receive.
LEMMA BringingReceives == \A h \in Handlers : Bringing(h) => h \in Receiving
BY DEF Bringing, Arrived, Receiving

LEMMA ArrivedInPort == \A done \in port : Arrived(done) => done \in InPort
BY DEF Arrived, InPort

\* When nothing is in flight, the arrival of the next message keeps the order.
LEMMA ArrivalKeepsOrder ==
  ASSUME TypeOK, OrderInv, ~InFlight, UNCHANGED task,
         \A h \in Handlers : ~Bringing(h)',
         \/ DataArrives
         \/ EndArrives
         \/ Completed("recv", "failed", 0) /\ UNCHANGED received
         \/ UNCHANGED <<received, port>>
  PROVE  OrderInv'
<1>0. received \in Nat /\ \A m \in Msgs : m \in Nat
  BY DEF TypeOK, Msgs
<1>1. \A m \in Msgs : ~OnItsWay(m)
  BY DEF OrderInv, InFlight
<1>2. CASE DataArrives
  <2> DEFINE new == [io |-> "recv", res |-> "data", msg |-> received + 1]
  <2>1. received' = received + 1 /\ port' = port \cup {new} /\ received < sent
    BY <1>2 DEF DataArrives, Completed
  <2>2. Arrived(new) /\ new.msg = received'
    BY <2>1 DEF Arrived
  <2>3. \A done \in port' : Arrived(done) => done = new
    BY <2>1 DEF InFlight
  <2>4. received' \in Msgs
    BY <1>0, <2>1, MsgAssumption DEF TypeOK, Msgs
  <2>5. task[received'] = "none"
    BY <1>0, <2>1, <2>4 DEF OrderInv
  <2>6. \A m \in Msgs : m < received' => task[m] # "none"
    BY <1>0, <1>1, <2>1 DEF OrderInv, OnItsWay
  <2>7. \A m \in Msgs : m > received' => task[m] = "none"
    BY <1>0, <2>1 DEF OrderInv
  <2> HIDE DEF new
  <2>8. QED
    BY <2>1, <2>2, <2>3, <2>4, <2>5, <2>6, <2>7 DEF OrderInv, OnItsWay
<1>3. CASE received' = received /\ \A done \in port' : ~Arrived(done)
  BY <1>1, <1>3 DEF OrderInv, OnItsWay
<1>4. \/ EndArrives
      \/ Completed("recv", "failed", 0) /\ UNCHANGED received
      \/ UNCHANGED <<received, port>>
      => received' = received /\ \A done \in port' : ~Arrived(done)
  BY DEF EndArrives, Completed, Arrived, InFlight
<1>5. QED
  BY <1>2, <1>3, <1>4

LEMMA OrderStep ==
  TypeOK /\ JobInv /\ ReceiveInv /\ OrderInv /\ [Next]_vars => OrderInv'
<1> SUFFICES ASSUME TypeOK, JobInv, ReceiveInv, OrderInv, [Next]_vars
             PROVE  OrderInv'
  OBVIOUS
<1> USE DEF network, receive, context
\* A step that keeps what is in flight, and undoes no dispatch.
<1>1. ASSUME UNCHANGED <<received, task>>,
             \A done : Arrived(done) => (done \in port' <=> done \in port),
             \A k \in Handlers : Bringing(k)' = Bringing(k)
                                 /\ (Bringing(k) => job'[k] = job[k])
      PROVE  OrderInv'
  BY <1>1 DEF OrderInv, OnItsWay
<1>2. UNCHANGED <<pc, job>>
        => \A k \in Handlers : Bringing(k)' = Bringing(k) /\ job'[k] = job[k]
  BY DEF Bringing
<1>3. ASSUME Receiving = {}, InPort = {} PROVE ~InFlight
  BY <1>3, BringingReceives, ArrivedInPort DEF InFlight
<1>4. CASE Network
  <2>1. UNCHANGED <<task, pc, job>>
    BY <1>4 DEF Network, PeerSends, PeerLeaves, RecvCompletes, SendCompletes
  <2>2. CASE PeerSends \/ PeerLeaves
    BY <1>1, <1>2, <2>1, <2>2 DEF PeerSends, PeerLeaves
  <2>3. CASE RecvCompletes
    <3>1. ~InFlight
      BY <1>3, <2>3 DEF RecvCompletes, ReceiveInv
    <3>2. \A h \in Handlers : ~Bringing(h)'
      BY <1>2, <2>1, <3>1 DEF InFlight
    <3>3. QED
      BY <2>1, <2>3, <3>1, <3>2, ArrivalKeepsOrder DEF RecvCompletes
  <2>4. ASSUME NEW m \in Msgs, SendCompletes(m) PROVE OrderInv'
    <3>1. \A done : Arrived(done) => (done \in port' <=> done \in port)
      BY <2>4 DEF SendCompletes, Completed, Arrived
    <3>2. QED
      BY <1>1, <1>2, <2>1, <2>4, <3>1 DEF SendCompletes
  <2>5. QED
    BY <1>4, <2>2, <2>3, <2>4 DEF Network
<1>5. CASE HandleNewConn
  <2>1. UNCHANGED <<task, pc, job>>
    BY <1>5 DEF HandleNewConn, Associate, FirstRecv, FirstRecvCheck, EnterList
  <2>2. CASE FirstRecv
    <3>1. ~InFlight
      BY <1>3, <2>2 DEF FirstRecv, ReceiveInv, Before
    <3>2. \A h \in Handlers : ~Bringing(h)'
      BY <1>2, <2>1, <3>1 DEF InFlight
    <3>3. QED
      BY <2>1, <2>2, <3>1, <3>2, ArrivalKeepsOrder DEF FirstRecv, WsaRecv
  <2>3. CASE Associate \/ FirstRecvCheck \/ EnterList
    BY <1>1, <1>2, <2>1, <2>3 DEF Associate, FirstRecvCheck, EnterList
  <2>4. QED
    BY <1>5, <2>2, <2>3 DEF HandleNewConn
<1>6. ASSUME NEW h \in Handlers, Execute(h) PROVE OrderInv'
  <2>0. pc \in [Handlers -> HandlerStates] /\ job \in [Handlers -> Completions \cup {NoJob}]
    BY DEF TypeOK
  <2> USE <2>0 DEF Goto, Elsewhere
  <2>1. CASE Dequeue(h)
    <3>1. PICK done \in port :
            /\ port' = port \ {done}
            /\ job'  = [job EXCEPT ![h] = done]
            /\ pc'   = [pc EXCEPT ![h] = IF done.res = "failed" THEN "error" ELSE "taken"]
      BY <2>1 DEF Dequeue
    <3>2. ~Bringing(h) /\ UNCHANGED <<received, task>>
      BY <2>1 DEF Dequeue, Bringing
    <3>3. Bringing(h)' = Arrived(done) /\ job'[h] = done
      BY <3>1 DEF Bringing, Arrived
    <3>4. \A k \in Handlers \ {h} : Bringing(k)' = Bringing(k) /\ job'[k] = job[k]
      BY <3>1 DEF Bringing
    <3>5. CASE Arrived(done)
      <4>1. OnItsWay(done.msg)
        BY <3>5 DEF OrderInv
      <4>2. (\E k \in Handlers : Bringing(k))'
        BY <3>3, <3>5
      <4>3. \A k \in Handlers : Bringing(k)' => OnItsWay(job'[k].msg)
        BY <3>3, <3>4, <4>1 DEF OrderInv
      <4>4. QED
        BY <3>1, <3>2, <4>2, <4>3 DEF OrderInv, OnItsWay
    <3>6. CASE ~Arrived(done)
      <4>1. \A d : Arrived(d) => (d \in port' <=> d \in port)
        BY <3>1, <3>6
      <4>2. \A k \in Handlers : Bringing(k)' = Bringing(k)
                                /\ (Bringing(k) => job'[k] = job[k])
        <5>1. Bringing(h)' = Bringing(h)
          BY <3>2, <3>3, <3>6 DEF Bringing
        <5>2. QED
          BY <3>2, <3>4, <5>1
      <4>3. QED
        BY <1>1, <3>2, <4>1, <4>2
    <3>7. QED
      BY <3>5, <3>6
  <2>2. CASE BeginCompletion(h)
    <3>1. \A k \in Handlers : Bringing(k)' = Bringing(k)
                              /\ (Bringing(k) => job'[k] = job[k])
      BY <2>2 DEF BeginCompletion, AddRef, Bringing, Arrived
    <3>2. QED
      BY <1>1, <2>2, <3>1 DEF BeginCompletion, AddRef
  <2>3. CASE OnMsg(h)
    <3>1. Bringing(h) /\ h \in Receiving
      BY <2>3, BringingReceives DEF OnMsg, JobInv, Delivering, Bringing, Arrived
    <3>2. Receiving = {h} /\ InPort = {}
      BY <3>1 DEF ReceiveInv
    <3>3. job[h].msg \in Msgs
      BY <3>1 DEF Bringing, Arrived, Completions, NoJob
    <3>4. job[h].msg = received
      BY <3>1 DEF OrderInv, OnItsWay
    <3>5. task' = [task EXCEPT ![received] = "queued"] /\ UNCHANGED <<received, port>>
      BY <2>3, <3>4 DEF OnMsg
    <3>6. ~InFlight'
      <4>1. \A k \in Handlers : ~Bringing(k)'
        BY <2>3, <3>2, BringingReceives DEF OnMsg, Bringing
      <4>2. \A done \in port' : ~Arrived(done)
        BY <3>2, <3>5, ArrivedInPort
      <4>3. QED
        BY <4>1, <4>2 DEF InFlight
    <3>7. \A m \in Msgs : m # received => task'[m] = task[m]
      BY <3>5 DEF TypeOK
    <3>8. task'[received] = "queued"
      BY <3>3, <3>4, <3>5 DEF TypeOK
    <3>9. \A m \in Msgs : m \in Nat /\ received \in Nat
      BY DEF Msgs, TypeOK
    <3>10. QED
      BY <3>5, <3>6, <3>7, <3>8, <3>9 DEF OrderInv, OnItsWay, InFlight
  <2>4. CASE AddRef(h, "repost", "post")
    <3>1. \A k \in Handlers : Bringing(k)' = Bringing(k)
                              /\ (Bringing(k) => job'[k] = job[k])
      BY <2>4 DEF AddRef, Bringing
    <3>2. QED
      BY <1>1, <2>4, <3>1 DEF AddRef
  <2>5. CASE RePostRecv(h)
    <3>1. h \in Receiving /\ ~Bringing(h)
      BY <2>5 DEF RePostRecv, Receiving, JobInv, Delivering, Bringing
    <3>2. Receiving = {h} /\ InPort = {}
      BY <3>1 DEF ReceiveInv
    <3>3. ~InFlight
      BY <3>1, <3>2, BringingReceives, ArrivedInPort DEF InFlight
    <3>4. \A k \in Handlers : ~Bringing(k)'
      BY <2>5, <3>3 DEF RePostRecv, WsaRecv, Bringing, InFlight
    <3>5. QED
      BY <2>5, <3>3, <3>4, ArrivalKeepsOrder DEF RePostRecv, WsaRecv
  <2>6. CASE HandlerFault(h)
    BY <1>1, <1>2, <2>6 DEF HandlerFault
  <2>7. CASE LateStep(h)
    <3>1. \A k \in Handlers : Bringing(k)' = Bringing(k)
                              /\ (Bringing(k) => job'[k] = job[k])
      BY <2>7 DEF LateStep, Late, Bringing
    <3>2. QED
      BY <1>1, <2>7, <3>1 DEF LateStep
  <2>8. QED
    BY <1>6, <2>1, <2>2, <2>3, <2>4, <2>5, <2>6, <2>7, HandlerSteps
<1>7. ASSUME NEW m \in Msgs, OnAsyncMsg(m) PROVE OrderInv'
  <2>1. UNCHANGED <<received, port, pc, job>>
    BY <1>7, TasksKeepReceive
  <2>2. \A n \in Msgs : (task'[n] = "none") = (task[n] = "none")
    <3>1. ASSUME NEW n \in Msgs, NEW from, NEW to, from # "none", to # "none",
                 RunTask(n, from, to)
          PROVE  \A k \in Msgs : (task'[k] = "none") = (task[k] = "none")
      BY <3>1 DEF RunTask, TypeOK
    <3>2. 1 \in Msgs
      BY MsgAssumption DEF Msgs
    <3>3. CASE TaskFault(m)
      BY <3>3 DEF TaskFault
    <3>4. CASE ~TaskFault(m)
      BY <1>7, <3>1, <3>2, <3>4
      DEF OnAsyncMsg, AddLinkNetObj, LeaveList, SendBuildConnectAck, EndBuild,
          FindLinkNetObj, Answer
    <3>5. QED
      BY <3>3, <3>4
  <2>3. \A n \in Msgs : OnItsWay(n)' = OnItsWay(n)
    BY <2>1, <2>2 DEF OnItsWay
  <2>4. \A done \in port : Arrived(done) => done.msg \in Msgs
    BY DEF TypeOK, Arrived, Completions
  <2>5. \A h \in Handlers : Bringing(h) => job[h].msg \in Msgs
    BY DEF TypeOK, Bringing, Arrived, Completions, NoJob
  <2>6. QED
    BY <1>2, <2>1, <2>2, <2>3, <2>4, <2>5 DEF OrderInv
<1>8. CASE UNCHANGED vars
  BY <1>1, <1>2, <1>8 DEF vars
<1>9. QED
  BY <1>4, <1>5, <1>6, <1>7, <1>8 DEF Next

-------------------------------------------------------------------------------
(* The count of references.                                                *)

Refs == Cardinality(Holding(1)) + Cardinality(Holding(2))

InList == IF listener = "listed" THEN 1 ELSE 0

LEMMA HoldingFinite ==
  ASSUME NEW n
  PROVE  /\ IsFiniteSet(Holding(n)) /\ Cardinality(Holding(n)) \in Nat
         /\ Cardinality(Holding(n)) <= Cardinality(Handlers)
         /\ Cardinality(Handlers) \in Nat
<1>1. Holding(n) \in SUBSET Handlers
  BY DEF Holding
<1>2. QED
  BY <1>1, HandlersAssumption, FS_Subset, FS_CardinalityType

RefsBounded == Refs \in Nat /\ Refs + 1 < RefSize /\ InList \in {0, 1}

LEMMA RefsBound == RefsBounded
<1>1. /\ Cardinality(Holding(1)) \in Nat /\ Cardinality(Holding(2)) \in Nat
      /\ Cardinality(Holding(1)) <= Cardinality(Handlers)
      /\ Cardinality(Holding(2)) <= Cardinality(Handlers)
      /\ Cardinality(Handlers) \in Nat
  BY HoldingFinite
<1>2. QED
  BY <1>1, RefAssumption DEF RefsBounded, Refs, InList

LEMMA SmallMod ==
  ASSUME NEW n \in Nat, n < RefSize
  PROVE  n % RefSize = n /\ (n + RefSize) % RefSize = n
<1>1. RefSize \in Nat \ {0}
  BY RefAssumption
<1>2. n % RefSize = n
  BY <1>1
<1>3. (n + RefSize) % RefSize = n
  BY <1>1
<1>4. QED
  BY <1>2, <1>3

LEMMA RoomForOne ==
  ASSUME NEW n \in Nat, n + 1 < RefSize, NEW i \in {0, 1}
  PROVE  n + i < RefSize
BY RefAssumption

\* A handler that goes from a place with a references to one with b.
LEMMA HolderMoves ==
  ASSUME TypeOK, NEW h \in Handlers, NEW place \in HandlerStates,
         pc' = [pc EXCEPT ![h] = place]
  PROVE  Refs' = Refs + Held(h)' - Held(h)
<1>1. \A k \in Handlers \ {h} : Held(k)' = Held(k)
  BY DEF TypeOK, Held
<1>2. Held(h) \in 0 .. 2 /\ Held(h)' \in 0 .. 2
  BY DEF Held
<1>3. ASSUME NEW n \in 1 .. 2
      PROVE  Cardinality(Holding(n)') = Cardinality(Holding(n))
               + (IF Held(h)' >= n THEN 1 ELSE 0) - (IF Held(h) >= n THEN 1 ELSE 0)
  <2>1. CASE Held(h)' >= n
    <3>1. Holding(n)' = Holding(n) \cup {h}
      BY <1>1, <2>1 DEF Holding
    <3>2. h \in Holding(n) <=> Held(h) >= n
      BY DEF Holding
    <3>3. QED
      BY <2>1, <3>1, <3>2, HoldingFinite, FS_AddElement
  <2>2. CASE ~(Held(h)' >= n)
    <3>1. Holding(n)' = Holding(n) \ {h}
      BY <1>1, <2>2 DEF Holding
    <3>2. h \in Holding(n) <=> Held(h) >= n
      BY DEF Holding
    <3>3. QED
      <4>1. Cardinality(Holding(n) \ {h}) =
              IF h \in Holding(n) THEN Cardinality(Holding(n)) - 1
              ELSE Cardinality(Holding(n))
        BY HoldingFinite, FS_RemoveElement
      <4>2. Cardinality(Holding(n)) \in Nat
        BY HoldingFinite
      <4>3. QED
        BY <2>2, <3>1, <3>2, <4>1, <4>2
  <2>3. QED
    BY <2>1, <2>2
<1>4. QED
  <2>1. Cardinality(Holding(1)) \in Nat /\ Cardinality(Holding(2)) \in Nat
    BY HoldingFinite
  <2>2. QED
    BY <1>2, <1>3, <2>1 DEF Refs

LEMMA RefExactIs == RefExact <=> (peer = "open" => ref = Refs + InList)
BY DEF RefExact, Refs, InList

LEMMA RefStep == TypeOK /\ OpenInv /\ RefExact /\ [Next]_vars => RefExact'
<1> SUFFICES ASSUME TypeOK, OpenInv, RefExact, [Next]_vars, peer' = "open"
             PROVE  ref' = Refs' + InList'
  BY RefExactIs DEF RefExact, Refs, InList
<1> USE DEF network, receive, context
<1>0. peer = "open" /\ ref = Refs + InList
  BY PeerStaysGone, RefExactIs
<1>1. Refs \in Nat /\ Refs + 1 < RefSize /\ InList \in {0, 1}
  BY RefsBound DEF RefsBounded
<1>2. UNCHANGED pc => Refs' = Refs
  BY DEF Refs, Holding, Held
<1>3. UNCHANGED listener => InList' = InList
  BY DEF InList
<1>4. CASE Network
  <2>1. UNCHANGED <<ref, pc, listener>>
    BY <1>4 DEF Network, PeerSends, PeerLeaves, RecvCompletes, SendCompletes
  <2>2. QED
    BY <1>0, <1>2, <1>3, <2>1
<1>5. CASE HandleNewConn
  <2>1. CASE EnterList
    <3>1. InList = 0 /\ InList' = 1 /\ ref' = (ref + 1) % RefSize /\ UNCHANGED pc
      BY <2>1 DEF EnterList, ListenerAt, InList
    <3>2. (Refs + 1) % RefSize = Refs + 1
      BY <1>1, SmallMod
    <3>3. QED
      BY <1>0, <1>1, <1>2, <3>1, <3>2
  <2>2. CASE Associate \/ FirstRecv \/ FirstRecvCheck
    <3>1. InList' = InList
      BY <2>2 DEF Associate, FirstRecv, FirstRecvCheck, ListenerAt, WsaRecv, InList
    <3>2. QED
      BY <1>0, <1>2, <2>2, <3>1 DEF Associate, FirstRecv, FirstRecvCheck
  <2>3. QED
    BY <1>5, <2>1, <2>2 DEF HandleNewConn
<1>6. ASSUME NEW h \in Handlers, Execute(h) PROVE ref' = Refs' + InList'
  <2>0. pc \in [Handlers -> HandlerStates]
    BY DEF TypeOK
  <2>1. InList' = InList
    BY <1>3, <1>6, HandlerSteps
    DEF Dequeue, BeginCompletion, OnMsg, AddRef, RePostRecv, HandlerFault,
        LateStep, Elsewhere
  \* What a step from one place to another has to do to the count.
  <2>2. ASSUME NEW place \in HandlerStates, pc' = [pc EXCEPT ![h] = place],
               \/ Held(h)' = Held(h) /\ ref' = ref
               \/ Held(h)' = Held(h) + 1 /\ ref' = (ref + 1) % RefSize
               \/ Held(h)' = Held(h) - 1 /\ ref' = (ref + RefSize - 1) % RefSize
        PROVE  ref' = Refs' + InList'
    <3>0. Held(h) \in 0 .. 2
      BY DEF Held
    <3>1. Refs' = Refs + Held(h)' - Held(h)
      BY <2>2, HolderMoves
    <3>2. Refs' \in Nat /\ Refs' + InList < RefSize
      <4>1. RefsBounded'
        BY RefsBound, PTL
      <4>2. Refs' \in Nat /\ Refs' + 1 < RefSize
        BY <4>1 DEF RefsBounded
      <4>3. QED
        BY <1>1, <4>2, RoomForOne
    <3>3. CASE Held(h)' = Held(h) /\ ref' = ref
      BY <1>0, <1>1, <2>1, <3>0, <3>1, <3>3
    <3>4. CASE Held(h)' = Held(h) + 1 /\ ref' = (ref + 1) % RefSize
      <4>1. ref + 1 = Refs' + InList
        BY <1>0, <1>1, <3>0, <3>1, <3>4
      <4>2. QED
        BY <1>1, <2>1, <3>2, <3>4, <4>1, SmallMod
    <3>5. CASE Held(h)' = Held(h) - 1 /\ ref' = (ref + RefSize - 1) % RefSize
      <4>1. ref + RefSize - 1 = (Refs' + InList) + RefSize
        BY <1>0, <1>1, <3>0, <3>1, <3>5, RefAssumption
      <4>2. QED
        BY <1>1, <2>1, <3>2, <3>5, <4>1, SmallMod
    <3>6. QED
      BY <2>2, <3>3, <3>4, <3>5
  <2>3. UNCHANGED <<pc, ref>> => ref' = Refs' + InList'
    BY <1>0, <1>2, <2>1
  <2> USE <2>0 DEF Goto, HandlerStates
  <2>4. CASE Dequeue(h)
    <3>1. PICK done \in port : pc' = [pc EXCEPT ![h] = IF done.res = "failed"
                                                       THEN "error" ELSE "taken"]
      BY <2>4 DEF Dequeue
    <3>2. pc'[h] \in {"error", "taken"} /\ pc[h] = "wait" /\ ref' = ref
      BY <2>4, <3>1 DEF Dequeue
    <3>3. Held(h)' = Held(h)
      BY <3>2 DEF Held
    <3>4. QED
      BY <2>2, <3>1, <3>2, <3>3
  <2>5. CASE BeginCompletion(h)
    <3>1. job[h].res # "zero"
      BY <1>0 DEF OpenInv
    <3>2. /\ pc' = [pc EXCEPT ![h] = pc'[h]] /\ pc'[h] \in {"message", "sent"}
          /\ pc[h] = "taken" /\ ref' = (ref + 1) % RefSize
      BY <2>5, <3>1 DEF BeginCompletion, AddRef
    <3>3. Held(h)' = Held(h) + 1
      BY <3>2 DEF Held
    <3>4. QED
      BY <2>2, <3>2, <3>3
  <2>6. CASE OnMsg(h)
    <3>1. /\ pc' = [pc EXCEPT ![h] = "repost"] /\ pc[h] = "message" /\ ref' = ref
      BY <2>6 DEF OnMsg
    <3>2. Held(h)' = Held(h)
      BY <3>1 DEF Held
    <3>3. QED
      BY <2>2, <3>1, <3>2
  <2>7. CASE AddRef(h, "repost", "post")
    <3>1. /\ pc' = [pc EXCEPT ![h] = "post"] /\ pc[h] = "repost"
          /\ ref' = (ref + 1) % RefSize
      BY <2>7 DEF AddRef
    <3>2. Held(h)' = Held(h) + 1
      BY <3>1 DEF Held
    <3>3. QED
      BY <2>2, <3>1, <3>2
  <2>8. CASE RePostRecv(h)
    <3>1. /\ pc' = [pc EXCEPT ![h] = pc'[h]]
          /\ pc'[h] \in {"reposted", "check", "dead"}
          /\ pc[h] = "post" /\ ref' = ref
      BY <2>8 DEF RePostRecv, WsaRecv
    <3>2. Held(h)' = Held(h)
      BY <3>1 DEF Held
    <3>3. QED
      BY <2>2, <3>1, <3>2
  <2>9. CASE HandlerFault(h)
    BY <2>3, <2>9 DEF HandlerFault
  <2>10. CASE LateStep(h)
    <3>1. CASE RePostCheck(h) \/ AliveTest(h) \/ SendDone(h)
      <4>1. /\ pc' = [pc EXCEPT ![h] = pc'[h]] /\ ref' = ref
            /\ \/ pc[h] = "check" /\ pc'[h] \in {"reposted", "dead"}
               \/ pc[h] = "dead" /\ pc'[h] = "reposted"
               \/ pc[h] = "sent" /\ pc'[h] = "release"
        BY <1>0, <3>1 DEF RePostCheck, AliveTest, SendDone, OpenInv
      <4>2. Held(h)' = Held(h)
        BY <4>1 DEF Held
      <4>3. QED
        BY <2>2, <4>1, <4>2
    <3>2. CASE Release(h, "reposted", "release") \/ Release(h, "release", "wait")
      <4>1. /\ pc' = [pc EXCEPT ![h] = pc'[h]]
            /\ ref' = (ref + RefSize - 1) % RefSize
            /\ \/ pc[h] = "reposted" /\ pc'[h] = "release"
               \/ pc[h] = "release" /\ pc'[h] = "wait"
        BY <3>2 DEF Release
      <4>2. Held(h)' = Held(h) - 1
        BY <4>1 DEF Held
      <4>3. QED
        BY <2>2, <4>1, <4>2
    <3>3. CASE HandlerFault(h)
      BY <2>3, <3>3 DEF HandlerFault
    <3>4. QED
      BY <1>0, <1>6, <2>10, <3>1, <3>2, <3>3, OpenLateSteps DEF LateStep
  <2>11. QED
    BY <1>6, <2>4, <2>5, <2>6, <2>7, <2>8, <2>9, <2>10, HandlerSteps
<1>7. ASSUME NEW m \in Msgs, OnAsyncMsg(m) PROVE ref' = Refs' + InList'
  BY <1>0, <1>2, <1>3, <1>7, TasksKeepReceive
<1>8. CASE UNCHANGED vars
  BY <1>0, <1>2, <1>3, <1>8 DEF vars
<1>9. QED
  BY <1>4, <1>5, <1>6, <1>7, <1>8 DEF Next

-------------------------------------------------------------------------------
(* The invariant.                                                          *)

LEMMA InitInv == Init => IInv
<1> SUFFICES ASSUME Init PROVE IInv
  OBVIOUS
<1>1. 0 \in 0 .. RefSize - 1 /\ 0 \in 0 .. MaxMsg
  BY RefAssumption, MsgAssumption, HoldingFinite
<1>2. TypeOK
  BY <1>1 DEF Init, TypeOK, ListenerStates, HandlerStates, TaskStates
<1>3. JobInv
  BY DEF Init, JobInv, Delivering
<1>4. ReceiveInv
  BY DEF Init, ReceiveInv, Receiving, InPort, Before
<1>5. OrderInv
  <2>1. \A m \in Msgs : m > 0 /\ task[m] = "none"
    BY DEF Init, Msgs
  <2>2. \A h \in Handlers : ~Bringing(h)
    BY DEF Init, Bringing, Arrived, NoJob
  <2>3. received = 0 /\ port = {}
    BY DEF Init
  <2>4. \A m \in Msgs : ~(m < received) /\ ~OnItsWay(m)
    BY <2>1, <2>3 DEF OnItsWay, Msgs
  <2>5. QED
    BY <2>1, <2>2, <2>3, <2>4 DEF OrderInv
<1>6. OpenInv
  BY DEF Init, OpenInv, OpenStates, NoJob
<1>7. RefExact
  <2>1. Holding(1) = {} /\ Holding(2) = {}
    BY DEF Init, Holding, Held
  <2>2. Cardinality(Holding(1)) = 0 /\ Cardinality(Holding(2)) = 0
    BY <2>1, FS_EmptySet
  <2>3. QED
    BY <2>2 DEF Init, RefExact
<1>8. QED
  BY <1>2, <1>3, <1>4, <1>5, <1>6, <1>7 DEF IInv

LEMMA InvStep == IInv /\ [Next]_vars => IInv'
BY TypeStep, JobStep, ReceiveStep, OrderStep, OpenStep, RefStep DEF IInv

LEMMA Invariance == Spec => []IInv
BY InitInv, InvStep, PTL DEF Spec

\* The states of a connection have the types TypeOK gives them.
THEOREM TypeCorrect == Spec => []TypeOK
<1>1. IInv => TypeOK
  BY DEF IInv
<1>2. QED
  BY <1>1, Invariance, PTL

LEMMA SizeOfOne ==
  ASSUME NEW S, \A a, b \in S : a = b
  PROVE  Cardinality(S) = IF S = {} THEN 0 ELSE 1
<1>1. CASE S = {}
  BY <1>1, FS_EmptySet
<1>2. CASE S # {}
  <2>1. PICK a : S = {a}
    BY <1>2
  <2>2. QED
    BY <1>2, <2>1, FS_Singleton
<1>3. QED
  BY <1>1, <1>2

\* The receive of a connection (SocketHandler.cpp:77-78) is never in two places,
\* and is in one as long as the peer has not left and no WSARecv has failed, for any
\* number of handlers.
THEOREM ReceiveIsOne == Spec => []OneReceive
<1>1. ReceiveInv => OneReceive
  <2> SUFFICES ASSUME ReceiveInv PROVE OneReceive
    OBVIOUS
  <2>1. /\ Cardinality(Receiving) = IF Receiving = {} THEN 0 ELSE 1
        /\ Cardinality(InPort) = IF InPort = {} THEN 0 ELSE 1
    BY SizeOfOne DEF ReceiveInv
  <2>2. Receives = (IF Receiving = {} THEN 0 ELSE 1) + (IF InPort = {} THEN 0 ELSE 1)
                     + (IF recvPending THEN 1 ELSE 0)
    BY <2>1 DEF Receives
  <2>3. QED
    BY <2>2 DEF ReceiveInv, OneReceive
<1>2. QED
  BY <1>1, Invariance, PTL DEF IInv

\* Messages are handed to the task pool in the order in which the peer sent
\* them, whichever handlers take the completions (TcpThreadServer.cpp:206-213).
THEOREM OrderKept == Spec => []DispatchedInOrder
<1>1. TypeOK /\ OrderInv => DispatchedInOrder
  BY DEF TypeOK, OrderInv, DispatchedInOrder, Msgs
<1>2. QED
  BY <1>1, Invariance, PTL DEF IInv

\* m_Ref counts the references of the list and of the handlers at work as long
\* as the peer has not left, and never wraps (SocketDefine.h, AddRef, Release).
THEOREM RefCorrect == Spec => []RefExact
<1>1. IInv => RefExact
  BY DEF IInv
<1>2. QED
  BY <1>1, Invariance, PTL

\* No interleaving of the handlers removes a connection whose peer has not left
\* (SocketHandler.cpp:62-66, 92-97).
THEOREM NeverRemovedOpen == Spec => []OpenIsKept
<1>1. TypeOK /\ OpenInv => OpenIsKept
  BY DEF TypeOK, OpenInv, OpenIsKept
<1>2. QED
  BY <1>1, Invariance, PTL DEF IInv

\* Once its LinkNetObj is built, and as long as the peer has not left, a
\* connection drops no message (TcpThreadServer.cpp:206-213).
THEOREM NothingDropped == Spec => ServedOnceBuilt
<1> DEFINE Dropped(m) == task[m] = "queued" /\ task'[m] = "done"
           Kept == \A m \in Msgs \ {1} : Dropped(m) => holders = {} \/ peer # "open"
<1>1. IInv /\ [Next]_vars => Kept
  <2> SUFFICES ASSUME IInv, [Next]_vars,
                      NEW m \in Msgs \ {1}, task[m] = "queued", task'[m] = "done",
                      holders # {}, peer = "open"
               PROVE  FALSE
    OBVIOUS
  <2>1. task \in [Msgs -> TaskStates] /\ "context" \in holders
    BY DEF IInv, TypeOK, OpenInv
  <2>2. PICK n \in Msgs : OnAsyncMsg(n)
    <3>1. CASE Network
      BY <3>1
      DEF Network, PeerSends, PeerLeaves, RecvCompletes, SendCompletes
    <3>2. CASE HandleNewConn
      BY <3>2 DEF HandleNewConn, Associate, FirstRecv, FirstRecvCheck, EnterList
    <3>3. ASSUME NEW h \in Handlers, Execute(h) PROVE FALSE
      <4>1. task' = task \/ task' = [task EXCEPT ![job[h].msg] = "queued"]
        BY <3>3, HandlerSteps
        DEF IInv, Dequeue, BeginCompletion, OnMsg, AddRef, RePostRecv,
            HandlerFault, LateStep, Elsewhere
      <4>2. QED
        BY <2>1, <4>1
    <3>4. QED
      BY <3>1, <3>2, <3>3 DEF Next, vars
  <2>3. QED
    BY <2>1, <2>2
    DEF OnAsyncMsg, AddLinkNetObj, LeaveList, SendBuildConnectAck, EndBuild,
        FindLinkNetObj, Answer, TaskFault, RunTask
<1>2. QED
  BY <1>1, Invariance, PTL DEF Spec, ServedOnceBuilt
================================================================================

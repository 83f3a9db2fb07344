--------------------------- MODULE ClientConnProofs ---------------------------
(***************************************************************************)
(* Proofs about ClientConn for every number of reconnects, sockets and     *)
(* messages.  The invariant places every operation that is under way: on   *)
(* which socket, with which PER_IO_CONTEXT, and where the thread then is.  *)
(***************************************************************************)
EXTENDS ClientConn, FiniteSetTheorems, SequenceTheorems, TLAPS

-------------------------------------------------------------------------------
(* The inductive invariant.                                                *)

Recv(op) == op.kind = "recv"

\* Reconnect is between CloseOld and SetRecvIO, or gives up.
Opening == {"connect", "associate", "giveUp"}

\* What the places of the two threads say of each other, and of the port.
Stages ==
  /\ job # Wake => pc = "taken"
  /\ ~portOpen => port = <<>>
  /\ owner = "posting" =>
       /\ port = <<>> /\ pending = {} /\ freedIo = {} /\ received = 0
       /\ pc \in {"test", "take"} /\ ctxSock = 1 /\ sock = 1
       /\ portOpen /\ 1 \in bound /\ ~quit /\ ~started
  /\ owner \in {"handle", "joining", "joined", "context", "task", "end", "gone"} => ~portOpen
  /\ ~portOpen => Closed \/ (quit /\ pc \in {"join", "test", "done"})
  /\ pc = "join" => quit
  /\ pc \in Opening \cup {"close", "socket", "join"} => started
  /\ times = 0 => pc \in {"giveUp", "join"} \/ (quit /\ pc \in {"test", "done"})

\* The sockets that were not created yet have no connection, and nothing is
\* under way on them.  So it is for the one that Reconnect has just made.
Fresh(s) ==
  /\ s \notin {1, ctxSock} /\ s \notin freedIo
  /\ \A op \in UnderWay : op.sock # s /\ (Recv(op) => op.io # s)

Numbering ==
  /\ sock <= made
  /\ link[0] = "none"
  /\ \A s \in Socks : s > made => link[s] = "none" /\ Fresh(s)
  /\ job # Wake => job.op.sock <= made /\ (Recv(job.op) => job.op.io <= made)
  /\ pc \in Opening => sock \in {0, made} /\ Fresh(made)
  /\ pc \in {"connect", "giveUp"} /\ sock # 0 => link[sock] = "none"
  /\ pc = "setRecv" =>
       /\ ctxSock \notin {0, 1} /\ ctxSock \notin freedIo
       /\ \A op \in UnderWay : Recv(op) => op.sock # ctxSock /\ op.io # ctxSock

\* What a packet, or an operation that pends, says of its connection and of its
\* PER_IO_CONTEXT.
Reused(op) == op.io = 1 /\ received > 0

PacketFits(p) ==
  /\ p.res # "data" => link[p.op.sock] # "open"
  /\ Recv(p.op) /\ p.res = "data" => received > 0
  /\ Recv(p.op) /\ p.op.io \in freedIo => p.res # "data" \/ Reused(p.op)

Held == Range(port) \cup {job}

Contents ==
  /\ \A p \in Held : PacketFits(p)
  /\ \A op \in pending : Recv(op) /\ op.io \in freedIo => Reused(op)
  /\ owner = "checking" /\ received = 0 =>
       /\ \A op \in pending : Recv(op) => op.io # 1
       /\ \A p \in Held : Recv(p.op) /\ p.op.io = 1 => p.res # "data"

\* At most one receive, and some receive, is under way on the socket of the
\* context, told without counting.
OnContext(op) == IsRecv(op, ctxSock)

Single ==
  /\ \A a, b \in pending : OnContext(a) /\ OnContext(b) => a = b
  /\ \A i, j \in DOMAIN port : OnContext(port[i].op) /\ OnContext(port[j].op) => i = j
  /\ \A a \in pending, p \in Range(port) : ~(OnContext(a) /\ OnContext(p.op))
  /\ OnContext(job.op) => \A op \in UnderWay : ~OnContext(op)

AnyRecv == OnContext(job.op) \/ \E op \in UnderWay : OnContext(op)

\* The owner has not closed the client, no reconnect is on the way, and the
\* connection is open.
Live == owner \in {"checking", "open"} /\ ~started /\ link[ctxSock] = "open"

\* As long as no operation outlived its socket, what is under way is on the
\* socket of the context, a connection is given up only when it is no longer
\* open, and an open one has a receive unless the last PostRecv lost it.
Together ==
  /\ job # Wake => job.op.sock = ctxSock
  /\ portOpen => \A op \in UnderWay : op # NoOp => op.sock = ctxSock
  /\ portOpen /\ pc \notin Opening \cup {"socket"} => sock = ctxSock
  /\ portOpen /\ pc \in Opening \cup {"socket"} =>
       /\ \A op \in UnderWay : op = NoOp
       /\ link[ctxSock] \notin {"open", "fin"}
  /\ pc \in Opening \cup {"gate", "close", "socket", "join"} => link[ctxSock] # "open"
  /\ Single
  /\ Live =>
       /\ portOpen /\ ctxSock \in bound
       /\ pc \in {"test", "take", "taken", "alive"} => (AnyRecv <=> ~lost)

ConnInv ==
  /\ TypeOK
  /\ Stages
  /\ Numbering
  /\ Contents
  /\ ~outlived => Together

-------------------------------------------------------------------------------
(* The packets.                                                            *)

LEMMA OpParts ==
  ASSUME NEW op \in Ops
  PROVE  /\ op.kind \in {"recv", "send"} /\ op.sock \in Socks /\ op.io \in Nat
         /\ op.kind = "recv" => op.io \in Socks
         /\ op # NoOp
<1>1. op.kind # "none"
  BY DEF Ops
<1>2. QED
  BY <1>1, BoundsAssumption DEF Ops, NoOp, Socks

LEMMA PacketParts ==
  ASSUME NEW p \in Packets
  PROVE  /\ p.op \in Ops \cup {NoOp}
         /\ p.res \in {"data", "zero", "failed"}
         /\ p # Wake => p.op \in Ops
         /\ p = Wake <=> p.op = NoOp
         /\ p = Wake => p.res = "data"
<1>1. CASE p = Wake
  BY <1>1 DEF Wake
<1>2. CASE p # Wake
  <2>1. p \in [op : Ops, res : {"data", "zero", "failed"}]
    BY <1>2 DEF Packets
  <2>2. p.op \in Ops /\ p.res \in {"data", "zero", "failed"}
    BY <2>1
  <2>3. p.op # NoOp
    BY <2>2, OpParts
  <2>4. QED
    BY <1>2, <2>2, <2>3
<1>3. QED
  BY <1>1, <1>2

LEMMA PacketsExist ==
  /\ Wake \in Packets
  /\ \A op \in Ops, res \in {"data", "zero", "failed"} : [op |-> op, res |-> res] \in Packets
BY DEF Packets

LEMMA PortAppend ==
  ASSUME port \in Seq(Packets), NEW p \in Packets, port' = Append(port, p)
  PROVE  /\ port' \in Seq(Packets)
         /\ DOMAIN port' = DOMAIN port \cup {Len(port) + 1}
         /\ Len(port) + 1 \notin DOMAIN port
         /\ port'[Len(port) + 1] = p
         /\ \A i \in DOMAIN port : port'[i] = port[i]
         /\ Range(port') = Range(port) \cup {p}
<1>1. /\ port' \in Seq(Packets) /\ Len(port') = Len(port) + 1
      /\ \A i \in 1 .. Len(port) : port'[i] = port[i]
      /\ port'[Len(port) + 1] = p
  BY AppendProperties
<1>2. DOMAIN port = 1 .. Len(port) /\ DOMAIN port' = 1 .. Len(port') /\ Len(port) \in Nat
  BY <1>1, LenProperties
<1>3. DOMAIN port' = DOMAIN port \cup {Len(port) + 1} /\ Len(port) + 1 \notin DOMAIN port
  BY <1>1, <1>2
<1>4. QED
  BY <1>1, <1>2, <1>3 DEF Range

LEMMA PortTaken ==
  ASSUME port \in Seq(Packets), port # <<>>, port' = Tail(port)
  PROVE  /\ port' \in Seq(Packets)
         /\ Head(port) \in Packets
         /\ 1 \in DOMAIN port /\ port[1] = Head(port)
         /\ \A i \in DOMAIN port' : i \in Nat /\ i + 1 \in DOMAIN port /\ port'[i] = port[i + 1]
                                    /\ i + 1 # 1
         /\ \A i \in DOMAIN port : i # 1 => \E k \in DOMAIN port' : port'[k] = port[i]
         /\ Range(port') \subseteq Range(port)
         /\ Head(port) \in Range(port)
<1>1. /\ Head(port) \in Packets /\ port' \in Seq(Packets) /\ Len(port') = Len(port) - 1
      /\ \A i \in 1 .. Len(port') : port'[i] = port[i + 1]
  BY HeadTailProperties
<1>2. DOMAIN port = 1 .. Len(port) /\ DOMAIN port' = 1 .. Len(port')
      /\ Len(port) \in Nat \ {0} /\ Len(port') \in Nat
  BY <1>1, LenProperties, EmptySeq
<1>3. port[1] = Head(port) /\ 1 \in DOMAIN port
  BY <1>2
<1>4. \A i \in DOMAIN port' : i \in Nat /\ i + 1 \in DOMAIN port /\ i + 1 # 1
  BY <1>1, <1>2
<1>5. \A i \in DOMAIN port : i # 1 => i - 1 \in DOMAIN port' /\ (i - 1) + 1 = i
  BY <1>1, <1>2
<1>6. \A i \in DOMAIN port : i # 1 => port'[i - 1] = port[i]
  BY <1>1, <1>2, <1>5
<1>7. QED
  BY <1>1, <1>2, <1>3, <1>4, <1>5, <1>6 DEF Range

LEMMA UnderWayIs ==
  UnderWay = pending \cup {p.op : p \in Range(port)}
BY DEF UnderWay, Range

LEMMA UnderWayIsNow ==
  UnderWay' = pending' \cup {p.op : p \in Range(port')}
BY DEF UnderWay, Range

LEMMA RangeTyped ==
  ASSUME port \in Seq(Packets)
  PROVE  /\ Range(port) \subseteq Packets
         /\ DOMAIN port = 1 .. Len(port) /\ Len(port) \in Nat
         /\ \A i \in DOMAIN port : port[i] \in Range(port)
BY LenProperties DEF Range

LEMMA EmptyPort ==
  ASSUME port = <<>>
  PROVE  port \in Seq(Packets) /\ Range(port) = {} /\ DOMAIN port = {}
BY EmptySeq DEF Range

-------------------------------------------------------------------------------
(* Types.                                                                  *)

\* What PostRecv does, by the way in which WSARecv ends.
LEMMA PostRecvTypes ==
  ASSUME TypeOK, Numbering, NEW io \in Socks, NEW result \in Results, PostRecv(io, result)
  PROVE  /\ pending' \subseteq Ops /\ port' \in Seq(Packets)
         /\ received' \in 0 .. MaxMsgs /\ filled' \in BOOLEAN /\ lost' \in BOOLEAN
<1> USE DEF Takes
<1> DEFINE op == [kind |-> "recv", sock |-> ctxSock, io |-> io]
<1>1. filled' \in BOOLEAN /\ lost' \in BOOLEAN
  BY DEF PostRecv, TypeOK
<1>2. link[ctxSock] \in {"open", "fin"} => op \in Ops
  <2>1. link[ctxSock] \in {"open", "fin"} => ctxSock # 0
    BY DEF Numbering
  <2>2. QED
    BY <2>1, BoundsAssumption DEF Ops, TypeOK, Socks
<1>3. CASE result = "pending"
  BY <1>1, <1>2, <1>3 DEF PostRecv, TypeOK
<1>4. CASE result \in {"error", "blocked"}
  BY <1>1, <1>4 DEF PostRecv, TypeOK
<1>5. CASE result \in {"data", "zero"}
  <2>1. Arrives(op, result) /\ pending' = pending /\ op \in Ops
    BY <1>2, <1>5 DEF PostRecv
  <2>2. [op |-> op, res |-> result] \in Packets
    BY <1>5, <2>1, PacketsExist
  <2>3. port' \in Seq(Packets)
    BY <2>1, <2>2, AppendProperties DEF Arrives, TypeOK
  <2>4. received' \in 0 .. MaxMsgs
    BY <2>1, BoundsAssumption DEF Arrives, TypeOK
  <2>5. QED
    BY <1>1, <2>1, <2>3, <2>4 DEF TypeOK
<1>6. QED
  BY <1>3, <1>4, <1>5 DEF Results

LEMMA TypeInit ==
  ASSUME Init
  PROVE  TypeOK
<1>1. Wake \in Packets /\ port \in Seq(Packets) /\ pending \subseteq Ops
  BY PacketsExist, EmptySeq DEF Init
<1>2. 1 \in Socks /\ 1 \in 0 .. MaxSocks /\ MaxTimes \in 0 .. MaxTimes /\ 0 \in 0 .. MaxSends
      /\ 0 \in 0 .. MaxMsgs
  BY BoundsAssumption DEF Socks
<1>3. QED
  BY <1>1, <1>2 DEF Init, TypeOK

LEMMA LinkClosed ==
  ASSUME TypeOK, NEW s \in 0 .. MaxSocks
  PROVE  CloseFd(s) \in [0 .. MaxSocks -> {"none", "open", "fin", "reset", "closed"}]
BY DEF CloseFd, TypeOK

LEMMA TypeStep ==
  ASSUME TypeOK, Stages, Numbering, [Next]_vars
  PROVE  TypeOK'
<1> USE DEF socket, kernel, context, thread, retry, rest
<1>1. CASE UNCHANGED vars
  BY <1>1 DEF vars, TypeOK
<1>2. CASE LoopTest
  BY <1>2 DEF LoopTest, TypeOK
<1>3. CASE Take
  BY <1>3, PortTaken DEF Take, TypeOK
<1>4. CASE TakeFails
  BY <1>4 DEF TakeFails, TypeOK
<1>5. CASE NullKey
  BY <1>5, PacketsExist DEF NullKey, Handled, TypeOK
<1>6. CASE Ended
  BY <1>6, PacketsExist DEF Ended, Handled, TypeOK
<1>7. CASE SendDone
  BY <1>7, PacketsExist DEF SendDone, Handled, TypeOK
<1>8. CASE RePostRecv
  <2>1. PICK result \in Results :
          /\ PostRecv(job.op.io, result)
          /\ Handled(IF result \in Good THEN "test" ELSE "alive")
    BY <1>8 DEF RePostRecv
  <2>2. job \in Packets /\ job.op.kind = "recv"
    BY <1>8 DEF RePostRecv, TypeOK
  <2>3. job.op \in Ops
    BY <2>2, PacketParts DEF NoOp
  <2>4. job.op.io \in Socks
    BY <2>2, <2>3, OpParts
  <2>5. pending' \subseteq Ops /\ port' \in Seq(Packets) /\ received' \in 0 .. MaxMsgs
        /\ filled' \in BOOLEAN /\ lost' \in BOOLEAN
    BY <2>1, <2>4, PostRecvTypes
  <2>6. UNCHANGED <<portOpen, bound, ctxSock>>
    BY <2>1 DEF PostRecv
  <2>7. QED
    BY <1>8, <2>1, <2>5, <2>6, PacketsExist DEF RePostRecv, Handled, TypeOK
<1>9. CASE AliveTest
  BY <1>9 DEF AliveTest, TypeOK
<1>10. CASE Gate
  <2>1. pc' \in {"test", "close"} /\ started' \in BOOLEAN
    BY <1>10 DEF Gate, TypeOK
  <2>2. UNCHANGED <<socket, kernel, context, job, quit, times, owner, rest>>
    BY <1>10 DEF Gate
  <2>3. QED
    BY <2>1, <2>2 DEF TypeOK
<1>11. CASE CloseOld
  <2>1. link' \in [0 .. MaxSocks -> {"none", "open", "fin", "reset", "closed"}]
    BY <1>11, LinkClosed DEF CloseOld, TypeOK
  <2>2. sock' \in 0 .. MaxSocks /\ outlived' \in BOOLEAN
    BY <1>11, BoundsAssumption DEF CloseOld, TypeOK
  <2>3. QED
    BY <1>11, <2>1, <2>2 DEF CloseOld, TypeOK
<1>12. CASE NewSocket
  <2>1. made + 1 \in Socks /\ made + 1 \in 0 .. MaxSocks
    BY <1>12, BoundsAssumption DEF NewSocket, TypeOK, Socks
  <2>2. QED
    BY <1>12, <2>1 DEF NewSocket, TypeOK
<1>13. CASE Connected
  BY <1>13 DEF Connected, TypeOK
<1>14. CASE ConnectFails
  <2>1. times # 0
    BY <1>14 DEF ConnectFails, Stages
  <2>2. times' \in 0 .. MaxTimes
    BY <1>14, <2>1, BoundsAssumption DEF ConnectFails, TypeOK
  <2>3. QED
    BY <1>14, <2>2 DEF ConnectFails, TypeOK
<1>15. CASE Associate
  <2>1. sock \in 0 .. MaxSocks /\ (sock # 0 => sock \in Socks)
    BY BoundsAssumption DEF TypeOK, Socks
  <2>2. MaxTimes \in 0 .. MaxTimes
    BY BoundsAssumption
  <2>3. /\ ctxSock' \in 0 .. MaxSocks /\ bound' \subseteq Socks
        /\ times' \in 0 .. MaxTimes /\ started' \in BOOLEAN /\ pc' \in {"test", "setRecv"}
    BY <1>15, <2>1, <2>2 DEF Associate, TypeOK
  <2>4. QED
    BY <1>15, <2>3 DEF Associate, TypeOK
<1>16. CASE SetRecvIO
  <2>1. PICK result \in Results :
          /\ PostRecv(ctxSock, result)
          /\ freedIo' = IF result \in Good THEN freedIo ELSE freedIo \cup {ctxSock}
    BY <1>16 DEF SetRecvIO
  <2>2. ctxSock \in Socks
    BY <1>16, BoundsAssumption DEF SetRecvIO, Numbering, TypeOK, Socks
  <2>3. pending' \subseteq Ops /\ port' \in Seq(Packets) /\ received' \in 0 .. MaxMsgs
        /\ filled' \in BOOLEAN /\ lost' \in BOOLEAN
    BY <2>1, <2>2, PostRecvTypes
  <2>4. UNCHANGED <<portOpen, bound, ctxSock>>
    BY <2>1 DEF PostRecv
  <2>5. QED
    BY <1>16, <2>1, <2>2, <2>3, <2>4 DEF SetRecvIO, TypeOK
<1>17. CASE GiveUp
  <2>1. link' \in [0 .. MaxSocks -> {"none", "open", "fin", "reset", "closed"}]
    BY <1>17, LinkClosed DEF GiveUp, TypeOK
  <2>2. sock' \in 0 .. MaxSocks /\ port' \in Seq(Packets)
    BY <1>17, BoundsAssumption, EmptySeq DEF GiveUp, TypeOK
  <2>3. QED
    BY <1>17, <2>1, <2>2 DEF GiveUp, TypeOK
<1>18. CASE GivenUp
  BY <1>18 DEF GivenUp, TypeOK
<1>19. CASE ThreadFault
  BY <1>19 DEF ThreadFault, TypeOK
<1>20. CASE FirstRecv
  <2>1. PICK result \in Results :
          /\ PostRecv(1, result)
          /\ owner' = IF result \in {"data", "zero"} THEN "checking" ELSE "open"
          /\ freedIo' = IF result = "error" THEN freedIo \cup {1} ELSE freedIo
    BY <1>20 DEF FirstRecv
  <2>2. 1 \in Socks
    BY BoundsAssumption DEF Socks
  <2>3. pending' \subseteq Ops /\ port' \in Seq(Packets) /\ received' \in 0 .. MaxMsgs
        /\ filled' \in BOOLEAN /\ lost' \in BOOLEAN
    BY <2>1, <2>2, PostRecvTypes
  <2>4. UNCHANGED <<portOpen, bound, ctxSock>>
    BY <2>1 DEF PostRecv
  <2>5. QED
    BY <1>20, <2>1, <2>2, <2>3, <2>4 DEF FirstRecv, TypeOK
<1>21. CASE FirstCheck
  <2>1. 1 \in Socks
    BY BoundsAssumption DEF Socks
  <2>2. QED
    BY <1>21, <2>1 DEF FirstCheck, TypeOK
<1>22. CASE SetCloseStat
  BY <1>22 DEF SetCloseStat, TypeOK
<1>23. CASE PostWake
  <2>1. port' \in Seq(Packets)
    BY <1>23, PacketsExist, AppendProperties DEF PostWake, TypeOK
  <2>2. owner' = "posted"
    BY <1>23 DEF PostWake
  <2>3. UNCHANGED <<sock, made, link, pending, portOpen, bound, received, ctxSock, filled,
                    lost, freedIo, pc, job, quit, started, times, sent, outlived, crashed>>
    BY <1>23 DEF PostWake, socket, context, thread, retry, rest
  <2>4. QED
    BY <2>1, <2>2, <2>3, ZenonT(30) DEF TypeOK
<1>24. CASE CloseHandle
  BY <1>24, EmptySeq DEF CloseHandle, TypeOK
<1>25. CASE QuitThread
  BY <1>25 DEF QuitThread, TypeOK
<1>26. CASE JoinEnds
  BY <1>26 DEF JoinEnds, TypeOK
<1>27. CASE CloseSocket
  <2>1. link' \in [0 .. MaxSocks -> {"none", "open", "fin", "reset", "closed"}]
    BY <1>27, LinkClosed DEF CloseSocket, TypeOK
  <2>2. sock' \in 0 .. MaxSocks
    BY <1>27, BoundsAssumption DEF CloseSocket, TypeOK
  <2>3. QED
    BY <1>27, <2>1, <2>2 DEF CloseSocket, TypeOK
<1>28. CASE DeleteContext
  <2>1. link' \in [0 .. MaxSocks -> {"none", "open", "fin", "reset", "closed"}]
    BY <1>28, LinkClosed DEF DeleteContext, TypeOK
  <2>2. QED
    BY <1>28, <2>1 DEF DeleteContext, TypeOK
<1>29. CASE DeleteTask
  BY <1>29 DEF DeleteTask, TypeOK
<1>30. CASE DestroyClient
  BY <1>30 DEF DestroyClient, TypeOK
<1>31. CASE SendMsgAsync
  <2>1. sent + 1 \in 0 .. MaxSends /\ sent + 1 \in 1 .. MaxSends
    BY <1>31, BoundsAssumption DEF SendMsgAsync, TypeOK
  <2>2. link[ctxSock] \in {"open", "fin"} => ctxSock \in Socks
    BY BoundsAssumption DEF Numbering, TypeOK, Socks
  <2>3. pending' \subseteq Ops
    BY <1>31, <2>1, <2>2 DEF SendMsgAsync, Takes, TypeOK, Ops
  <2>4. QED
    BY <1>31, <2>1, <2>3 DEF SendMsgAsync, TypeOK
<1>32. ASSUME NEW op \in pending, Completes(op)
       PROVE  TypeOK'
  <2>1. PICK res \in Outcomes(op) :
          Arrives(op, res) /\ filled' = (filled \/ (op.kind = "recv" /\ op.io = 1 /\ res = "data"))
    BY <1>32 DEF Completes
  <2>2. res \in {"data", "zero", "failed"}
    BY DEF Outcomes
  <2>3. op \in Ops
    BY DEF TypeOK
  <2>4. port' \in Seq(Packets)
    BY <2>1, <2>2, <2>3, PacketsExist, AppendProperties DEF Arrives, TypeOK
  <2>5. received' \in 0 .. MaxMsgs
    BY <2>1, BoundsAssumption DEF Arrives, TypeOK
  <2>6. pending' \subseteq Ops /\ filled' \in BOOLEAN
    BY <1>32, <2>1 DEF Completes, TypeOK
  <2>7. QED
    BY <1>32, <2>4, <2>5, <2>6 DEF Completes, TypeOK
<1>33. ASSUME NEW s \in Socks, PeerLeaves(s)
       PROVE  TypeOK'
  <2>1. PICK l \in {"fin", "reset"} : link' = [link EXCEPT ![s] = l]
    BY <1>33 DEF PeerLeaves
  <2>2. link' \in [0 .. MaxSocks -> {"none", "open", "fin", "reset", "closed"}]
    BY <2>1 DEF TypeOK
  <2>3. QED
    BY <1>33, <2>2 DEF PeerLeaves, TypeOK
<1>34. QED
  BY <1>1, <1>2, <1>3, <1>4, <1>5, <1>6, <1>7, <1>8, <1>9, <1>10, <1>11, <1>12, <1>13, <1>14,
     <1>15, <1>16, <1>17, <1>18, <1>19, <1>20, <1>21, <1>22, <1>23, <1>24, <1>25, <1>26, <1>27,
     <1>28, <1>29, <1>30, <1>31, <1>32, <1>33
  DEF Next, Execute, Reconnect, Connect, CloseAll

-------------------------------------------------------------------------------
(* The places of the two threads.                                          *)

LEMMA StagesStep ==
  ASSUME TypeOK, Stages, [Next]_vars
  PROVE  Stages'
<1> USE DEF socket, kernel, context, thread, retry, rest
<1>1. CASE UNCHANGED vars
  BY <1>1 DEF vars, Stages, Opening, Closed
<1>2. CASE LoopTest
  BY <1>2 DEF LoopTest, Stages, Opening, Closed
<1>3. CASE Take
  BY <1>3 DEF Take, Stages, Opening, Closed
<1>4. CASE TakeFails
  BY <1>4 DEF TakeFails, Stages, Opening, Closed
<1>5. CASE NullKey
  BY <1>5 DEF NullKey, Handled, Stages, Opening, Closed
<1>6. CASE Ended
  BY <1>6 DEF Ended, Handled, Stages, Opening, Closed
<1>7. CASE SendDone
  BY <1>7 DEF SendDone, Handled, Stages, Opening, Closed
<1>8. CASE RePostRecv
  BY <1>8 DEF RePostRecv, Handled, Stages, Opening, Closed, PostRecv, Arrives, TypeOK
<1>9. CASE AliveTest
  BY <1>9 DEF AliveTest, Stages, Opening, Closed
<1>10. CASE Gate
  BY <1>10 DEF Gate, Stages, Opening, Closed
<1>11. CASE CloseOld
  BY <1>11 DEF CloseOld, Stages, Opening, Closed
<1>12. CASE NewSocket
  BY <1>12 DEF NewSocket, Stages, Opening, Closed
<1>13. CASE Connected
  BY <1>13 DEF Connected, Stages, Opening, Closed
<1>14. CASE ConnectFails
  BY <1>14, BoundsAssumption DEF ConnectFails, Stages, Opening, Closed, TypeOK
<1>15. CASE Associate
  BY <1>15, BoundsAssumption DEF Associate, Stages, Opening, Closed, ContextFreed, TypeOK
<1>16. CASE SetRecvIO
  BY <1>16 DEF SetRecvIO, Handled, Stages, Opening, Closed, PostRecv, Arrives, TypeOK
<1>17. CASE GiveUp
  BY <1>17 DEF GiveUp, Stages, Opening, Closed
<1>18. CASE GivenUp
  BY <1>18 DEF GivenUp, Stages, Opening, Closed
<1>19. CASE ThreadFault
  BY <1>19 DEF ThreadFault, Stages, Opening, Closed
<1>20. CASE FirstRecv
  BY <1>20 DEF FirstRecv, Stages, Opening, Closed, PostRecv, Arrives, TypeOK
<1>21. CASE FirstCheck
  BY <1>21 DEF FirstCheck, Stages, Opening, Closed
<1>22. CASE SetCloseStat
  BY <1>22 DEF SetCloseStat, Stages, Opening, Closed
<1>23. CASE PostWake
  BY <1>23 DEF PostWake, Stages, Opening, Closed
<1>24. CASE CloseHandle
  BY <1>24 DEF CloseHandle, Stages, Opening, Closed
<1>25. CASE QuitThread
  BY <1>25 DEF QuitThread, Stages, Opening, Closed
<1>26. CASE JoinEnds
  BY <1>26 DEF JoinEnds, Stages, Opening, Closed
<1>27. CASE CloseSocket
  BY <1>27 DEF CloseSocket, Stages, Opening, Closed
<1>28. CASE DeleteContext
  BY <1>28 DEF DeleteContext, Stages, Opening, Closed
<1>29. CASE DeleteTask
  BY <1>29 DEF DeleteTask, Stages, Opening, Closed
<1>30. CASE DestroyClient
  BY <1>30 DEF DestroyClient, Stages, Opening, Closed
<1>31. CASE SendMsgAsync
  BY <1>31 DEF SendMsgAsync, Stages, Opening, Closed
<1>32. ASSUME NEW op \in pending, Completes(op)
       PROVE  Stages'
  BY <1>32 DEF Completes, Arrives, Stages, Opening, Closed
<1>33. ASSUME NEW s \in Socks, PeerLeaves(s)
       PROVE  Stages'
  BY <1>33 DEF PeerLeaves, Stages, Opening, Closed
<1>34. QED
  BY <1>1, <1>2, <1>3, <1>4, <1>5, <1>6, <1>7, <1>8, <1>9, <1>10, <1>11, <1>12, <1>13,
     <1>14, <1>15, <1>16, <1>17, <1>18, <1>19, <1>20, <1>21, <1>22, <1>23, <1>24, <1>25,
     <1>26, <1>27, <1>28, <1>29, <1>30, <1>31, <1>32, <1>33
  DEF Next, Execute, Reconnect, Connect, CloseAll

-------------------------------------------------------------------------------
(* What is under way after a step.                                         *)

LEMMA Quiet ==
  ASSUME UNCHANGED <<pending, port>>
  PROVE  UnderWay' = UnderWay
BY DEF UnderWay

LEMMA Emptied ==
  ASSUME port' = <<>>, UNCHANGED pending
  PROVE  UnderWay' \subseteq UnderWay
BY UnderWayIs DEF UnderWay

LEMMA TakenFrom ==
  ASSUME port \in Seq(Packets), port # <<>>, port' = Tail(port), UNCHANGED pending
  PROVE  /\ UnderWay' \subseteq UnderWay
         /\ Head(port).op \in UnderWay /\ Head(port) \in Packets
<1>1. Range(port') \subseteq Range(port) /\ Head(port) \in Range(port) /\ Head(port) \in Packets
  BY PortTaken
<1>2. UnderWay' = pending' \cup {p.op : p \in Range(port')}
  BY DEF UnderWay, Range
<1>3. QED
  BY <1>1, <1>2, UnderWayIs

LEMMA Appended ==
  ASSUME port \in Seq(Packets), NEW p \in Packets, port' = Append(port, p)
  PROVE  UnderWay' = pending' \cup {q.op : q \in Range(port)} \cup {p.op}
<1>1. Range(port') = Range(port) \cup {p}
  BY PortAppend
<1>2. UnderWay' = pending' \cup {q.op : q \in Range(port')}
  BY DEF UnderWay, Range
<1>3. QED
  BY <1>1, <1>2

LEMMA Woken ==
  ASSUME TypeOK, PostWake
  PROVE  UnderWay' \subseteq UnderWay \cup {NoOp}
<1> USE DEF kernel, context, socket
<1>1. CASE portOpen
  <2>1. port' = Append(port, Wake) /\ pending' = pending
    BY <1>1 DEF PostWake
  <2>2. UnderWay' = pending' \cup {q.op : q \in Range(port)} \cup {Wake.op}
    BY <2>1, Appended, PacketsExist DEF TypeOK
  <2>3. Wake.op = NoOp
    BY DEF Wake
  <2>4. QED
    BY <2>1, <2>2, <2>3, UnderWayIs
<1>2. CASE ~portOpen
  BY <1>2, Quiet DEF PostWake
<1>3. QED
  BY <1>1, <1>2

LEMMA NoOpParts == NoOp.kind = "none" /\ NoOp.sock = 0 /\ NoOp.io = 0
BY DEF NoOp

\* An operation that ends moves to the port, or is dropped.
LEMMA CompletedFrom ==
  ASSUME TypeOK, NEW op \in pending, Completes(op)
  PROVE  UnderWay' \subseteq UnderWay
<1>1. PICK res \in Outcomes(op) : Arrives(op, res)
  BY DEF Completes
<1>2. pending' \subseteq pending /\ op \in Ops /\ res \in {"data", "zero", "failed"}
  BY DEF Completes, Outcomes, TypeOK
<1>3. CASE port' = port
  BY <1>2, <1>3 DEF UnderWay
<1>4. CASE port' = Append(port, [op |-> op, res |-> res])
  <2>1. UnderWay' = pending' \cup {q.op : q \in Range(port)} \cup {op}
    BY <1>2, <1>4, Appended, PacketsExist DEF TypeOK
  <2>2. QED
    BY <1>2, <2>1, UnderWayIs
<1>5. QED
  BY <1>1, <1>3, <1>4 DEF Arrives

\* The receive that PostRecv posts.
Posted(io) == [kind |-> "recv", sock |-> ctxSock, io |-> io]

LEMMA PostedFrom ==
  ASSUME TypeOK, Numbering, NEW io \in Socks, NEW result \in Results, PostRecv(io, result)
  PROVE  \/ UnderWay' = UnderWay
         \/ UnderWay' = UnderWay \cup {Posted(io)} /\ ctxSock # 0
               /\ link[ctxSock] \in {"open", "fin"} /\ Posted(io) \in Ops
<1> USE DEF Takes
<1>1. link[ctxSock] \in {"open", "fin"} => ctxSock # 0 /\ Posted(io) \in Ops
  <2>1. link[ctxSock] \in {"open", "fin"} => ctxSock # 0
    BY DEF Numbering
  <2>2. QED
    BY <2>1, BoundsAssumption DEF Ops, TypeOK, Socks, Posted
<1>2. CASE result = "pending"
  BY <1>1, <1>2 DEF PostRecv, UnderWay, Posted
<1>3. CASE result \in {"error", "blocked"}
  BY <1>3 DEF PostRecv, UnderWay
<1>4. CASE result \in {"data", "zero"}
  <2>1. Arrives(Posted(io), result) /\ pending' = pending /\ link[ctxSock] \in {"open", "fin"}
    BY <1>4 DEF PostRecv, Posted
  <2>2. CASE port' = port
    BY <2>1, <2>2 DEF UnderWay
  <2>3. CASE port' = Append(port, [op |-> Posted(io), res |-> result])
    <3>1. UnderWay' = pending' \cup {q.op : q \in Range(port)} \cup {Posted(io)}
      BY <1>1, <1>4, <2>1, <2>3, Appended, PacketsExist DEF TypeOK
    <3>2. QED
      BY <1>1, <2>1, <3>1, UnderWayIs
  <2>4. QED
    BY <2>1, <2>2, <2>3 DEF Arrives
<1>5. QED
  BY <1>2, <1>3, <1>4 DEF Results

-------------------------------------------------------------------------------
(* The numbers of the sockets.                                             *)

LEMMA NumberingStep ==
  ASSUME TypeOK, Stages, Numbering, [Next]_vars
  PROVE  Numbering'
<1> USE DEF socket, kernel, context, thread, retry, rest
<1>1. CASE UNCHANGED vars
  BY <1>1, Quiet DEF vars, Numbering, Fresh, Opening
<1>2. CASE LoopTest
  BY <1>2, Quiet DEF LoopTest, Numbering, Fresh, Opening
<1>3. CASE Take
  <2>1. UnderWay' \subseteq UnderWay /\ job'.op \in UnderWay /\ job' \in Packets
    BY <1>3, TakenFrom DEF Take, TypeOK
  <2>2. job' # Wake => job'.op \in Ops
    BY <2>1, PacketParts
  <2>3. \A op \in UnderWay : op \in Ops => op.sock <= made /\ (Recv(op) => op.io <= made)
    BY OpParts DEF Numbering, Fresh, Opening, TypeOK, Recv, Socks
  <2>4. QED
    BY <1>3, <2>1, <2>2, <2>3 DEF Take, Numbering, Fresh, Opening
<1>4. CASE TakeFails
  BY <1>4, Quiet DEF TakeFails, Numbering, Fresh, Opening
<1>5. CASE NullKey
  BY <1>5, Quiet DEF NullKey, Handled, Numbering, Fresh, Opening
<1>6. CASE Ended
  BY <1>6, Quiet DEF Ended, Handled, Numbering, Fresh, Opening
<1>7. CASE SendDone
  BY <1>7, Quiet DEF SendDone, Handled, Numbering, Fresh, Opening
<1>8. CASE RePostRecv
  <2>1. PICK result \in Results : PostRecv(job.op.io, result) /\ Handled(IF result \in Good THEN "test" ELSE "alive")
    BY <1>8 DEF RePostRecv
  <2>2. job.op.io \in Socks /\ job.op.io <= made
    <3>1. job \in Packets /\ job.op.kind = "recv" /\ job # Wake
      BY <1>8 DEF RePostRecv, TypeOK, Wake, NoOp
    <3>2. QED
      BY <3>1, PacketParts, OpParts DEF Numbering, Recv
  <2>3. \A op \in UnderWay' : op \in UnderWay \/ op = Posted(job.op.io)
    BY <2>1, <2>2, PostedFrom
  <2>4. Posted(job.op.io).sock = ctxSock /\ Posted(job.op.io).io = job.op.io
    BY DEF Posted
  <2>5. ctxSock' = ctxSock
    BY <2>1 DEF PostRecv
  <2>6. QED
    BY <1>8, <2>1, <2>2, <2>3, <2>4, <2>5 DEF RePostRecv, Handled, Numbering, Fresh, Opening, TypeOK, Socks, Stages
<1>9. CASE AliveTest
  BY <1>9, Quiet DEF AliveTest, Numbering, Fresh, Opening
<1>10. CASE Gate
  BY <1>10, Quiet DEF Gate, Numbering, Fresh, Opening
<1>11. CASE CloseOld
  <2>1. UnderWay' \subseteq UnderWay
    BY <1>11, Quiet DEF CloseOld
  <2>2. QED
    BY <1>11, <2>1, BoundsAssumption DEF CloseOld, CloseFd, Numbering, Fresh, Opening, TypeOK, Socks
<1>12. CASE NewSocket
  <2>1. made + 1 \in Socks /\ made + 1 > made /\ made' = made + 1 /\ sock' = made + 1
    BY <1>12, BoundsAssumption DEF NewSocket, TypeOK, Socks
  <2>2. Fresh(made + 1) /\ link[made + 1] = "none"
    BY <2>1 DEF Numbering
  <2>3. Fresh(made)'
    BY <1>12, <2>1, <2>2, Quiet DEF NewSocket, Fresh
  <2>4. \A s \in Socks : s > made' => s > made
    BY <2>1 DEF TypeOK, Socks
  <2>5. \A s \in Socks : s > made' => link'[s] = "none" /\ Fresh(s)'
    BY <1>12, <2>4, Quiet DEF NewSocket, Numbering, Fresh
  <2>6. job' = Wake
    BY <1>12 DEF NewSocket, Stages
  <2>7. QED
    BY <1>12, <2>1, <2>2, <2>3, <2>5, <2>6 DEF NewSocket, Numbering, Opening, TypeOK
<1>13. CASE Connected
  BY <1>13, Quiet, BoundsAssumption DEF Connected, Numbering, Fresh, Opening, TypeOK, Socks
<1>14. CASE ConnectFails
  BY <1>14, Quiet DEF ConnectFails, Numbering, Fresh, Opening
<1>15. CASE Associate
  BY <1>15, Quiet, BoundsAssumption DEF Associate, Numbering, Fresh, Opening, TypeOK, Socks
<1>16. CASE SetRecvIO
  <2>1. PICK result \in Results : PostRecv(ctxSock, result) /\ (freedIo' = IF result \in Good THEN freedIo ELSE freedIo \cup {ctxSock})
    BY <1>16 DEF SetRecvIO
  <2>2. ctxSock \in Socks /\ ctxSock <= made
    BY <1>16, BoundsAssumption DEF SetRecvIO, Numbering, Fresh, Opening, TypeOK, Socks
  <2>3. \A op \in UnderWay' : op \in UnderWay \/ op = Posted(ctxSock)
    BY <2>1, <2>2, PostedFrom
  <2>4. Posted(ctxSock).sock = ctxSock /\ Posted(ctxSock).io = ctxSock
    BY DEF Posted
  <2>5. ctxSock' = ctxSock
    BY <2>1 DEF PostRecv
  <2>6. QED
    BY <1>16, <2>1, <2>2, <2>3, <2>4, <2>5 DEF SetRecvIO, Numbering, Fresh, Opening, TypeOK, Socks, Stages
<1>17. CASE GiveUp
  <2>1. UnderWay' \subseteq UnderWay
    BY <1>17, Emptied DEF GiveUp
  <2>2. QED
    BY <1>17, <2>1, BoundsAssumption DEF GiveUp, CloseFd, Numbering, Fresh, Opening, TypeOK, Socks
<1>18. CASE GivenUp
  BY <1>18, Quiet DEF GivenUp, Numbering, Fresh, Opening
<1>19. CASE ThreadFault
  BY <1>19, Quiet DEF ThreadFault, Numbering, Fresh, Opening
<1>20. CASE FirstRecv
  <2>1. PICK result \in Results : PostRecv(1, result) /\ (freedIo' = IF result = "error" THEN freedIo \cup {1} ELSE freedIo)
    BY <1>20 DEF FirstRecv
  <2>2. 1 \in Socks /\ 1 <= made
    BY BoundsAssumption DEF TypeOK, Socks
  <2>3. \A op \in UnderWay' : op \in UnderWay \/ op = Posted(1)
    BY <2>1, <2>2, PostedFrom
  <2>4. Posted(1).sock = ctxSock /\ Posted(1).io = 1
    BY DEF Posted
  <2>5. ctxSock' = ctxSock
    BY <2>1 DEF PostRecv
  <2>6. QED
    BY <1>20, <2>1, <2>2, <2>3, <2>4, <2>5 DEF FirstRecv, Numbering, Fresh, Opening, TypeOK, Socks, Stages
<1>21. CASE FirstCheck
  BY <1>21, Quiet DEF FirstCheck, Numbering, Fresh, Opening
<1>22. CASE SetCloseStat
  BY <1>22, Quiet DEF SetCloseStat, Numbering, Fresh, Opening
<1>23. CASE PostWake
  BY <1>23, Woken, NoOpParts DEF PostWake, Numbering, Fresh, Opening, TypeOK, Recv, Socks
<1>24. CASE CloseHandle
  BY <1>24, Emptied DEF CloseHandle, Numbering, Fresh, Opening
<1>25. CASE QuitThread
  BY <1>25, Quiet DEF QuitThread, Numbering, Fresh, Opening
<1>26. CASE JoinEnds
  BY <1>26, Quiet DEF JoinEnds, Numbering, Fresh, Opening
<1>27. CASE CloseSocket
  <2>1. UnderWay' \subseteq UnderWay
    BY <1>27, Quiet DEF CloseSocket
  <2>2. QED
    BY <1>27, <2>1, BoundsAssumption DEF CloseSocket, CloseFd, Numbering, Fresh, Opening, TypeOK, Socks
<1>28. CASE DeleteContext
  <2>1. UnderWay' \subseteq UnderWay
    BY <1>28, Quiet DEF DeleteContext
  <2>2. QED
    BY <1>28, <2>1, BoundsAssumption DEF DeleteContext, CloseFd, Numbering, Fresh, Opening, TypeOK, Socks
<1>29. CASE DeleteTask
  BY <1>29, Quiet DEF DeleteTask, Numbering, Fresh, Opening
<1>30. CASE DestroyClient
  BY <1>30, Quiet DEF DestroyClient, Numbering, Fresh, Opening
<1>31. CASE SendMsgAsync
  <2>1. \A op \in UnderWay' : op \in UnderWay \/ (op.kind = "send" /\ op.sock = ctxSock
                                               /\ link[ctxSock] \in {"open", "fin"})
    BY <1>31 DEF SendMsgAsync, Takes, UnderWay
  <2>2. QED
    BY <1>31, <2>1 DEF SendMsgAsync, Numbering, Fresh, Opening, TypeOK, Socks, Recv
<1>32. ASSUME NEW op \in pending, Completes(op)
       PROVE  Numbering'
  <2>1. UnderWay' \subseteq UnderWay
    BY <1>32, CompletedFrom
  <2>2. QED
    BY <1>32, <2>1 DEF Completes, Numbering, Fresh, Opening
<1>33. ASSUME NEW s \in Socks, PeerLeaves(s)
       PROVE  Numbering'
  BY <1>33, Quiet DEF PeerLeaves, Numbering, Fresh, Opening, TypeOK, Socks
<1>34. QED
  BY <1>1, <1>2, <1>3, <1>4, <1>5, <1>6, <1>7, <1>8, <1>9, <1>10, <1>11, <1>12, <1>13,
     <1>14, <1>15, <1>16, <1>17, <1>18, <1>19, <1>20, <1>21, <1>22, <1>23, <1>24, <1>25,
     <1>26, <1>27, <1>28, <1>29, <1>30, <1>31, <1>32, <1>33
  DEF Next, Execute, Reconnect, Connect, CloseAll

-------------------------------------------------------------------------------
(* What the packets say.                                                   *)

LEMMA HeldTyped ==
  ASSUME TypeOK
  PROVE  Held \subseteq Packets
BY RangeTyped DEF Held, TypeOK

LEMMA WakeFits == Wake.res = "data" /\ ~Recv(Wake.op) /\ PacketFits(Wake) /\ PacketFits(Wake)'
BY DEF PacketFits, Wake, NoOp, Recv

LEMMA LinkCloses ==
  ASSUME TypeOK, NEW s \in 0 .. MaxSocks, link' = CloseFd(s)
  PROVE  \A p \in Held : link'[p.op.sock] = "open" => link[p.op.sock] = "open"
BY HeldTyped, PacketParts, OpParts, NoOpParts, BoundsAssumption DEF CloseFd, TypeOK, Socks

\* A step that posts no receive and ends none.
LEMMA ContentsKept ==
  ASSUME Contents, received' = received, freedIo' = freedIo,
         owner' = "checking" => owner = "checking",
         \A op \in pending' : op \in pending \/ ~Recv(op),
         Held' \subseteq Held \cup {Wake},
         \A p \in Held : link'[p.op.sock] = "open" => link[p.op.sock] = "open" \/ p.res = "data"
  PROVE  Contents'
<1>1. \A p \in Held : PacketFits(p)'
  BY DEF Contents, PacketFits, Reused
<1>2. \A p \in Held' : PacketFits(p)'
  BY <1>1, WakeFits
<1>3. QED
  BY <1>2, WakeFits DEF Contents, Reused

LEMMA RePostedIo ==
  ASSUME TypeOK, RePostRecv
  PROVE  job.op \in Ops /\ job.op.io \in Socks /\ job # Wake
<1>1. job \in Packets /\ job.op.kind = "recv" /\ job # Wake
  BY DEF RePostRecv, TypeOK, Wake, NoOp
<1>2. QED
  BY <1>1, PacketParts, OpParts

LEMMA PostedHeld ==
  ASSUME TypeOK, Numbering, NEW io \in Socks, NEW result \in Results, PostRecv(io, result)
  PROVE  /\ Held' \subseteq Range(port) \cup {job', [op |-> Posted(io), res |-> result]}
         /\ result \in {"pending", "error", "blocked"} => Held' \subseteq Range(port) \cup {job'}
         /\ pending' \subseteq pending \cup {Posted(io)}
         /\ result # "pending" => pending' = pending
         /\ received' \in Nat /\ (received > 0 => received' > 0) /\ (result = "data" => received' > 0)
         /\ result = "zero" => link[ctxSock] = "fin"
<1> USE DEF Takes
<1>1. received \in Nat
  BY BoundsAssumption DEF TypeOK
<1>2. CASE result = "pending"
  BY <1>1, <1>2 DEF PostRecv, Held, Posted
<1>3. CASE result \in {"error", "blocked"}
  BY <1>1, <1>3 DEF PostRecv, Held
<1>4. CASE result \in {"data", "zero"}
  <2>1. Arrives(Posted(io), result) /\ pending' = pending /\ link[ctxSock] \in {"open", "fin"}
        /\ result \in Outcomes(Posted(io))
    BY <1>4 DEF PostRecv, Posted
  <2>2. Posted(io) \in Ops
    BY <2>1, BoundsAssumption DEF Numbering, TypeOK, Socks, Ops, Posted
  <2>3. Range(port') \subseteq Range(port) \cup {[op |-> Posted(io), res |-> result]}
    BY <1>4, <2>1, <2>2, PortAppend, PacketsExist DEF Arrives, TypeOK
  <2>4. result = "zero" => link[ctxSock] = "fin"
    BY <2>1 DEF Outcomes, Posted
  <2>5. QED
    BY <1>1, <1>4, <2>1, <2>3, <2>4 DEF Held, Arrives, Posted
<1>5. QED
  BY <1>2, <1>3, <1>4 DEF Results

LEMMA ContentsStep ==
  ASSUME TypeOK, Stages, Numbering, Contents, [Next]_vars
  PROVE  Contents'
<1> USE DEF socket, kernel, context, thread, retry, rest
<1>1. CASE UNCHANGED vars
  BY <1>1, ContentsKept DEF vars, Held
<1>2. CASE LoopTest
  BY <1>2, ContentsKept DEF LoopTest, Held
<1>3. CASE Take
  <2>1. Held' \subseteq Held
    BY <1>3, PortTaken DEF Take, Held, TypeOK
  <2>2. QED
    BY <1>3, <2>1, ContentsKept DEF Take
<1>4. CASE TakeFails
  BY <1>4, ContentsKept DEF TakeFails, Held
<1>5. CASE NullKey
  BY <1>5, ContentsKept DEF NullKey, Handled, Held
<1>6. CASE Ended
  BY <1>6, ContentsKept DEF Ended, Handled, Held
<1>7. CASE SendDone
  BY <1>7, ContentsKept DEF SendDone, Handled, Held
<1>8. CASE RePostRecv
  <2>1. PICK result \in Results : PostRecv(job.op.io, result) /\ Handled(IF result \in Good THEN "test" ELSE "alive")
    BY <1>8 DEF RePostRecv
  <2>2. job.op.io \in Socks
    BY <1>8, RePostedIo
  <2>3. /\ Held' \subseteq Range(port) \cup {job', [op |-> Posted(job.op.io), res |-> result]}
        /\ result \in {"pending", "error", "blocked"} => Held' \subseteq Range(port) \cup {job'}
        /\ pending' \subseteq pending \cup {Posted(job.op.io)}
        /\ result # "pending" => pending' = pending
        /\ received' \in Nat /\ (received > 0 => received' > 0) /\ (result = "data" => received' > 0)
        /\ result = "zero" => link[ctxSock] = "fin"
    BY <2>1, <2>2, PostedHeld
  <2>4. Posted(job.op.io).sock = ctxSock /\ Posted(job.op.io).io = job.op.io
    BY DEF Posted
  <2>5. received > 0 /\ (job.op.io \in freedIo => job.op.io = 1)
    BY <1>8 DEF RePostRecv, Contents, PacketFits, Held, Recv, Reused
  <2>6. job' = Wake /\ link' = link /\ freedIo' = freedIo /\ PacketFits(Wake)'
    BY <1>8, <2>1, WakeFits DEF RePostRecv, Handled
  <2>7. \A p \in Range(port) : PacketFits(p)'
    BY <2>3, <2>6 DEF Contents, PacketFits, Held, Reused
  <2>8. \A q : q = [op |-> Posted(job.op.io), res |-> result] /\ result \in {"data", "zero"} => PacketFits(q)'
    BY <2>3, <2>4, <2>5, <2>6 DEF PacketFits, Reused
  <2>9. \A p \in Held' : PacketFits(p)'
    BY <2>3, <2>6, <2>7, <2>8 DEF Results
  <2>10. QED
    BY <2>3, <2>4, <2>5, <2>6, <2>9 DEF Contents, Reused, Recv
<1>9. CASE AliveTest
  BY <1>9, ContentsKept DEF AliveTest, Held
<1>10. CASE Gate
  BY <1>10, ContentsKept DEF Gate, Held
<1>11. CASE CloseOld
  BY <1>11, LinkCloses, ContentsKept DEF CloseOld, Held, TypeOK
<1>12. CASE NewSocket
  BY <1>12, ContentsKept DEF NewSocket, Held
<1>13. CASE Connected
  <2>1. \A p \in Range(port) : p.op.sock # sock
    BY <1>13, UnderWayIs DEF Connected, Numbering, Fresh, Opening
  <2>2. job = Wake /\ Wake.res = "data"
    BY <1>13 DEF Connected, Stages, Wake
  <2>3. \A p \in Held : link'[p.op.sock] = "open" => link[p.op.sock] = "open" \/ p.res = "data"
    BY <1>13, <2>1, <2>2 DEF Connected, Held, TypeOK
  <2>4. QED
    BY <1>13, <2>3, ContentsKept DEF Connected, Held
<1>14. CASE ConnectFails
  BY <1>14, ContentsKept DEF ConnectFails, Held
<1>15. CASE Associate
  BY <1>15, ContentsKept DEF Associate, Held
<1>16. CASE SetRecvIO
  <2>1. PICK result \in Results : PostRecv(ctxSock, result) /\ (freedIo' = IF result \in Good THEN freedIo ELSE freedIo \cup {ctxSock})
    BY <1>16 DEF SetRecvIO
  <2>2. ctxSock \in Socks
    BY <1>16, BoundsAssumption DEF SetRecvIO, Numbering, TypeOK, Socks
  <2>3. /\ Held' \subseteq Range(port) \cup {job', [op |-> Posted(ctxSock), res |-> result]}
        /\ result \in {"pending", "error", "blocked"} => Held' \subseteq Range(port) \cup {job'}
        /\ pending' \subseteq pending \cup {Posted(ctxSock)}
        /\ result # "pending" => pending' = pending
        /\ received' \in Nat /\ (received > 0 => received' > 0) /\ (result = "data" => received' > 0)
        /\ result = "zero" => link[ctxSock] = "fin"
    BY <2>1, <2>2, PostedHeld
  <2>4. Posted(ctxSock).sock = ctxSock /\ Posted(ctxSock).io = ctxSock
    BY DEF Posted
  <2>5. /\ ctxSock \notin {0, 1} /\ ctxSock \notin freedIo
        /\ \A op \in UnderWay : Recv(op) => op.io # ctxSock
    BY <1>16 DEF SetRecvIO, Numbering
  <2>6. job' = Wake /\ link' = link /\ owner' = owner /\ PacketFits(Wake)' /\ ~Recv(Wake.op)
    BY <1>16, WakeFits DEF SetRecvIO, Stages
  <2>7. \A p \in Range(port) : Recv(p.op) => p.op.io # ctxSock
    BY <2>5, UnderWayIs
  <2>8. \A p \in Range(port) : PacketFits(p)'
    BY <2>1, <2>3, <2>6, <2>7 DEF Contents, PacketFits, Held, Reused
  <2>9. \A q : q = [op |-> Posted(ctxSock), res |-> result] /\ result \in {"data", "zero"} => PacketFits(q)'
    BY <2>1, <2>3, <2>4, <2>5, <2>6 DEF PacketFits, Reused, Good
  <2>10. \A p \in Held' : PacketFits(p)'
    BY <2>3, <2>6, <2>8, <2>9 DEF Results
  <2>11. \A op \in pending' : Recv(op) /\ op.io \in freedIo' => Reused(op)'
    <3>1. \A op \in pending : Recv(op) => op.io # ctxSock
      BY <2>5, UnderWayIs
    <3>2. \A op \in pending : Recv(op) /\ op.io \in freedIo' => Reused(op)'
      BY <2>1, <2>3, <3>1 DEF Contents, Reused
    <3>3. CASE result = "pending"
      BY <2>1, <2>3, <2>4, <2>5, <3>2, <3>3 DEF Good
    <3>4. CASE result # "pending"
      BY <2>3, <3>2, <3>4
    <3>5. QED
      BY <3>3, <3>4
  <2>12. received' = 0 => received = 0
    BY <2>3, BoundsAssumption DEF TypeOK
  <2>13. QED
    BY <2>3, <2>4, <2>5, <2>6, <2>10, <2>11, <2>12 DEF Contents, Held
<1>17. CASE GiveUp
  <2>1. Held' \subseteq Held
    BY <1>17 DEF GiveUp, Held, Range
  <2>2. QED
    BY <1>17, <2>1, LinkCloses, ContentsKept DEF GiveUp, TypeOK
<1>18. CASE GivenUp
  BY <1>18, ContentsKept DEF GivenUp, Held
<1>19. CASE ThreadFault
  BY <1>19, ContentsKept DEF ThreadFault, Held
<1>20. CASE FirstRecv
  <2>1. PICK result \in Results :
          /\ PostRecv(1, result)
          /\ owner' = IF result \in {"data", "zero"} THEN "checking" ELSE "open"
          /\ freedIo' = IF result = "error" THEN freedIo \cup {1} ELSE freedIo
    BY <1>20 DEF FirstRecv
  <2>2. 1 \in Socks
    BY BoundsAssumption DEF Socks
  <2>3. /\ Held' \subseteq Range(port) \cup {job', [op |-> Posted(1), res |-> result]}
        /\ result \in {"pending", "error", "blocked"} => Held' \subseteq Range(port) \cup {job'}
        /\ pending' \subseteq pending \cup {Posted(1)}
        /\ result # "pending" => pending' = pending
        /\ received' \in Nat /\ (received > 0 => received' > 0) /\ (result = "data" => received' > 0)
        /\ result = "zero" => link[ctxSock] = "fin"
    BY <2>1, <2>2, PostedHeld
  <2>4. Posted(1).sock = ctxSock /\ Posted(1).io = 1
    BY DEF Posted
  <2>5. /\ job' = Wake /\ link' = link /\ port = <<>> /\ pending = {} /\ freedIo = {}
        /\ owner' = "checking" => result \in {"data", "zero"}
    BY <1>20, <2>1 DEF FirstRecv, Stages
  <2>6. Range(port) = {}
    BY <2>5, EmptyPort
  <2>7. \A p \in Held' : p = Wake \/ (p = [op |-> Posted(1), res |-> result] /\ result \in {"data", "zero"})
    BY <2>3, <2>5, <2>6 DEF Results
  <2>8. \A q : q = [op |-> Posted(1), res |-> result] /\ result \in {"data", "zero"} => PacketFits(q)'
    BY <2>1, <2>3, <2>4, <2>5 DEF PacketFits
  <2>9. \A p \in Held' : PacketFits(p)'
    BY <2>7, <2>8, WakeFits
  <2>10. result = "pending" => freedIo' = {}
    BY <2>1, <2>5
  <2>11. QED
    BY <2>1, <2>3, <2>5, <2>7, <2>9, <2>10, WakeFits DEF Contents
<1>21. CASE FirstCheck
  <2>1. /\ freedIo' \subseteq freedIo \cup {1} /\ UNCHANGED <<link, received, pending, port, job>>
        /\ owner = "checking" /\ owner' = "open" /\ Held' = Held
    BY <1>21 DEF FirstCheck, Held
  <2>2. received \in Nat
    BY BoundsAssumption DEF TypeOK
  <2>3. \A p \in Held : PacketFits(p)'
    BY <2>1, <2>2 DEF Contents, PacketFits, Reused
  <2>4. \A op \in pending : Recv(op) /\ op.io \in freedIo' => Reused(op)'
    BY <2>1, <2>2 DEF Contents, Reused
  <2>5. QED
    BY <2>1, <2>3, <2>4 DEF Contents
<1>22. CASE SetCloseStat
  BY <1>22, ContentsKept DEF SetCloseStat, Held
<1>23. CASE PostWake
  <2>1. Held' \subseteq Held \cup {Wake}
    BY <1>23, PortAppend, PacketsExist DEF PostWake, Held, TypeOK
  <2>2. QED
    BY <1>23, <2>1, ContentsKept DEF PostWake
<1>24. CASE CloseHandle
  <2>1. Held' \subseteq Held
    BY <1>24 DEF CloseHandle, Held, Range
  <2>2. QED
    BY <1>24, <2>1, LinkCloses, ContentsKept DEF CloseHandle, TypeOK
<1>25. CASE QuitThread
  BY <1>25, ContentsKept DEF QuitThread, Held
<1>26. CASE JoinEnds
  BY <1>26, ContentsKept DEF JoinEnds, Held
<1>27. CASE CloseSocket
  BY <1>27, LinkCloses, ContentsKept DEF CloseSocket, Held, TypeOK
<1>28. CASE DeleteContext
  BY <1>28, LinkCloses, ContentsKept DEF DeleteContext, Held, TypeOK
<1>29. CASE DeleteTask
  BY <1>29, ContentsKept DEF DeleteTask, Held
<1>30. CASE DestroyClient
  BY <1>30, ContentsKept DEF DestroyClient, Held
<1>31. CASE SendMsgAsync
  <2>1. \A op \in pending' : op \in pending \/ ~Recv(op)
    BY <1>31 DEF SendMsgAsync, Recv
  <2>2. QED
    BY <1>31, <2>1, ContentsKept DEF SendMsgAsync, Held
<1>32. ASSUME NEW op \in pending, Completes(op)
       PROVE  Contents'
  <2>1. PICK res \in Outcomes(op) : Arrives(op, res)
    BY <1>32 DEF Completes
  <2>2. op \in Ops /\ res \in {"data", "zero", "failed"} /\ [op |-> op, res |-> res] \in Packets
    BY PacketsExist DEF Outcomes, TypeOK
  <2>3. Held' \subseteq Held \cup {[op |-> op, res |-> res]}
    BY <1>32, <2>1, <2>2, PortAppend DEF Completes, Arrives, Held, TypeOK
  <2>4. /\ link' = link /\ freedIo' = freedIo /\ owner' = owner /\ pending' \subseteq pending
        /\ received \in Nat /\ received' \in Nat /\ received' >= received
        /\ Recv(op) /\ res = "data" => received' > 0
    BY <1>32, <2>1, BoundsAssumption DEF Completes, Arrives, TypeOK, Recv
  <2>5. res # "data" => link[op.sock] # "open"
    BY <2>1, <2>2, OpParts DEF Outcomes
  <2>6. \A p \in Held : PacketFits(p)'
    BY <2>4 DEF Contents, PacketFits, Reused
  <2>7. PacketFits([op |-> op, res |-> res])'
    BY <2>4, <2>5 DEF Contents, PacketFits, Reused
  <2>8. received' = 0 /\ owner' = "checking" /\ Recv(op) => op.io # 1
    BY <2>4 DEF Contents
  <2>9. QED
    BY <2>3, <2>4, <2>6, <2>7, <2>8 DEF Contents, Reused
<1>33. ASSUME NEW s \in Socks, PeerLeaves(s)
       PROVE  Contents'
  <2>1. \A r \in 0 .. MaxSocks : link'[r] = "open" => link[r] = "open"
    BY <1>33 DEF PeerLeaves, TypeOK, Socks
  <2>2. \A p \in Held : p.op.sock \in 0 .. MaxSocks
    BY HeldTyped, PacketParts, OpParts, NoOpParts, BoundsAssumption DEF Socks
  <2>3. QED
    BY <1>33, <2>1, <2>2, ContentsKept DEF PeerLeaves, Held
<1>34. QED
  BY <1>1, <1>2, <1>3, <1>4, <1>5, <1>6, <1>7, <1>8, <1>9, <1>10, <1>11, <1>12, <1>13,
     <1>14, <1>15, <1>16, <1>17, <1>18, <1>19, <1>20, <1>21, <1>22, <1>23, <1>24, <1>25,
     <1>26, <1>27, <1>28, <1>29, <1>30, <1>31, <1>32, <1>33
  DEF Next, Execute, Reconnect, Connect, CloseAll

-------------------------------------------------------------------------------
(* The receive on the socket of the context.                               *)

LEMMA SameReceive ==
  ASSUME UNCHANGED <<pending, port, ctxSock, job>>
  PROVE  (Single <=> Single') /\ (AnyRecv <=> AnyRecv')
BY DEF Single, AnyRecv, OnContext, IsRecv, UnderWay, Range

LEMMA WakeIsNone == ~OnContext(Wake.op) /\ ~OnContext(NoOp) /\ ~OnContext(Wake.op)'
BY DEF OnContext, IsRecv, Wake, NoOp

\* A packet that is no receive has been handled.
LEMMA HandledReceive ==
  ASSUME ~OnContext(job.op), job' = Wake, UNCHANGED <<pending, port, ctxSock>>
  PROVE  (Single => Single') /\ (AnyRecv <=> AnyRecv')
BY DEF Single, AnyRecv, OnContext, IsRecv, UnderWay, Range, Wake, NoOp

\* A packet has been handled, or the port was closed.
LEMMA FewerReceives ==
  ASSUME Single, pending' = pending, ctxSock' = ctxSock, job' \in {job, Wake},
         port' \in {port, <<>>}
  PROVE  Single'
<1>1. port' = port \/ (DOMAIN port' = {} /\ Range(port') = {})
  BY EmptyPort DEF Range
<1>2. UnderWay' \subseteq UnderWay
  BY <1>1 DEF UnderWay
<1>3. QED
  BY <1>1, <1>2 DEF Single, OnContext, IsRecv, Wake, NoOp

LEMMA TakenReceive ==
  ASSUME TypeOK, Stages, Single, Take
  PROVE  Single' /\ (AnyRecv <=> AnyRecv')
<1> USE DEF context
<1>1. /\ \A i \in DOMAIN port' : i \in Nat /\ i + 1 \in DOMAIN port /\ port'[i] = port[i + 1]
                                /\ i + 1 # 1
      /\ Range(port') \subseteq Range(port) /\ Head(port) \in Range(port)
      /\ 1 \in DOMAIN port /\ port[1] = Head(port)
  BY PortTaken DEF Take, TypeOK
<1>2. job' = Head(port) /\ pending' = pending /\ ctxSock' = ctxSock
  BY DEF Take
<1>3. \A i, j \in DOMAIN port' :
        IsRecv(port'[i].op, ctxSock) /\ IsRecv(port'[j].op, ctxSock) => i = j
  BY <1>1 DEF Single, OnContext
<1>4. IsRecv(job'.op, ctxSock) => \A i \in DOMAIN port' : ~IsRecv(port'[i].op, ctxSock)
  BY <1>1, <1>2 DEF Single, OnContext
<1>5. IsRecv(job'.op, ctxSock) => \A op \in pending' : ~IsRecv(op, ctxSock)
  BY <1>1, <1>2 DEF Single, OnContext
<1>6. \A a \in pending', p \in Range(port') : ~(IsRecv(a, ctxSock) /\ IsRecv(p.op, ctxSock))
  BY <1>1, <1>2 DEF Single, OnContext
<1>7. IsRecv(job'.op, ctxSock) => \A op \in UnderWay' : ~IsRecv(op, ctxSock)
  BY <1>4, <1>5 DEF UnderWay
<1>8. Single'
  BY <1>2, <1>3, <1>6, <1>7 DEF Single, OnContext
<1>9. ASSUME AnyRecv
      PROVE  AnyRecv'
  <2>1. ~IsRecv(job.op, ctxSock)
    BY DEF Take, Stages, Wake, NoOp, IsRecv
  <2>2. PICK op \in UnderWay : IsRecv(op, ctxSock)
    BY <1>9, <2>1 DEF AnyRecv, OnContext
  <2>3. CASE op \in pending
    BY <1>2, <2>2, <2>3 DEF AnyRecv, OnContext, UnderWay
  <2>4. CASE op \notin pending
    <3>1. PICK i \in DOMAIN port : op = port[i].op
      BY <2>4 DEF UnderWay
    <3>2. CASE i = 1
      BY <1>1, <1>2, <2>2, <3>1, <3>2 DEF AnyRecv, OnContext
    <3>3. CASE i # 1
      <4>1. PICK k \in DOMAIN port' : port'[k] = port[i]
        BY <3>3, PortTaken DEF Take, TypeOK
      <4>2. port'[k].op \in UnderWay'
        BY DEF UnderWay
      <4>3. QED
        BY <1>2, <2>2, <3>1, <4>1, <4>2 DEF AnyRecv, OnContext
    <3>4. QED
      BY <3>2, <3>3
  <2>5. QED
    BY <2>3, <2>4
<1>10. AnyRecv' => AnyRecv
  BY <1>1, <1>2, UnderWayIs, UnderWayIsNow DEF AnyRecv, OnContext
<1>11. QED
  BY <1>8, <1>9, <1>10

\* A packet that is no receive comes to the port.
LEMMA WokenReceive ==
  ASSUME TypeOK, Single, PostWake
  PROVE  Single' /\ (AnyRecv <=> AnyRecv')
<1> USE DEF context, thread
<1>1. CASE ~portOpen
  BY <1>1, SameReceive DEF PostWake
<1>2. CASE portOpen
  <2>1. port' = Append(port, Wake) /\ UNCHANGED <<pending, ctxSock, job>>
    BY <1>2 DEF PostWake
  <2>2. /\ DOMAIN port' = DOMAIN port \cup {Len(port) + 1} /\ Len(port) + 1 \notin DOMAIN port
        /\ \A i \in DOMAIN port : port'[i] = port[i]
        /\ port'[Len(port) + 1] = Wake /\ Range(port') = Range(port) \cup {Wake}
    BY <2>1, PortAppend, PacketsExist DEF TypeOK
  <2>3. ~IsRecv(Wake.op, ctxSock)
    BY DEF Wake, NoOp, IsRecv
  <2>4. \A op \in UnderWay' : op \in UnderWay \/ op = Wake.op
    BY <2>1, <2>2 DEF UnderWay
  <2>5. \A op \in UnderWay : op \in UnderWay'
    BY <2>1, <2>2 DEF UnderWay
  <2>6. Single'
    BY <2>1, <2>2, <2>3, <2>4 DEF Single, OnContext
  <2>7. QED
    BY <2>1, <2>3, <2>4, <2>5, <2>6 DEF AnyRecv, OnContext
<1>3. QED
  BY <1>1, <1>2

LEMMA SentReceive ==
  ASSUME Single, SendMsgAsync
  PROVE  Single' /\ (AnyRecv <=> AnyRecv')
<1> USE DEF context, thread
<1>1. /\ UNCHANGED <<port, ctxSock, job>> /\ pending \subseteq pending'
      /\ \A op \in pending' : op \in pending \/ ~IsRecv(op, ctxSock)
  BY DEF SendMsgAsync, IsRecv
<1>2. UnderWay \subseteq UnderWay' /\ \A op \in UnderWay' : op \in UnderWay \/ ~IsRecv(op, ctxSock)
  BY <1>1 DEF UnderWay
<1>3. QED
  BY <1>1, <1>2 DEF Single, AnyRecv, OnContext


\* An operation that ends stays the only one.
LEMMA CompletedReceive ==
  ASSUME TypeOK, Single, NEW op \in pending, Completes(op)
  PROVE  Single' /\ (portOpen /\ ctxSock \in bound => (AnyRecv <=> AnyRecv'))
<1> USE DEF context, thread
<1>1. PICK res \in Outcomes(op) : Arrives(op, res)
  BY DEF Completes
<1>2. /\ pending' = pending \ {op} /\ UNCHANGED <<ctxSock, job>>
      /\ op \in Ops /\ res \in {"data", "zero", "failed"}
  BY DEF Completes, Outcomes, TypeOK
<1>3. CASE ~(portOpen /\ op.sock \in bound)
  <2>1. port' = port
    BY <1>1, <1>3 DEF Arrives
  <2>2. UnderWay' \subseteq UnderWay /\ \A a \in UnderWay : a = op \/ a \in UnderWay'
    BY <1>2, <2>1 DEF UnderWay
  <2>3. Single'
    BY <1>2, <2>1, <2>2 DEF Single, OnContext
  <2>4. QED
    BY <1>2, <1>3, <2>2, <2>3 DEF AnyRecv, OnContext, IsRecv
<1>4. CASE portOpen /\ op.sock \in bound
  <2> DEFINE p == [op |-> op, res |-> res]
  <2>1. port' = Append(port, p) /\ p \in Packets /\ p.op = op
    BY <1>1, <1>2, <1>4, PacketsExist DEF Arrives
  <2> HIDE DEF p
  <2>2. /\ DOMAIN port' = DOMAIN port \cup {Len(port) + 1} /\ Len(port) + 1 \notin DOMAIN port
        /\ \A i \in DOMAIN port : port'[i] = port[i]
        /\ port'[Len(port) + 1] = p /\ Range(port') = Range(port) \cup {p}
    BY <2>1, PortAppend DEF TypeOK
  <2>3. UnderWay' = UnderWay
    BY <1>2, <2>1, <2>2 DEF UnderWay
  <2>4. \A i \in DOMAIN port : port[i] \in Range(port)
    BY DEF Range
  <2>5. \A i, j \in DOMAIN port' :
          IsRecv(port'[i].op, ctxSock) /\ IsRecv(port'[j].op, ctxSock) => i = j
    BY <2>1, <2>2, <2>4 DEF Single, OnContext
  <2>6. \A a \in pending', q \in Range(port') : ~(IsRecv(a, ctxSock) /\ IsRecv(q.op, ctxSock))
    BY <1>2, <2>1, <2>2 DEF Single, OnContext
  <2>7. Single'
    BY <1>2, <2>3, <2>5, <2>6 DEF Single, OnContext
  <2>8. QED
    BY <1>2, <2>3, <2>7 DEF AnyRecv, OnContext
<1>5. QED
  BY <1>3, <1>4

\* PostRecv, when no receive is left on the socket of the context.
LEMMA PostedReceive ==
  ASSUME TypeOK, Numbering, NEW io \in Socks, NEW result \in Results, PostRecv(io, result),
         job' = Wake, \A op \in UnderWay : ~OnContext(op)
  PROVE  /\ Single'
         /\ portOpen /\ ctxSock \in bound /\ link[ctxSock] = "open" => (AnyRecv' <=> ~lost')
<1> USE DEF Takes
<1>1. ctxSock' = ctxSock /\ ~OnContext(job.op)'
  BY WakeIsNone DEF PostRecv
<1>2. IsRecv(Posted(io), ctxSock)
  BY DEF Posted, IsRecv
<1>3. /\ \A a \in pending : ~IsRecv(a, ctxSock)
      /\ \A i \in DOMAIN port : ~IsRecv(port[i].op, ctxSock)
      /\ \A p \in Range(port) : ~IsRecv(p.op, ctxSock)
  BY UnderWayIs DEF OnContext, UnderWay
<1>4. CASE result = "pending"
  <2>1. pending' = pending \cup {Posted(io)} /\ port' = port /\ ~lost'
    BY <1>4 DEF PostRecv, Posted
  <2>2. Posted(io) \in UnderWay'
    BY <2>1 DEF UnderWay
  <2>3. QED
    BY <1>1, <1>2, <1>3, <2>1, <2>2 DEF Single, AnyRecv, OnContext
<1>5. CASE result \in {"error", "blocked"}
  <2>1. pending' = pending /\ port' = port /\ (link[ctxSock] = "open" => lost')
    BY <1>5 DEF PostRecv
  <2>2. UnderWay' = UnderWay
    BY <2>1 DEF UnderWay
  <2>3. QED
    BY <1>1, <1>3, <2>1, <2>2 DEF Single, AnyRecv, OnContext
<1>6. CASE result \in {"data", "zero"}
  <2> DEFINE p == [op |-> Posted(io), res |-> result]
  <2>1. /\ Arrives(Posted(io), result) /\ pending' = pending /\ link[ctxSock] \in {"open", "fin"}
        /\ ~lost'
    BY <1>6 DEF PostRecv, Posted
  <2>2. CASE port' = port /\ ~(portOpen /\ ctxSock \in bound)
    BY <1>1, <1>3, <2>1, <2>2 DEF Single, OnContext
  <2>3. CASE port' = Append(port, p)
    <3>1. Posted(io) \in Ops
      BY <2>1, BoundsAssumption DEF Numbering, TypeOK, Socks, Ops, Posted
    <3>2. p \in Packets /\ p.op = Posted(io)
      BY <1>6, <3>1, PacketsExist
    <3> HIDE DEF p
    <3>3. /\ DOMAIN port' = DOMAIN port \cup {Len(port) + 1}
          /\ \A i \in DOMAIN port : port'[i] = port[i]
          /\ port'[Len(port) + 1] = p
      BY <2>3, <3>2, PortAppend DEF TypeOK
    <3>4. Posted(io) \in UnderWay'
      BY <3>2, <3>3 DEF UnderWay
    <3>5. QED
      BY <1>1, <1>2, <1>3, <2>1, <3>3, <3>4 DEF Single, AnyRecv, OnContext
  <2>4. QED
    BY <2>1, <2>2, <2>3 DEF Arrives, Posted
<1>7. QED
  BY <1>4, <1>5, <1>6 DEF Results


LEMMA TogetherStep ==
  ASSUME TypeOK, Stages, Numbering, Contents, Together, ~outlived', [Next]_vars
  PROVE  Together'
<1> USE DEF socket, kernel, context, thread, retry, rest
<1>1. CASE UNCHANGED vars
  BY <1>1, SameReceive, Quiet DEF vars, Together, Live, Opening
<1>2. CASE LoopTest
  BY <1>2, SameReceive, Quiet DEF LoopTest, Together, Live, Opening, Stages, Closed
<1>3. CASE Take
  <2>1. UnderWay' \subseteq UnderWay /\ job'.op \in UnderWay /\ job' \in Packets
    BY <1>3, TakenFrom DEF Take, TypeOK
  <2>2. job' # Wake => job'.op # NoOp
    BY <2>1, PacketParts
  <2>3. Single' /\ (AnyRecv <=> AnyRecv')
    BY <1>3, TakenReceive DEF Together
  <2>4. QED
    BY <1>3, <2>1, <2>2, <2>3 DEF Take, Together, Live, Opening
<1>4. CASE TakeFails
  BY <1>4, SameReceive, Quiet DEF TakeFails, Together, Live, Opening, Stages, Closed
<1>5. CASE NullKey
  BY <1>5, SameReceive, Quiet DEF NullKey, Handled, Together, Live, Opening
<1>6. CASE Ended
  <2>1. job # Wake /\ link[ctxSock] # "open"
    BY <1>6, WakeFits DEF Ended, Contents, PacketFits, Held, Together
  <2>2. Single'
    BY <1>6, FewerReceives DEF Ended, Handled, Together
  <2>3. QED
    BY <1>6, <2>1, <2>2, Quiet DEF Ended, Handled, Together, Live, Opening
<1>7. CASE SendDone
  <2>1. ~OnContext(job.op) /\ job # Wake
    BY <1>7 DEF SendDone, OnContext, IsRecv, Wake, NoOp
  <2>2. QED
    BY <1>7, <2>1, HandledReceive, Quiet DEF SendDone, Handled, Together, Live, Opening
<1>8. CASE RePostRecv
  <2>1. PICK result \in Results :
          /\ PostRecv(job.op.io, result)
          /\ Handled(IF result \in Good THEN "test" ELSE "alive")
    BY <1>8 DEF RePostRecv
  <2>2. job.op \in Ops /\ job.op.io \in Socks /\ job # Wake
    BY <1>8, RePostedIo
  <2>3. OnContext(job.op)
    BY <1>8, <2>2 DEF RePostRecv, Together, OnContext, IsRecv
  <2>4. \A op \in UnderWay : ~OnContext(op)
    BY <2>3 DEF Together, Single
  <2>5. Single' /\ (portOpen /\ ctxSock \in bound /\ link[ctxSock] = "open" => (AnyRecv' <=> ~lost'))
    BY <2>1, <2>2, <2>4, PostedReceive DEF Handled
  <2>6. \A op \in UnderWay' : op \in UnderWay \/ op.sock = ctxSock
    <3>1. \A op \in UnderWay' : op \in UnderWay \/ op = Posted(job.op.io)
      BY <2>1, <2>2, PostedFrom
    <3>2. Posted(job.op.io).sock = ctxSock
      BY DEF Posted
    <3>3. QED
      BY <3>1, <3>2
  <2>7. pc' \in {"test", "alive"}
    BY <2>1 DEF Handled
  <2>8. UNCHANGED <<portOpen, bound, ctxSock>>
    BY <2>1 DEF PostRecv
  <2>9. QED
    BY <1>8, <2>1, <2>5, <2>6, <2>7, <2>8 DEF RePostRecv, Handled, Together, Live, Opening
<1>9. CASE AliveTest
  BY <1>9, SameReceive, Quiet DEF AliveTest, Together, Live, Opening, Stages, Closed
<1>10. CASE Gate
  BY <1>10, SameReceive, Quiet DEF Gate, Together, Live, Opening, Stages, Closed
<1>11. CASE CloseOld
  <2>1. Single' /\ UnderWay' = UnderWay
    BY <1>11, SameReceive, Quiet DEF CloseOld, Together
  <2>2. ctxSock \in 0 .. MaxSocks /\ link[0] = "none" /\ (link[ctxSock] # "open" => link'[ctxSock] # "open")
    BY <1>11 DEF CloseOld, CloseFd, TypeOK, Numbering
  <2>3. portOpen => /\ \A op \in UnderWay : op = NoOp
                    /\ link'[ctxSock] \notin {"open", "fin"}
    BY <1>11, <2>2 DEF CloseOld, CloseFd, Together, Opening, TypeOK
  <2>4. started'
    BY <1>11 DEF CloseOld, Stages
  <2>5. QED
    BY <1>11, <2>1, <2>2, <2>3, <2>4 DEF CloseOld, Together, Live, Opening, Stages
<1>12. CASE NewSocket
  BY <1>12, SameReceive, Quiet DEF NewSocket, Together, Live, Opening
<1>13. CASE Connected
  <2>1. sock # ctxSock
    BY <1>13 DEF Connected, Numbering, Fresh, Opening
  <2>2. link'[ctxSock] = link[ctxSock]
    BY <1>13, <2>1 DEF Connected, TypeOK
  <2>3. QED
    BY <1>13, <2>2, SameReceive, Quiet DEF Connected, Together, Live, Opening
<1>14. CASE ConnectFails
  BY <1>14, SameReceive, Quiet DEF ConnectFails, Together, Live, Opening
<1>15. CASE Associate
  <2>1. UnderWay' = UnderWay /\ UNCHANGED <<pending, port, job, portOpen>> /\ job = Wake
    BY <1>15, Quiet DEF Associate, Stages
  <2>2. \A op \in UnderWay : ~IsRecv(op, sock)
    <3>1. CASE sock = made
      BY <1>15, <3>1 DEF Associate, Numbering, Fresh, Opening, IsRecv
    <3>2. CASE sock = 0
      <4>1. \A op \in UnderWay : op \in Ops \cup {NoOp}
        BY UnderWayIs, RangeTyped, PacketParts DEF TypeOK
      <4>2. QED
        BY <3>2, <4>1, OpParts, NoOpParts DEF IsRecv, Socks
    <3>3. QED
      BY <1>15, <3>1, <3>2 DEF Associate, Numbering, Opening
  <2>3. ctxSock' = sock
    BY <1>15 DEF Associate
  <2>4. /\ \A a \in pending : ~IsRecv(a, sock)
        /\ \A i \in DOMAIN port : ~IsRecv(port[i].op, sock)
        /\ \A p \in Range(port) : ~IsRecv(p.op, sock)
        /\ ~IsRecv(job.op, sock)
    BY <2>1, <2>2, UnderWayIs DEF UnderWay, IsRecv, Wake, NoOp
  <2>5. Single'
    BY <2>1, <2>3, <2>4 DEF Single, OnContext
  <2>6. started
    BY <1>15 DEF Associate, Stages, Opening
  <2>7. QED
    <3>1. CASE pc' = "setRecv" /\ portOpen /\ sock \in bound'
      BY <1>15, <2>1, <2>3, <2>5, <3>1 DEF Associate, Together, Live, Opening
    <3>2. CASE pc' = "test" /\ started'
      BY <1>15, <2>1, <2>3, <2>5, <3>2 DEF Associate, Together, Live, Opening
    <3>3. QED
      BY <1>15, <2>6, <3>1, <3>2 DEF Associate
<1>16. CASE SetRecvIO
  <2>1. PICK result \in Results : PostRecv(ctxSock, result)
    BY <1>16 DEF SetRecvIO
  <2>2. ctxSock \in Socks /\ \A op \in UnderWay : ~OnContext(op)
    BY <1>16, BoundsAssumption DEF SetRecvIO, Numbering, TypeOK, Socks, OnContext, IsRecv, Recv
  <2>3. job = Wake /\ job' = Wake
    BY <1>16 DEF SetRecvIO, Stages
  <2>4. Single' /\ (portOpen /\ ctxSock \in bound /\ link[ctxSock] = "open" => (AnyRecv' <=> ~lost'))
    BY <2>1, <2>2, <2>3, PostedReceive
  <2>5. \A op \in UnderWay' : op \in UnderWay \/ op.sock = ctxSock
    <3>1. \A op \in UnderWay' : op \in UnderWay \/ op = Posted(ctxSock)
      BY <2>1, <2>2, PostedFrom
    <3>2. Posted(ctxSock).sock = ctxSock
      BY DEF Posted
    <3>3. QED
      BY <3>1, <3>2
  <2>6. UNCHANGED <<portOpen, bound, ctxSock>>
    BY <2>1 DEF PostRecv
  <2>7. QED
    BY <1>16, <2>3, <2>4, <2>5, <2>6 DEF SetRecvIO, Together, Live, Opening
<1>17. CASE GiveUp
  <2>1. UnderWay' \subseteq UnderWay /\ Single'
    BY <1>17, Emptied, FewerReceives DEF GiveUp, Together
  <2>2. link[ctxSock] # "open" /\ link'[ctxSock] # "open"
    BY <1>17 DEF GiveUp, CloseFd, TypeOK, Together, Live, Opening
  <2>3. QED
    BY <1>17, <2>1, <2>2 DEF GiveUp, Together, Live, Opening, Stages
<1>18. CASE GivenUp
  BY <1>18, SameReceive, Quiet DEF GivenUp, Together, Live, Opening, Stages
<1>19. CASE ThreadFault
  BY <1>19, SameReceive, Quiet DEF ThreadFault, Together, Live, Opening, Stages, Closed
<1>20. CASE FirstRecv
  <2>1. PICK result \in Results : PostRecv(1, result)
    BY <1>20 DEF FirstRecv
  <2>2. /\ port = <<>> /\ pending = {} /\ job = Wake /\ job' = Wake /\ portOpen
        /\ ctxSock = 1 /\ 1 \in bound /\ pc \in {"test", "take"} /\ sock = 1
    BY <1>20 DEF FirstRecv, Stages
  <2>3. UnderWay = {} /\ 1 \in Socks
    BY <2>2, EmptyPort, BoundsAssumption DEF UnderWay, Socks
  <2>4. Single' /\ (portOpen /\ ctxSock \in bound /\ link[ctxSock] = "open" => (AnyRecv' <=> ~lost'))
    BY <2>1, <2>2, <2>3, PostedReceive
  <2>5. \A op \in UnderWay' : op.sock = ctxSock
    <3>1. \A op \in UnderWay' : op \in UnderWay \/ op = Posted(1)
      BY <2>1, <2>3, PostedFrom
    <3>2. Posted(1).sock = ctxSock
      BY DEF Posted
    <3>3. QED
      BY <3>1, <3>2, <2>3
  <2>6. UNCHANGED <<portOpen, bound, ctxSock>>
    BY <2>1 DEF PostRecv
  <2>7. QED
    BY <1>20, <2>2, <2>4, <2>5, <2>6 DEF FirstRecv, Together, Live, Opening
<1>21. CASE FirstCheck
  BY <1>21, SameReceive, Quiet DEF FirstCheck, Together, Live, Opening, Stages, Closed
<1>22. CASE SetCloseStat
  BY <1>22, SameReceive, Quiet DEF SetCloseStat, Together, Live, Opening, Stages, Closed
<1>23. CASE PostWake
  <2>1. Single'
    BY <1>23, WokenReceive DEF Together
  <2>2. UnderWay' \subseteq UnderWay \cup {NoOp}
    BY <1>23, Woken
  <2>3. QED
    BY <1>23, <2>1, <2>2 DEF PostWake, Together, Live, Opening
<1>24. CASE CloseHandle
  <2>1. UnderWay' \subseteq UnderWay /\ Single'
    BY <1>24, Emptied, FewerReceives DEF CloseHandle, Together
  <2>2. QED
    BY <1>24, <2>1 DEF CloseHandle, Together, Live, Opening
<1>25. CASE QuitThread
  BY <1>25, SameReceive, Quiet DEF QuitThread, Together, Live, Opening, Stages, Closed
<1>26. CASE JoinEnds
  BY <1>26, SameReceive, Quiet DEF JoinEnds, Together, Live, Opening, Stages, Closed
<1>27. CASE CloseSocket
  <2>1. Single' /\ ~portOpen
    BY <1>27, SameReceive DEF CloseSocket, Together, Stages
  <2>2. link[ctxSock] # "open" => link'[ctxSock] # "open"
    BY <1>27 DEF CloseSocket, CloseFd, TypeOK
  <2>3. QED
    BY <1>27, <2>1, <2>2 DEF CloseSocket, Together, Live, Opening
<1>28. CASE DeleteContext
  <2>1. Single' /\ ~portOpen
    BY <1>28, SameReceive DEF DeleteContext, Together, Stages
  <2>2. link[ctxSock] # "open" => link'[ctxSock] # "open"
    BY <1>28 DEF DeleteContext, CloseFd, TypeOK
  <2>3. QED
    BY <1>28, <2>1, <2>2 DEF DeleteContext, Together, Live, Opening
<1>29. CASE DeleteTask
  BY <1>29, SameReceive, Quiet DEF DeleteTask, Together, Live, Opening, Stages, Closed
<1>30. CASE DestroyClient
  BY <1>30, SameReceive, Quiet DEF DestroyClient, Together, Live, Opening, Stages, Closed
<1>31. CASE SendMsgAsync
  <2>1. Single' /\ (AnyRecv <=> AnyRecv')
    BY <1>31, SentReceive DEF Together
  <2>2. \A op \in UnderWay' : op \in UnderWay \/ (op.sock = ctxSock /\ link[ctxSock] \in {"open", "fin"})
    BY <1>31 DEF SendMsgAsync, Takes, UnderWay
  <2>3. QED
    BY <1>31, <2>1, <2>2 DEF SendMsgAsync, Together, Live, Opening
<1>32. ASSUME NEW op \in pending, Completes(op)
       PROVE  Together'
  <2>1. Single' /\ (portOpen /\ ctxSock \in bound => (AnyRecv <=> AnyRecv'))
    BY <1>32, CompletedReceive DEF Together
  <2>2. UnderWay' \subseteq UnderWay
    BY <1>32, CompletedFrom
  <2>3. QED
    BY <1>32, <2>1, <2>2 DEF Completes, Together, Live, Opening
<1>33. ASSUME NEW s \in Socks, PeerLeaves(s)
       PROVE  Together'
  <2>1. /\ link'[ctxSock] = "open" => link[ctxSock] = "open"
        /\ link'[ctxSock] = "fin" => link[ctxSock] \in {"open", "fin"}
    BY <1>33 DEF PeerLeaves, TypeOK, Socks
  <2>2. QED
    BY <1>33, <2>1, SameReceive, Quiet DEF PeerLeaves, Together, Live, Opening
<1>34. QED
  BY <1>1, <1>2, <1>3, <1>4, <1>5, <1>6, <1>7, <1>8, <1>9, <1>10, <1>11, <1>12, <1>13,
     <1>14, <1>15, <1>16, <1>17, <1>18, <1>19, <1>20, <1>21, <1>22, <1>23, <1>24, <1>25,
     <1>26, <1>27, <1>28, <1>29, <1>30, <1>31, <1>32, <1>33
  DEF Next, Execute, Reconnect, Connect, CloseAll

-------------------------------------------------------------------------------
(* The invariant, and what follows.                                        *)

LEMMA ConnInit ==
  ASSUME Init
  PROVE  ConnInv
<1>1. TypeOK /\ UnderWay = {} /\ Range(port) = {} /\ Held = {Wake}
  BY TypeInit, EmptyPort DEF Init, UnderWay, Held
<1>2. Stages
  BY BoundsAssumption DEF Init, Stages, Opening
<1>3. Numbering
  BY <1>1, BoundsAssumption DEF Init, Numbering, Fresh, Opening, Socks
<1>4. Contents
  BY <1>1, WakeFits DEF Init, Contents
<1>5. Together
  BY <1>1, EmptyPort DEF Init, Together, Live, Opening, Single, OnContext, IsRecv, Wake, NoOp
<1>6. QED
  BY <1>1, <1>2, <1>3, <1>4, <1>5 DEF ConnInv

\* Whatever outlived its socket stays on record.
LEMMA OutlivedStays ==
  ASSUME TypeOK, [Next]_vars, outlived
  PROVE  outlived'
BY DEF Next, Execute, Reconnect, Connect, CloseAll, LoopTest, Take, TakeFails, NullKey, Ended,
   SendDone, RePostRecv, AliveTest, Gate, CloseOld, NewSocket, Connected, ConnectFails, Associate,
   SetRecvIO, GiveUp, GivenUp, ThreadFault, FirstRecv, FirstCheck, SetCloseStat, PostWake,
   CloseHandle, QuitThread, JoinEnds, CloseSocket, DeleteContext, DeleteTask, DestroyClient,
   SendMsgAsync, Completes, PeerLeaves, rest, vars

\* The invariant is inductive.
THEOREM ConnStays == Spec => []ConnInv
<1>1. ConnInv /\ [Next]_vars => ConnInv'
  BY TypeStep, StagesStep, NumberingStep, ContentsStep, TogetherStep, OutlivedStays DEF ConnInv
<1>2. QED
  BY ConnInit, <1>1, PTL DEF Spec

\* Every socket, operation, packet and counter keeps its type, and the number
\* of tries that Reconnect has left never falls below 0 (TcpClient.cpp:385-394).
THEOREM ClientTypes == Spec => []TypeOK
<1>1. ConnInv => TypeOK
  BY DEF ConnInv
<1>2. QED
  BY <1>1, ConnStays, PTL

LEMMA AtMostOneCard ==
  ASSUME NEW S, \A a, b \in S : a = b
  PROVE  Cardinality(S) = IF S = {} THEN 0 ELSE 1
<1>1. CASE S = {}
  BY <1>1, FS_EmptySet
<1>2. CASE S # {}
  <2>1. PICK a \in S : S = {a}
    BY <1>2
  <2>2. QED
    BY <1>2, <2>1, FS_Singleton
<1>3. QED
  BY <1>1, <1>2

LEMMA ReceivesCounted ==
  ASSUME Single
  PROVE  Receives(ctxSock) = IF AnyRecv THEN 1 ELSE 0
<1> DEFINE P == {op \in pending : IsRecv(op, ctxSock)}
           Q == {i \in DOMAIN port : IsRecv(port[i].op, ctxSock)}
           J == IsRecv(job.op, ctxSock)
<1>1. Cardinality(P) = IF P = {} THEN 0 ELSE 1
  BY AtMostOneCard DEF Single, OnContext
<1>2. Cardinality(Q) = IF Q = {} THEN 0 ELSE 1
  BY AtMostOneCard DEF Single, OnContext
<1>3. P = {} \/ Q = {}
  BY DEF Single, OnContext, Range
<1>4. J => P = {} /\ Q = {}
  BY DEF Single, OnContext, UnderWay
<1>5. AnyRecv <=> J \/ P # {} \/ Q # {}
  BY DEF AnyRecv, OnContext, UnderWay
<1>6. Receives(ctxSock) = Cardinality(P) + Cardinality(Q) + IF J THEN 1 ELSE 0
  BY DEF Receives
<1> HIDE DEF P, Q, J
<1>7. QED
  BY <1>1, <1>2, <1>3, <1>4, <1>5, <1>6

\* Over any number of reconnects there is at most one receive on the socket of
\* the context, and an open connection has one unless posting it has failed
\* (TcpClient.cpp:113, 140-144, 461-465), as long as no operation outlived its
\* socket (TcpClient.cpp:213-214, 382).
THEOREM ReceiveIsOne == Spec => []OneReceive
<1>1. ConnInv => OneReceive
  BY ReceivesCounted DEF ConnInv, OneReceive, Together, Live
<1>2. QED
  BY <1>1, ConnStays, PTL

\* A PER_IO_CONTEXT that SetRecvIO takes back has no receive under way on an
\* open connection, but for the first one, whose buffer the thread may have
\* emptied before Connect looks at it (TcpClient.cpp:119-126, 461-465).
THEOREM TakenBackIsIdle == Spec => []TakenBackIdle
<1>1. ASSUME ConnInv, NEW op \in UnderWay, op.kind = "recv", op.io \in freedIo
      PROVE  link[op.sock] # "open" \/ (op.io = 1 /\ received > 0)
  <2>1. CASE op \in pending
    BY <1>1, <2>1 DEF ConnInv, Contents, Recv, Reused
  <2>2. CASE op \notin pending
    <3>1. PICK p \in Range(port) : op = p.op
      BY <2>2, UnderWayIs
    <3>2. PacketFits(p)
      BY <1>1 DEF ConnInv, Contents, Held
    <3>3. QED
      BY <1>1, <3>1, <3>2 DEF PacketFits, Recv, Reused
  <2>3. QED
    BY <2>1, <2>2
<1>2. ConnInv => TakenBackIdle
  BY <1>1 DEF TakenBackIdle
<1>3. QED
  BY <1>2, ConnStays, PTL

LEMMA KeepsOpenStep ==
  ASSUME ConnInv, [Next]_vars, NEW s \in Socks, link[s] = "open", link'[s] = "closed"
  PROVE  outlived \/ Closed
<1> USE DEF socket, kernel, context, thread, retry, rest
<1>0. TypeOK /\ Stages /\ Numbering /\ Contents /\ (~outlived => Together) /\ link' # link
  BY DEF ConnInv
<1>1. CASE CloseOld
  <2>1. s = sock /\ pc = "close"
    BY <1>0, <1>1 DEF CloseOld, CloseFd, TypeOK
  <2>2. SUFFICES ASSUME ~outlived, ~Closed
                 PROVE  FALSE
    OBVIOUS
  <2>3. portOpen
    BY <1>0, <2>1, <2>2 DEF Stages
  <2>4. sock = ctxSock /\ link[ctxSock] # "open"
    BY <1>0, <2>1, <2>2, <2>3 DEF Together, Opening
  <2>5. QED
    BY <2>1, <2>4
<1>2. CASE GiveUp
  BY <1>0, <1>2 DEF GiveUp, CloseFd, Numbering, TypeOK
<1>3. CASE CloseSocket \/ DeleteContext
  BY <1>3 DEF CloseSocket, DeleteContext, Closed
<1>4. CASE Connected
  BY <1>0, <1>4 DEF Connected, TypeOK
<1>5. ASSUME NEW r \in Socks, PeerLeaves(r)
      PROVE  FALSE
  BY <1>0, <1>5 DEF PeerLeaves, TypeOK
<1>6. QED
  BY <1>0, <1>1, <1>2, <1>3, <1>4, <1>5
  DEF Next, Execute, Reconnect, Connect, CloseAll, LoopTest, Take, TakeFails, NullKey, Ended,
   SendDone, RePostRecv, AliveTest, Gate, NewSocket, ConnectFails, Associate, SetRecvIO, GivenUp,
   ThreadFault, FirstRecv, FirstCheck, SetCloseStat, PostWake, CloseHandle, QuitThread, JoinEnds,
   DeleteTask, DestroyClient, SendMsgAsync, Completes, vars

\* The thread closes a connection whose peer has not left only on account of a
\* packet that outlived an earlier socket (TcpClient.cpp:200-206, 360-366).
THEOREM OpenIsKept == Spec => KeepsOpen
<1>1. ConnInv /\ [Next]_vars =>
        [\A s \in Socks : link[s] = "open" /\ link'[s] = "closed" => outlived \/ Closed]_vars
  BY KeepsOpenStep
<1>2. QED
  BY <1>1, ConnStays, PTL DEF Spec, KeepsOpen
===============================================================================

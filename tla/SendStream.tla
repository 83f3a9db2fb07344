------------------------------ MODULE SendStream ------------------------------
(***************************************************************************)
(* The bytes of one connection.  One side posts messages with PostSend and *)
(* goes on with the rest when a send completes in part (SocketDefine.h:    *)
(* 155-186, SocketHandler.cpp:81-97, 223-247; TcpClient.cpp:72-96,         *)
(* 217-233).  The other side is a TcpSocketBase, which reads them with     *)
(* Recv and sends a request with Send (TcpSocketBase.cpp:132-224).         *)
(***************************************************************************)
EXTENDS Integers, Sequences, FiniteSets

CONSTANTS Msgs,      \* the messages posted, one PER_IO_CONTEXT each
          MaxLen,    \* bound: the length of a message
          BufLen,    \* MAX_BUFFER_LEN
          ChunkLen,  \* BUF_SOCKDATA_LEN
          ReqLen,    \* the length of the request given to Send
          Window,    \* how many bytes of messages wait at most to be read
          ReqWindow, \* and how many of the request
          Errnos     \* what the C runtime may have left in errno

ASSUME LengthsAssumption ==
  /\ MaxLen \in Nat \ {0} /\ BufLen \in Nat \ {0}
  /\ ChunkLen \in Nat \ {0} /\ ReqLen \in Nat \ {0}
  /\ Window \in Nat \ {0} /\ ReqWindow \in Nat \ {0}

VARIABLES
  io,       \* each PER_IO_CONTEXT: where it stands, m_nTotalBytes,
            \* m_nSendBytes, and how far m_wsaBuf begins in the buffer and its length
  queue,    \* the overlapped sends in the kernel, in order
  port,     \* the completions: a message and how many bytes of it went out
  out,      \* history: what went out, <<message, index in its buffer>>
  cut,      \* history: the messages of which a send completed in part
  read,     \* how much of it the reader has taken from its socket
  tmp,      \* the indices of Recv's array that are not '\0'
  reader,   \* the position of the reader in Recv
  got,      \* history: what its calls of Recv have returned
  up,       \* how much of the request the kernel has taken
  taken,    \* how much of it its peer has read
  sender,   \* what has become of Send
  errno,
  broken,   \* the connection is broken
  crashed   \* the copy of a message overran its buffer

posting == <<io, queue, port, out, cut>>
reading == <<read, tmp, reader, got>>
sending == <<up, taken, sender, errno>>
vars    == <<posting, reading, sending, broken, crashed>>

NewIO == [stat |-> "none", total |-> 0, sent |-> 0, at |-> 0, len |-> 0]
Bytes == Msgs \X (1 .. BufLen)

TypeOK ==
  /\ io \in [Msgs -> [stat : {"none", "posted", "overrun", "kept", "removed"},
                      total : 0 .. MaxLen, sent : 0 .. BufLen,
                      at : 0 .. BufLen, len : 0 .. BufLen]]
  /\ queue \in Seq(Msgs)
  /\ port \subseteq Msgs \X (-1 .. BufLen)
  /\ out \in Seq(Bytes)
  /\ cut \subseteq Msgs
  /\ read \in 0 .. Len(out)
  /\ tmp \subseteq 1 .. ChunkLen + 1
  /\ reader \in {"idle", "recv", "ended"}
  /\ got \in Seq(Bytes)
  /\ up \in 0 .. ReqLen /\ taken \in 0 .. up
  /\ sender \in {"sending", "true", "false"}
  /\ errno \in Errnos
  /\ broken \in BOOLEAN /\ crashed \in BOOLEAN

Init ==
  /\ io = [m \in Msgs |-> NewIO]
  /\ queue = <<>> /\ port = {} /\ out = <<>> /\ cut = {}
  /\ read = 0 /\ tmp = {} /\ reader = "idle" /\ got = <<>>
  /\ up = 0 /\ taken = 0 /\ sender = "sending" /\ errno \in Errnos
  /\ broken = FALSE /\ crashed = FALSE

Break ==
  /\ ~broken /\ broken' = TRUE
  /\ UNCHANGED <<posting, reading, sending, crashed>>

-------------------------------------------------------------------------------
(* Overlapped sends.                                                       *)

\* WSASend of a whole PER_IO_CONTEXT: it is queued, or it fails, at any time.
\* Then the context stays, whether the error is WSAEWOULDBLOCK, which passes for
\* a send that pends, or another.  It never sends 0 bytes, as no buffer is empty.
WsaSend(m, new) ==
  \/ /\ io'    = [io EXCEPT ![m] = new]
     /\ queue' = Append(queue, m)
  \/ /\ io'    = [io EXCEPT ![m] = [new EXCEPT !.stat = "kept"]]
     /\ UNCHANGED queue

\* Mutant: the length of the WSABUF is that of the first byte.
PostSendPieces(m) ==
  /\ io[m].stat = "none"
  /\ \E n \in 2 .. BufLen :
       WsaSend(m, [stat |-> "posted", total |-> n, sent |-> 0, at |-> 0, len |-> 1])
  /\ UNCHANGED <<port, out, cut, reading, sending, broken, crashed>>

\* PER_SOCKET_CONTEXT::PostSend copies n bytes; the length of the WSABUF is that
\* of the buffer.  A longer message overwrites the fields behind the buffer,
\* m_OpType first, or ends the process.
PostSend(m) ==
  /\ io[m].stat = "none"
  /\ \E n \in 0 .. MaxLen :
       \/ /\ WsaSend(m, [stat |-> IF n <= BufLen THEN "posted" ELSE "overrun",
                         total |-> n, sent |-> 0, at |-> 0, len |-> BufLen])
          /\ UNCHANGED crashed
       \/ n > BufLen /\ crashed' = TRUE /\ UNCHANGED <<io, queue>>
  /\ UNCHANGED <<port, out, cut, reading, sending, broken>>

\* The kernel sends the bytes of the oldest send, or the first of them, which
\* completes it, as long as the other side has room; on a broken connection it
\* fails.
Transmit ==
  /\ queue # <<>>
  /\ LET m == Head(queue) IN
     \/ /\ ~broken
        /\ \E k \in 1 .. io[m].len :
             /\ k <= Window - (Len(out) - read)
             /\ out'  = out \o [i \in 1 .. k |-> <<m, io[m].at + i>>]
             /\ port' = port \cup {<<m, k>>}
             /\ cut'  = IF k < io[m].len THEN cut \cup {m} ELSE cut
     \/ /\ broken
        /\ port' = port \cup {<<m, -1>>}
        /\ UNCHANGED <<out, cut>>
  /\ queue' = Tail(queue)
  /\ UNCHANGED <<io, reading, sending, broken, crashed>>

\* Mutants: the rest is sent from the start of the buffer; a send that
\* completes is taken for the whole message, one of all its bytes is not, or
\* only one of exactly its bytes is.
RestFromStart(m, sent) ==
  [io[m] EXCEPT !.sent = sent, !.len = io[m].total - sent]

FinishedAtOnce(m, sent) == TRUE

FinishedLate(m, sent) == sent > io[m].total

FinishedExactly(m, sent) == sent = io[m].total

\* m_nSendBytes < m_nTotalBytes: the rest is posted.
Rest(m, sent) ==
  [io[m] EXCEPT !.sent = sent, !.at = sent, !.len = io[m].total - sent]

Finished(m, sent) == sent >= io[m].total

\* A completion of a send at a handler, or at the thread of a client.
SendDone(m, k) ==
  /\ k > 0 /\ io[m].stat = "posted"
  /\ LET sent == io[m].sent + k IN
     IF Finished(m, sent)
     THEN io' = [io EXCEPT ![m].stat = "removed", ![m].sent = sent] /\ UNCHANGED queue
     ELSE WsaSend(m, Rest(m, sent))

\* A send that failed, or whose m_OpType was overwritten, keeps its context.
SendLost(m, k) ==
  /\ k < 0 \/ io[m].stat = "overrun"
  /\ io' = [io EXCEPT ![m].stat = "kept"]
  /\ UNCHANGED queue

Completion ==
  /\ \E done \in port :
       /\ port' = port \ {done}
       /\ SendDone(done[1], done[2]) \/ SendLost(done[1], done[2])
  /\ UNCHANGED <<out, cut, reading, sending, broken, crashed>>

-------------------------------------------------------------------------------
(* TcpSocketBase::Recv.                                                    *)

\* Mutant: the array keeps what an earlier call left in it.
BeginRecvStale ==
  /\ reader = "idle" /\ reader' = "recv"
  /\ UNCHANGED <<posting, read, tmp, got, sending, broken, crashed>>

\* The array is cleared at the start of a call.
BeginRecv ==
  /\ reader = "idle" /\ reader' = "recv"
  /\ tmp' = {}
  /\ UNCHANGED <<posting, read, got, sending, broken, crashed>>

\* A byte of a message may be anything but the padding, which is '\0'.
NotNull(byte) == byte[2] <= io[byte[1]].total

\* One recv of k bytes.  The call returns with them if the byte behind them in
\* the array is '\0'; a full array is kept too, and the loop goes on; else the
\* loop goes on without them.
RecvPart ==
  /\ reader = "recv"
  /\ \E k \in 1 .. ChunkLen :
       /\ read + k <= Len(out)
       /\ LET part  == SubSeq(out, read + 1, read + k)
              after == {i \in 1 .. k : NotNull(part[i])}
                         \cup {i \in tmp : i > k} IN
          /\ tmp' = after
          /\ read' = read + k
          /\ got'  = IF k + 1 \notin after \/ k = ChunkLen THEN got \o part ELSE got
          /\ reader' = IF k + 1 \notin after THEN "idle" ELSE "recv"
  /\ UNCHANGED <<posting, sending, broken, crashed>>

\* recv fails or brings 0 bytes.
RecvFails ==
  /\ reader = "recv" /\ reader' = "ended"
  /\ UNCHANGED <<posting, read, tmp, got, sending, broken, crashed>>

-------------------------------------------------------------------------------
(* TcpSocketBase::Send.                                                    *)

SentAll(sent) == sent = ReqLen

SendPart ==
  /\ sender = "sending" /\ ~broken
  /\ \E k \in 1 .. ReqLen - up :
       /\ k <= ReqWindow - (up - taken)
       /\ up' = up + k
       /\ sender' = IF SentAll(up + k) THEN "true" ELSE "sending"
  /\ UNCHANGED <<posting, reading, taken, errno, broken, crashed>>

\* The peer reads some of it.
PeerReads ==
  /\ taken' \in taken + 1 .. up
  /\ UNCHANGED <<posting, reading, up, sender, errno, broken, crashed>>

\* send fails, at any time, and errno is looked at, which winsock does not set:
\* by EINTR the loop begins again, by WSAEWOULDBLOCK Send returns true.
SendFails ==
  /\ sender = "sending"
  /\ sender' = CASE errno = "EINTR"          -> "sending"
                 [] errno = "WSAEWOULDBLOCK" -> "true"
                 [] OTHER                    -> "false"
  /\ UNCHANGED <<posting, reading, up, taken, errno, broken, crashed>>

-------------------------------------------------------------------------------
Next ==
  /\ ~crashed
  /\ \/ Break
     \/ \E m \in Msgs : PostSend(m)
     \/ Transmit \/ Completion
     \/ BeginRecv \/ RecvPart \/ RecvFails
     \/ SendPart \/ PeerReads \/ SendFails

Spec == Init /\ [][Next]_vars

\* The kernel sends what was posted as long as the other side has room, handlers
\* take completions, and the thread in Send goes on.  Nobody has to read.
FairSpec ==
  /\ Spec
  /\ WF_vars(~crashed /\ Transmit)
  /\ WF_vars(~crashed /\ Completion)
  /\ WF_vars(~crashed /\ SendPart)
  /\ WF_vars(~crashed /\ broken /\ SendFails)

-------------------------------------------------------------------------------
(* Properties.                                                             *)

\* The bytes of m among the first n that went out.
BytesOf(m, n) == {out[j][2] : j \in {i \in 1 .. n : out[i][1] = m}}

\* However a message is cut by the kernel, its buffer goes out in order and each
\* byte of it once, the padding only after all the others
\* (SocketHandler.cpp:83-89): before a byte went exactly those in front of it.
PayloadInOrder ==
  \A j \in 1 .. Len(out) : BytesOf(out[j][1], j - 1) = 1 .. out[j][2] - 1

\* Its PER_IO_CONTEXT is removed when it is out, and no send of it is under way.
RemovedWhenSent ==
  \A m \in Msgs : io[m].stat = "removed" =>
    /\ 1 .. io[m].total \subseteq BytesOf(m, Len(out))
    /\ \A i \in 1 .. Len(queue) : queue[i] # m
    /\ \A done \in port : done[1] # m

\* The bytes of two messages mix only if a send was cut: then the rest of the
\* one goes out behind the other, and the reader sees it inside (PostSend may
\* be called by several threads, SocketDefine.h:155).
MixedOnlyIfCut ==
  \A m \in Msgs \ cut : \A i, j \in 1 .. Len(out) :
    i < j /\ out[i][1] = m /\ out[j][1] = m => \A k \in i .. j : out[k][1] = m

\* What was begun comes to an end if the other side reads what it gets, or the
\* connection breaks: a message that fits the buffer goes out and gives its
\* context back, unless a send of it fails (SocketHandler.cpp:84-95), and Send
\* returns, unless the connection is broken and errno still holds an EINTR: then
\* it tries for ever (TcpSocketBase.cpp:204-207).
RoomForSends   == Len(out) - read < Window
RoomForRequest == up - taken < ReqWindow

SentInTheEnd ==
  /\ \A m \in Msgs :
       []<>(RoomForSends \/ broken) =>
         (io[m].stat = "posted" ~> (io[m].stat \in {"removed", "kept"} \/ crashed))
  /\ []<>(RoomForRequest \/ broken) =>
       (sender = "sending"
          ~> (sender # "sending" \/ crashed \/ (broken /\ errno = "EINTR")))

\* What the calls of Recv return is what came, in order and without a gap: the
\* loop's way round that drops what it has read is never taken, because a call
\* starts with a clear array (TcpSocketBase.cpp:137, 180).
RecvKeepsAll == got = SubSeq(out, 1, read)
================================================================================

----------------------------- MODULE StreamProofs -----------------------------
(***************************************************************************)
(* Proofs about SendStream for every set of messages, every length of the  *)
(* buffers and however the kernel cuts the sends and the chunks that are   *)
(* read: type correctness, that each buffer goes out in order and once,    *)
(* that its context is removed when it is out, that the bytes of messages  *)
(* mix only when one is cut, and that Recv loses nothing.                  *)
(***************************************************************************)
EXTENDS SendStream, SequenceTheorems, TLAPS

-------------------------------------------------------------------------------
(* The invariant.                                                          *)

IOs == [stat : {"none", "posted", "overrun", "kept", "removed"},
        total : 0 .. MaxLen, sent : 0 .. BufLen,
        at : 0 .. BufLen, len : 0 .. BufLen]

\* Byte n of m is among what went out.
Out(m, n) == \E j \in 1 .. Len(out) : out[j] = <<m, n>>

\* Exactly the first g bytes of m went out.
Gone(m, g) == \A n \in 1 .. BufLen : Out(m, n) <=> n <= g

InQueue(m) == \E i \in 1 .. Len(queue) : queue[i] = m

PostTypes ==
  /\ io \in [Msgs -> IOs]
  /\ queue \in Seq(Msgs)
  /\ port \subseteq Msgs \X (-1 .. BufLen)
  /\ out \in Seq(Bytes)
  /\ cut \subseteq Msgs

\* A message has one send under way at most.
OneSend ==
  /\ \A i, j \in 1 .. Len(queue) : queue[i] = queue[j] => i = j
  /\ \A m \in Msgs : \A k, l \in -1 .. BufLen :
       <<m, k>> \in port /\ <<m, l>> \in port => k = l
  /\ \A m \in Msgs, k \in -1 .. BufLen : <<m, k>> \in port => ~InQueue(m)

\* The send of m that is under way covers the buffer from what went out on; the
\* first one covers all of it.
Covers(m) ==
  /\ io[m].stat \in {"posted", "overrun"}
  /\ io[m].stat = "posted" => io[m].total <= BufLen
  /\ io[m].at = io[m].sent /\ io[m].len >= 1 /\ io[m].sent + io[m].len <= BufLen
  /\ m \notin cut => io[m].sent = 0

QueueInv ==
  \A m \in Msgs : InQueue(m) =>
    /\ Covers(m)
    /\ m \notin cut => io[m].len = BufLen
    /\ \A g \in 0 .. BufLen : io[m].sent = g => Gone(m, g)

PortInv ==
  \A m \in Msgs, k \in -1 .. BufLen : <<m, k>> \in port =>
    /\ Covers(m)
    /\ k = -1 \/ k \in 1 .. io[m].len
    /\ m \notin cut /\ k # -1 => k = BufLen
    /\ \A g \in 0 .. BufLen :
         g = io[m].sent + (IF k = -1 THEN 0 ELSE k) => Gone(m, g)

NoneInv == \A m \in Msgs : io[m].stat = "none" => Gone(m, 0)

RemovedInv ==
  \A m \in Msgs : io[m].stat = "removed" =>
    \A n \in 1 .. io[m].total : n \in 1 .. BufLen /\ Out(m, n)

\* A byte went out behind those in front of it.
OrderInv ==
  \A i, j \in 1 .. Len(out) :
    out[i][1] = out[j][1] => (i < j <=> out[i][2] < out[j][2])

FullInv ==
  \A j \in 1 .. Len(out) : \A n \in 1 .. out[j][2] : Out(out[j][1], n)

Flight == OneSend /\ QueueInv /\ PortInv /\ NoneInv /\ RemovedInv
Written == OrderInv /\ FullInv /\ MixedOnlyIfCut

ReadInv == (reader = "recv" => tmp = {}) /\ RecvKeepsAll

-------------------------------------------------------------------------------
LEMMA Lengths ==
  MaxLen \in Nat \ {0} /\ BufLen \in Nat \ {0} /\ ChunkLen \in Nat \ {0}
    /\ ReqLen \in Nat \ {0} /\ Window \in Nat \ {0} /\ ReqWindow \in Nat \ {0}
BY LengthsAssumption

\* A message that is posted.
LEMMA QueueAppend ==
  ASSUME queue \in Seq(Msgs), NEW m \in Msgs, ~InQueue(m),
         \A i, j \in 1 .. Len(queue) : queue[i] = queue[j] => i = j,
         queue' = Append(queue, m)
  PROVE  /\ queue' \in Seq(Msgs)
         /\ \A i, j \in 1 .. Len(queue') : queue'[i] = queue'[j] => i = j
         /\ \A x \in Msgs : InQueue(x)' <=> (InQueue(x) \/ x = m)
<1> DEFINE q == queue'
<1>1. /\ Len(q) = Len(queue) + 1 /\ q[Len(queue) + 1] = m /\ Len(queue) \in Nat
      /\ \A i \in 1 .. Len(queue) : q[i] = queue[i]
      /\ q \in Seq(Msgs)
  BY AppendProperties
<1>2. \A i \in 1 .. Len(q) : i = Len(queue) + 1 \/ i \in 1 .. Len(queue)
  BY <1>1
<1>3. \A x : InQueue(x)' <=> \E i \in 1 .. Len(q) : q[i] = x
  BY DEF InQueue
<1> HIDE DEF q
<1>4. ASSUME NEW i \in 1 .. Len(q), NEW j \in 1 .. Len(q), q[i] = q[j]
      PROVE  i = j
  BY <1>1, <1>2, <1>4 DEF InQueue
<1>5. ASSUME NEW x \in Msgs
      PROVE  (\E i \in 1 .. Len(q) : q[i] = x) <=> (InQueue(x) \/ x = m)
  BY <1>1, <1>2 DEF InQueue
<1>6. QED
  BY <1>1, <1>3, <1>4, <1>5 DEF q

\* The oldest send is taken from the queue.
LEMMA QueueTail ==
  ASSUME queue \in Seq(Msgs), queue # <<>>,
         \A i, j \in 1 .. Len(queue) : queue[i] = queue[j] => i = j,
         queue' = Tail(queue)
  PROVE  /\ Head(queue) \in Msgs /\ InQueue(Head(queue))
         /\ queue' \in Seq(Msgs)
         /\ \A i, j \in 1 .. Len(queue') : queue'[i] = queue'[j] => i = j
         /\ \A x \in Msgs : InQueue(x)' <=> (InQueue(x) /\ x # Head(queue))
<1> DEFINE q == queue'
<1>1. /\ Len(q) = Len(queue) - 1 /\ q \in Seq(Msgs) /\ Head(queue) \in Msgs
      /\ \A i \in 1 .. Len(q) : q[i] = queue[i + 1]
  BY HeadTailProperties
<1>2. Len(queue) \in Nat /\ Len(queue) # 0 /\ Head(queue) = queue[1]
  BY EmptySeq, LenProperties
<1>3. \A x : InQueue(x)' <=> \E i \in 1 .. Len(q) : q[i] = x
  BY DEF InQueue
<1> HIDE DEF q
<1>4. \A i \in 1 .. Len(q) : i + 1 \in 1 .. Len(queue) /\ i + 1 # 1
  BY <1>1, <1>2
<1>5. \A i \in 1 .. Len(queue) : i # 1 => i - 1 \in 1 .. Len(q) /\ q[i - 1] = queue[i]
  BY <1>1, <1>2
<1>6. 1 \in 1 .. Len(queue)
  BY <1>2
<1>7. ASSUME NEW i \in 1 .. Len(q), NEW j \in 1 .. Len(q), q[i] = q[j]
      PROVE  i = j
  <2>1. i + 1 = j + 1
    BY <1>1, <1>4, <1>7
  <2>2. QED
    BY <2>1
<1>8. ASSUME NEW x \in Msgs
      PROVE  (\E i \in 1 .. Len(q) : q[i] = x) <=> (InQueue(x) /\ x # Head(queue))
  <2>1. ASSUME NEW i \in 1 .. Len(q), q[i] = x
        PROVE  InQueue(x) /\ x # Head(queue)
    BY <1>1, <1>2, <1>4, <1>6, <2>1 DEF InQueue
  <2>2. ASSUME InQueue(x), x # Head(queue)
        PROVE  \E i \in 1 .. Len(q) : q[i] = x
    BY <1>2, <1>5, <2>2 DEF InQueue
  <2>3. QED
    BY <2>1, <2>2
<1>9. InQueue(Head(queue))
  BY <1>2, <1>6 DEF InQueue
<1>10. QED
  BY <1>1, <1>3, <1>7, <1>8, <1>9 DEF q

\* What has gone out, as long as nothing more does.
LEMMA OutKept ==
  ASSUME out' = out
  PROVE  \A m, n : /\ Out(m, n)' <=> Out(m, n)
                   /\ Gone(m, n)' <=> Gone(m, n)
BY DEF Out, Gone

LEMMA WrittenKept ==
  ASSUME Written, UNCHANGED <<out, cut>>
  PROVE  Written'
<1>1. OrderInv'
  BY DEF Written, OrderInv
<1>2. FullInv'
  BY OutKept DEF Written, FullInv
<1>3. MixedOnlyIfCut'
  BY DEF Written, MixedOnlyIfCut
<1>4. QED
  BY <1>1, <1>2, <1>3 DEF Written

LEMMA FlightKept ==
  ASSUME PostTypes, Flight, UNCHANGED posting
  PROVE  PostTypes' /\ Flight'
<1> USE DEF posting
<1>1. \A x, n : (Out(x, n)' <=> Out(x, n)) /\ (Gone(x, n)' <=> Gone(x, n))
  BY OutKept
<1>2. \A x : (InQueue(x)' <=> InQueue(x)) /\ (Covers(x)' <=> Covers(x))
  BY DEF InQueue, Covers
<1>3. PostTypes' /\ OneSend'
  BY <1>2 DEF PostTypes, Flight, OneSend
<1>4. QueueInv' /\ PortInv'
  BY <1>1, <1>2 DEF Flight, QueueInv, PortInv
<1>5. NoneInv' /\ RemovedInv'
  BY <1>1 DEF Flight, NoneInv, RemovedInv
<1>6. QED
  BY <1>3, <1>4, <1>5 DEF Flight


\* A message whose send has ended, and of which none is posted any more.
LEMMA Settles ==
  ASSUME PostTypes, Flight, NEW m \in Msgs, NEW new \in IOs,
         new.stat \in {"kept", "removed"},
         new.stat = "removed" => \A n \in 1 .. new.total : n \in 1 .. BufLen /\ Out(m, n),
         io' = [io EXCEPT ![m] = new], port' \subseteq port,
         ~InQueue(m), \A k \in -1 .. BufLen : <<m, k>> \notin port',
         UNCHANGED <<queue, out, cut>>
  PROVE  PostTypes' /\ Flight'
<1>1. PostTypes'
  BY DEF PostTypes
<1>2. /\ io'[m] = new /\ \A x \in Msgs \ {m} : io'[x] = io[x]
      /\ \A x \in Msgs : InQueue(x)' <=> InQueue(x)
  BY DEF PostTypes, InQueue
<1>3. \A x, n : (Out(x, n)' <=> Out(x, n)) /\ (Gone(x, n)' <=> Gone(x, n))
  BY OutKept
<1>4. OneSend'
  BY <1>2 DEF Flight, OneSend
<1>5. ASSUME NEW x \in Msgs \ {m} PROVE Covers(x)' <=> Covers(x)
  BY <1>2 DEF Covers
<1>6. QueueInv'
  BY <1>2, <1>3, <1>5 DEF Flight, QueueInv
<1>7. PortInv'
  BY <1>2, <1>3, <1>5 DEF Flight, PortInv
<1>8. NoneInv'
  BY <1>2, <1>3 DEF Flight, NoneInv
<1>9. RemovedInv'
  BY <1>2, <1>3 DEF Flight, RemovedInv
<1>10. QED
  BY <1>1, <1>4, <1>6, <1>7, <1>8, <1>9 DEF Flight

\* A send that is posted while none of the same message is under way.
LEMMA Posts ==
  ASSUME PostTypes, Flight, NEW m \in Msgs, NEW new \in IOs,
         new.stat \in {"posted", "overrun"},
         new.stat = "posted" => new.total <= BufLen,
         new.at = new.sent, new.len >= 1, new.sent + new.len <= BufLen,
         m \notin cut => new.sent = 0 /\ new.len = BufLen,
         Gone(m, new.sent), WsaSend(m, new), port' \subseteq port,
         ~InQueue(m), \A k \in -1 .. BufLen : <<m, k>> \notin port',
         UNCHANGED <<out, cut>>
  PROVE  PostTypes' /\ Flight'
<1>1. CASE io' = [io EXCEPT ![m] = [new EXCEPT !.stat = "kept"]] /\ queue' = queue
  <2> DEFINE gone == [new EXCEPT !.stat = "kept"]
  <2>1. gone \in IOs /\ gone.stat = "kept"
    BY DEF IOs
  <2>2. QED
    BY <1>1, <2>1, Settles
<1>2. CASE io' = [io EXCEPT ![m] = new] /\ queue' = Append(queue, m)
  <2>1. /\ queue' \in Seq(Msgs)
        /\ \A i, j \in 1 .. Len(queue') : queue'[i] = queue'[j] => i = j
        /\ \A x \in Msgs : InQueue(x)' <=> (InQueue(x) \/ x = m)
    BY <1>2, QueueAppend DEF PostTypes, Flight, OneSend
  <2>2. PostTypes'
    BY <1>2, <2>1 DEF PostTypes
  <2>3. io'[m] = new /\ \A x \in Msgs \ {m} : io'[x] = io[x]
    BY <1>2 DEF PostTypes
  <2>4. \A x, n : (Out(x, n)' <=> Out(x, n)) /\ (Gone(x, n)' <=> Gone(x, n))
    BY OutKept
  <2>5. OneSend'
    BY <2>1 DEF Flight, OneSend
  <2>6. ASSUME NEW x \in Msgs \ {m} PROVE Covers(x)' <=> Covers(x)
    BY <2>3 DEF Covers
  <2>7. Covers(m)'
    BY <2>3 DEF Covers
  <2>8. QueueInv'
    BY <2>1, <2>3, <2>4, <2>6, <2>7 DEF Flight, QueueInv
  <2>9. PortInv'
    BY <2>3, <2>4, <2>6 DEF Flight, PortInv
  <2>10. NoneInv'
    BY <2>3, <2>4 DEF Flight, NoneInv
  <2>11. RemovedInv'
    BY <2>3, <2>4 DEF Flight, RemovedInv
  <2>12. QED
    BY <2>2, <2>5, <2>8, <2>9, <2>10, <2>11 DEF Flight
<1>3. QED
  BY <1>1, <1>2 DEF WsaSend

LEMMA PostSendStep ==
  ASSUME PostTypes, Flight, Written, NEW m \in Msgs, PostSend(m)
  PROVE  PostTypes' /\ Flight' /\ Written'
<1>1. UNCHANGED <<port, out, cut>> /\ io[m].stat = "none"
  BY DEF PostSend
<1>2. Written'
  BY <1>1, WrittenKept
<1>3. ~InQueue(m) /\ \A k \in -1 .. BufLen : <<m, k>> \notin port
  BY <1>1 DEF Flight, QueueInv, PortInv, Covers
<1>4. PICK n \in 0 .. MaxLen :
        \/ WsaSend(m, [stat |-> IF n <= BufLen THEN "posted" ELSE "overrun",
                       total |-> n, sent |-> 0, at |-> 0, len |-> BufLen])
        \/ UNCHANGED <<io, queue>>
  BY DEF PostSend
<1>5. CASE UNCHANGED <<io, queue>>
  BY <1>1, <1>2, <1>5, FlightKept DEF posting
<1>6. CASE WsaSend(m, [stat |-> IF n <= BufLen THEN "posted" ELSE "overrun",
                       total |-> n, sent |-> 0, at |-> 0, len |-> BufLen])
  <2> DEFINE new == [stat |-> IF n <= BufLen THEN "posted" ELSE "overrun",
                     total |-> n, sent |-> 0, at |-> 0, len |-> BufLen]
  <2>1. /\ new \in IOs /\ new.stat \in {"posted", "overrun"}
        /\ new.stat = "posted" => new.total <= BufLen
        /\ new.at = 0 /\ new.sent = 0 /\ new.len = BufLen
    BY Lengths DEF IOs
  <2>2. Gone(m, new.sent)
    BY <1>1, <2>1 DEF Flight, NoneInv
  <2>3. WsaSend(m, new)
    BY <1>6
  <2> HIDE DEF new
  <2>4. QED
    BY <1>1, <1>2, <1>3, <2>1, <2>2, <2>3, Posts, Lengths
<1>7. QED
  BY <1>2, <1>4, <1>5, <1>6

\* A completion: the rest is posted, or the message is done with.
LEMMA CompletionStep ==
  ASSUME PostTypes, Flight, Written, Completion
  PROVE  PostTypes' /\ Flight' /\ Written'
<1>1. UNCHANGED <<out, cut>>
  BY DEF Completion
<1>2. Written'
  BY <1>1, WrittenKept
<1>3. PICK done \in port :
        /\ port' = port \ {done}
        /\ SendDone(done[1], done[2]) \/ SendLost(done[1], done[2])
  BY DEF Completion
<1> DEFINE m == done[1]
           k == done[2]
<1>4. /\ m \in Msgs /\ k \in -1 .. BufLen /\ done = <<m, k>> /\ <<m, k>> \in port
      /\ io[m] \in IOs
  <2>1. done \in Msgs \X (-1 .. BufLen)
    BY DEF PostTypes
  <2>2. m \in Msgs /\ k \in -1 .. BufLen /\ done = <<m, k>>
    BY <2>1
  <2> HIDE DEF m, k
  <2>3. QED
    BY <2>2 DEF PostTypes
<1>5. SendDone(m, k) \/ SendLost(m, k)
  BY <1>3
<1>6. port' = port \ {<<m, k>>}
  BY <1>3, <1>4
<1> HIDE DEF m, k
<1>7. ~InQueue(m) /\ \A l \in -1 .. BufLen : <<m, l>> \notin port'
  BY <1>4, <1>6 DEF Flight, OneSend
<1>8. /\ Covers(m) /\ (k = -1 \/ k \in 1 .. io[m].len)
      /\ m \notin cut /\ k # -1 => k = BufLen
      /\ \A g \in 0 .. BufLen :
           g = io[m].sent + (IF k = -1 THEN 0 ELSE k) => Gone(m, g)
  BY <1>4 DEF Flight, PortInv
<1>9. ASSUME SendLost(m, k) PROVE PostTypes' /\ Flight'
  <2> DEFINE new == [io[m] EXCEPT !.stat = "kept"]
  <2>1. new \in IOs /\ new.stat = "kept"
    BY <1>4 DEF IOs
  <2>2. io' = [io EXCEPT ![m] = new] /\ queue' = queue
    BY <1>4, <1>9 DEF SendLost, PostTypes
  <2> HIDE DEF new
  <2>3. QED
    BY <1>1, <1>4, <1>6, <1>7, <2>1, <2>2, Settles
<1>10. ASSUME SendDone(m, k) PROVE PostTypes' /\ Flight'
  <2> DEFINE sent == io[m].sent + k
  <2>1. k > 0 /\ io[m].stat = "posted"
    BY <1>10 DEF SendDone
  <2>2. /\ sent \in 1 .. BufLen /\ Gone(m, sent) /\ io[m].total \in 0 .. BufLen
        /\ io[m].total \in 0 .. MaxLen
    <3>1. /\ io[m].sent \in 0 .. BufLen /\ io[m].len \in 0 .. BufLen
          /\ io[m].total \in 0 .. MaxLen
      BY <1>4 DEF IOs
    <3>2. k \in 1 .. io[m].len /\ io[m].sent + io[m].len <= BufLen
          /\ io[m].total <= BufLen
      BY <1>4, <1>8, <2>1 DEF Covers
    <3>3. sent \in 1 .. BufLen
      BY <3>1, <3>2, Lengths
    <3>4. QED
      BY <1>8, <2>1, <3>1, <3>2, <3>3, Lengths
  <2>3. CASE Finished(m, sent)
    <3> DEFINE new == [io[m] EXCEPT !.stat = "removed", !.sent = sent]
    <3>1. new \in IOs /\ new.stat = "removed" /\ new.total = io[m].total
      <4>1. sent \in 0 .. BufLen
        BY <2>2
      <4> HIDE DEF sent
      <4>2. QED
        BY <1>4, <4>1 DEF IOs
    <3>2. io' = [io EXCEPT ![m] = new] /\ queue' = queue
      BY <1>4, <1>10, <2>3 DEF SendDone, PostTypes
    <3>3. \A n \in 1 .. io[m].total : n \in 1 .. BufLen /\ Out(m, n)
      <4>1. sent >= io[m].total
        BY <2>3 DEF Finished
      <4> HIDE DEF sent
      <4>2. \A n \in 1 .. io[m].total : n \in 1 .. BufLen /\ n <= sent
        BY <2>2, <4>1, Lengths
      <4>3. QED
        BY <2>2, <4>2 DEF Gone
    <3> HIDE DEF new
    <3>4. QED
      BY <1>1, <1>4, <1>6, <1>7, <3>1, <3>2, <3>3, Settles
  <2>4. CASE ~Finished(m, sent)
    <3> DEFINE new == Rest(m, sent)
    <3>1. sent < io[m].total
      BY <1>4, <2>2, <2>4 DEF Finished, IOs
    <3>2. io[m].total - sent \in 1 .. BufLen
      BY <2>2, <3>1, Lengths
    <3>3. /\ new \in IOs /\ new.stat = "posted" /\ new.total = io[m].total
          /\ new.at = sent /\ new.sent = sent /\ new.len = io[m].total - sent
      <4> DEFINE left == io[m].total - sent
      <4>1. left \in 0 .. BufLen /\ sent \in 0 .. BufLen
        BY <2>2, <3>2
      <4>2. new = [io[m] EXCEPT !.sent = sent, !.at = sent, !.len = left]
        BY DEF Rest
      <4> HIDE DEF new, sent, left
      <4>3. /\ new \in IOs /\ new.stat = "posted" /\ new.total = io[m].total
            /\ new.at = sent /\ new.sent = sent /\ new.len = left
        BY <1>4, <2>1, <4>1, <4>2 DEF IOs
      <4>4. QED BY <4>3 DEF left
    <3>4. m \in cut
      <4>1. SUFFICES ASSUME m \notin cut PROVE FALSE
        OBVIOUS
      <4>2. k = BufLen /\ io[m].sent = 0
        BY <1>8, <2>1, <4>1 DEF Covers
      <4>3. QED
        BY <2>2, <3>1, <4>2, Lengths
    <3>5. WsaSend(m, new)
      BY <1>10, <2>4 DEF SendDone
    <3>6. new.len >= 1 /\ new.sent + new.len <= BufLen /\ new.total <= BufLen
      BY <2>2, <3>1, <3>3, Lengths
    <3>7. Gone(m, new.sent)
      BY <2>2, <3>3
    <3> HIDE DEF new, sent
    <3>8. QED
      BY <1>1, <1>4, <1>6, <1>7, <3>3, <3>4, <3>5, <3>6, <3>7, Posts
  <2>5. QED
    BY <2>3, <2>4
<1>11. QED
  BY <1>2, <1>5, <1>9, <1>10


\* The oldest send has completed: k bytes of it went out, or it failed.
LEMMA Completes ==
  ASSUME PostTypes, Flight, queue # <<>>, NEW m \in Msgs, m = Head(queue),
         NEW k \in -1 .. BufLen, k = -1 \/ k \in 1 .. io[m].len,
         port' = port \cup {<<m, k>>}, queue' = Tail(queue), io' = io,
         cut \subseteq cut', cut' \subseteq cut \cup {m},
         m \notin cut' /\ k # -1 => k = io[m].len,
         \A x \in Msgs \ {m}, n \in Nat : Out(x, n)' <=> Out(x, n),
         \A n \in Nat : Out(m, n) => Out(m, n)',
         \A g \in 0 .. BufLen :
           g = io[m].sent + (IF k = -1 THEN 0 ELSE k) => Gone(m, g)'
  PROVE  Flight' /\ queue' \in Seq(Msgs) /\ port' \subseteq Msgs \X (-1 .. BufLen)
<1>1. /\ InQueue(m) /\ queue' \in Seq(Msgs)
      /\ \A i, j \in 1 .. Len(queue') : queue'[i] = queue'[j] => i = j
      /\ \A x \in Msgs : InQueue(x)' <=> (InQueue(x) /\ x # m)
  BY QueueTail DEF PostTypes, Flight, OneSend
<1>2. \A l \in -1 .. BufLen : <<m, l>> \notin port
  BY <1>1 DEF Flight, OneSend
<1>3. \A x \in Msgs, l \in -1 .. BufLen :
        <<x, l>> \in port' <=> (<<x, l>> \in port \/ (x = m /\ l = k))
  OBVIOUS
<1>4. OneSend'
  BY <1>1, <1>2, <1>3 DEF Flight, OneSend
<1>5. \A x \in Msgs : Covers(x) => Covers(x)'
  BY DEF Covers
<1>6. ASSUME NEW x \in Msgs \ {m}, NEW g \in Nat PROVE Gone(x, g)' <=> Gone(x, g)
  BY Lengths DEF Gone
<1>7. QueueInv'
  <2> SUFFICES ASSUME NEW x \in Msgs, InQueue(x)'
               PROVE  /\ Covers(x)'
                      /\ x \notin cut' => io'[x].len = BufLen
                      /\ \A g \in 0 .. BufLen : io'[x].sent = g => Gone(x, g)'
    BY DEF QueueInv
  <2>1. x # m /\ InQueue(x)
    BY <1>1
  <2>2. QED
    BY <1>5, <1>6, <2>1 DEF Flight, QueueInv
<1>8. PortInv'
  <2> SUFFICES ASSUME NEW x \in Msgs, NEW l \in -1 .. BufLen, <<x, l>> \in port'
               PROVE  /\ Covers(x)'
                      /\ l = -1 \/ l \in 1 .. io'[x].len
                      /\ x \notin cut' /\ l # -1 => l = BufLen
                      /\ \A g \in 0 .. BufLen :
                           g = io'[x].sent + (IF l = -1 THEN 0 ELSE l) => Gone(x, g)'
    BY DEF PortInv
  <2>1. CASE x = m
    <3>1. l = k
      BY <1>2, <1>3, <2>1
    <3>2. Covers(m) /\ (m \notin cut => io[m].len = BufLen)
      BY <1>1 DEF Flight, QueueInv
    <3>3. QED
      BY <1>5, <2>1, <3>1, <3>2
  <2>2. CASE x # m
    <3>1. <<x, l>> \in port
      BY <1>3, <2>2
    <3>2. QED
      BY <1>5, <1>6, <2>2, <3>1 DEF Flight, PortInv
  <2>3. QED
    BY <2>1, <2>2
<1>9. NoneInv'
  <2>1. io[m].stat # "none"
    BY <1>1 DEF Flight, QueueInv, Covers
  <2>2. QED
    BY <1>6, <2>1 DEF Flight, NoneInv
<1>10. RemovedInv'
  <2>1. \A x \in Msgs, n \in Nat : Out(x, n) => Out(x, n)'
    OBVIOUS
  <2>2. QED
    BY <2>1, Lengths DEF Flight, RemovedInv
<1>11. QED
  BY <1>1, <1>3, <1>4, <1>7, <1>8, <1>9, <1>10 DEF Flight, PostTypes

LEMMA TransmitStep ==
  ASSUME PostTypes, Flight, Written, Transmit
  PROVE  /\ PostTypes' /\ Flight' /\ Written'
         /\ out' = out \/ \E part \in Seq(Bytes) : out' = out \o part
<1>1. queue # <<>> /\ queue' = Tail(queue) /\ io' = io
  BY DEF Transmit
<1>h. Head(queue) \in Msgs /\ InQueue(Head(queue))
  BY <1>1, QueueTail DEF PostTypes, Flight, OneSend
<1>m. PICK m \in Msgs : m = Head(queue)
  BY <1>h
<1>2. m \in Msgs /\ InQueue(m)
  BY <1>h, <1>m
<1>3. /\ Covers(m) /\ (m \notin cut => io[m].len = BufLen) /\ io[m] \in IOs
      /\ \A x \in 0 .. BufLen : io[m].sent = x => Gone(m, x)
  BY <1>2 DEF Flight, QueueInv, PostTypes
<1>g. PICK g \in 0 .. BufLen : g = io[m].sent
  BY <1>3 DEF IOs
<1>4. /\ g = io[m].sent /\ g \in 0 .. BufLen /\ io[m].len \in 1 .. BufLen /\ io[m].at = g
      /\ g + io[m].len <= BufLen /\ Gone(m, g) /\ (m \notin cut => g = 0)
  BY <1>3, <1>g DEF Covers, IOs
<1>5. CASE out' = out /\ cut' = cut /\ port' = port \cup {<<m, -1>>}
  <2>1. \A x, n : (Out(x, n)' <=> Out(x, n)) /\ (Gone(x, n)' <=> Gone(x, n))
    BY <1>5, OutKept
  <2>2. -1 \in -1 .. BufLen
    BY Lengths
  <2>3. \A x \in 0 .. BufLen :
          x = io[m].sent + (IF -1 = -1 THEN 0 ELSE -1) => Gone(m, x)'
    BY <1>3, <1>4, <2>1
  <2>4. Flight' /\ queue' \in Seq(Msgs) /\ port' \subseteq Msgs \X (-1 .. BufLen)
    BY <1>1, <1>m, <1>5, <2>1, <2>2, <2>3, Completes
  <2>5. Written'
    BY <1>5, WrittenKept
  <2>6. QED
    BY <1>1, <1>5, <2>4, <2>5 DEF PostTypes
<1>6. ASSUME NEW k \in 1 .. io[m].len,
             out' = out \o [i \in 1 .. k |-> <<m, io[m].at + i>>],
             port' = port \cup {<<m, k>>},
             cut' = IF k < io[m].len THEN cut \cup {m} ELSE cut
      PROVE  /\ PostTypes' /\ Flight' /\ Written'
             /\ \E part \in Seq(Bytes) : out' = out \o part
  <2> DEFINE part == [i \in 1 .. k |-> <<m, g + i>>]
             L == Len(out)
  <2>1. /\ k \in Nat /\ k >= 1 /\ g \in Nat /\ g + k <= BufLen /\ k \in -1 .. BufLen
    BY <1>4, Lengths
  <2>2. part \in Seq(Bytes) /\ Len(part) = k /\ \A i \in 1 .. k : part[i] = <<m, g + i>>
    <3>1. \A i \in 1 .. k : <<m, g + i>> \in Bytes
      BY <1>2, <2>1, Lengths DEF Bytes
    <3>2. QED
      BY <2>1, <3>1, IsASeq
  <2>3. out' = out \o part
    BY <1>4, <1>6
  <2> HIDE DEF part
  <2>4. /\ out' \in Seq(Bytes) /\ Len(out') = L + k /\ L \in Nat
        /\ \A i \in 1 .. Len(out') :
             out'[i] = IF i <= L THEN out[i] ELSE part[i - L]
    <3>1. out \in Seq(Bytes) /\ L \in Nat
      BY LenProperties DEF PostTypes
    <3>2. /\ out \o part \in Seq(Bytes) /\ Len(out \o part) = Len(out) + Len(part)
          /\ \A i \in 1 .. Len(out) + Len(part) :
               (out \o part)[i] = IF i <= Len(out) THEN out[i] ELSE part[i - Len(out)]
      BY <2>2, <3>1, ConcatProperties
    <3>3. QED
      BY <2>2, <2>3, <3>1, <3>2
  <2> HIDE DEF L
  <2>5. /\ \A i \in 1 .. L : i \in 1 .. Len(out') /\ out'[i] = out[i]
        /\ \A i \in 1 .. k : L + i \in 1 .. Len(out') /\ out'[L + i] = <<m, g + i>>
        /\ \A i \in 1 .. Len(out') : i \notin 1 .. L => i - L \in 1 .. k /\ out'[i] = <<m, g + (i - L)>>
    <3>1. \A i \in 1 .. L : i \in 1 .. L + k /\ i <= L
      BY <2>1, <2>4
    <3>2. \A i \in 1 .. k : L + i \in 1 .. L + k /\ ~(L + i <= L) /\ L + i - L = i
      BY <2>1, <2>4
    <3>3. \A i \in 1 .. L + k : i \notin 1 .. L => i - L \in 1 .. k /\ ~(i <= L)
      BY <2>1, <2>4
    <3>4. \A i \in 1 .. L : i \in 1 .. Len(out') /\ out'[i] = out[i]
      BY <2>4, <3>1
    <3>5. \A i \in 1 .. k : L + i \in 1 .. Len(out') /\ out'[L + i] = <<m, g + i>>
      <4> TAKE i \in 1 .. k
      <4>1. L + i \in 1 .. L + k /\ ~(L + i <= L) /\ L + i - L = i
        BY <3>2
      <4>2. L + i \in 1 .. Len(out') /\ out'[L + i] = part[i]
        BY <2>4, <4>1
      <4>3. QED
        BY <2>2, <4>2
    <3>6. \A i \in 1 .. Len(out') : i \notin 1 .. L =>
            i - L \in 1 .. k /\ out'[i] = <<m, g + (i - L)>>
      BY <2>2, <2>4, <3>3
    <3>7. QED
      BY <3>4, <3>5, <3>6
  <2>6. \A i \in 1 .. L : out[i] \in Bytes /\ out[i] = <<out[i][1], out[i][2]>>
                          /\ out[i][1] \in Msgs /\ out[i][2] \in 1 .. BufLen
    BY ElementOfSeq DEF PostTypes, Bytes, L
  <2>7. \A x, n : Out(x, n) <=> \E i \in 1 .. L : out[i] = <<x, n>>
    BY DEF Out, L
  <2>8. \A x, n : Out(x, n)' <=> \E i \in 1 .. Len(out') : out'[i] = <<x, n>>
    BY DEF Out
  <2>9. ASSUME NEW x \in Msgs, NEW n \in Nat
        PROVE  Out(x, n)' <=> (Out(x, n) \/ (x = m /\ n \in g + 1 .. g + k))
    <3>1. ASSUME Out(x, n) PROVE Out(x, n)'
      BY <2>5, <2>7, <2>8, <3>1
    <3>2. ASSUME x = m, n \in g + 1 .. g + k PROVE Out(x, n)'
      <4>1. n - g \in 1 .. k /\ g + (n - g) = n
        BY <2>1, <3>2
      <4>2. QED
        BY <2>5, <2>8, <3>2, <4>1
    <3>3. ASSUME Out(x, n)', ~Out(x, n) PROVE x = m /\ n \in g + 1 .. g + k
      <4>1. PICK i \in 1 .. Len(out') : out'[i] = <<x, n>>
        BY <2>8, <3>3
      <4>2. i \notin 1 .. L
        BY <2>5, <2>7, <3>3, <4>1
      <4>3. i - L \in 1 .. k /\ <<x, n>> = <<m, g + (i - L)>>
        BY <2>5, <4>1, <4>2
      <4>4. QED
        BY <2>1, <2>4, <4>3
    <3>4. QED
      BY <3>1, <3>2, <3>3
  <2>10. Gone(m, g + k)'
    <3> SUFFICES ASSUME NEW n \in 1 .. BufLen
                 PROVE  Out(m, n)' <=> n <= g + k
      BY DEF Gone
    <3>1. Out(m, n) <=> n <= g
      BY <1>4 DEF Gone
    <3>2. n \in g + 1 .. g + k <=> (~(n <= g) /\ n <= g + k)
      BY <2>1
    <3>3. n <= g => n <= g + k
      BY <2>1
    <3>4. QED
      BY <1>2, <2>9, <3>1, <3>2, <3>3
  <2>11. Flight' /\ queue' \in Seq(Msgs) /\ port' \subseteq Msgs \X (-1 .. BufLen)
    <3>1. /\ \A x \in Msgs \ {m}, n \in Nat : Out(x, n)' <=> Out(x, n)
          /\ \A n \in Nat : Out(m, n) => Out(m, n)'
      BY <1>2, <2>9
    <3>2. \A x \in 0 .. BufLen :
            x = io[m].sent + (IF k = -1 THEN 0 ELSE k) => Gone(m, x)'
      BY <1>4, <2>1, <2>10
    <3>3. /\ cut \subseteq cut' /\ cut' \subseteq cut \cup {m}
          /\ m \notin cut' /\ k # -1 => k = io[m].len
      BY <1>4, <1>6
    <3>4. QED
      BY <1>1, <1>m, <1>4, <1>6, <2>1, <3>1, <3>2, <3>3, Completes
  <2>12. OrderInv'
    <3> SUFFICES ASSUME NEW i \in 1 .. Len(out'), NEW j \in 1 .. Len(out'),
                        out'[i][1] = out'[j][1]
                 PROVE  i < j <=> out'[i][2] < out'[j][2]
      BY DEF OrderInv
    <3>1. \A x \in 1 .. L : out[x][1] = m => out[x][2] <= g
      BY <1>4, <2>6, <2>7 DEF Gone
    <3>2. CASE i \in 1 .. L /\ j \in 1 .. L
      BY <2>5, <3>2 DEF Written, OrderInv, L
    <3>3. CASE i \in 1 .. L /\ j \notin 1 .. L
      <4>1. out'[j] = <<m, g + (j - L)>> /\ j - L \in 1 .. k /\ out'[i] = out[i]
        BY <2>5, <3>3
      <4>2. out[i][1] = m
        BY <4>1
      <4>3. out[i][2] <= g
        BY <3>1, <3>3, <4>2
      <4>4. out[i][2] \in 1 .. BufLen
        BY <2>6, <3>3
      <4>5. QED
        BY <2>1, <2>4, <3>3, <4>1, <4>3, <4>4, SMTT(20)
    <3>4. CASE i \notin 1 .. L /\ j \in 1 .. L
      <4>1. out'[i] = <<m, g + (i - L)>> /\ i - L \in 1 .. k /\ out'[j] = out[j]
        BY <2>5, <3>4
      <4>2. out[j][2] <= g /\ out[j][2] \in 1 .. BufLen
        BY <2>6, <3>1, <3>4, <4>1
      <4>3. QED
        BY <2>1, <2>4, <3>4, <4>1, <4>2
    <3>5. CASE i \notin 1 .. L /\ j \notin 1 .. L
      <4>1. out'[i] = <<m, g + (i - L)>> /\ out'[j] = <<m, g + (j - L)>>
        BY <2>5, <3>5
      <4>2. QED
        BY <2>1, <2>4, <4>1
    <3>6. QED
      BY <3>2, <3>3, <3>4, <3>5
  <2>13. FullInv'
    <3> SUFFICES ASSUME NEW j \in 1 .. Len(out'), NEW n \in 1 .. out'[j][2]
                 PROVE  \E i \in 1 .. Len(out') : out'[i] = <<out'[j][1], n>>
      BY DEF FullInv, Out
    <3>1. CASE j \in 1 .. L
      <4>1. out'[j] = out[j]
        BY <2>5, <3>1
      <4>2. PICK i \in 1 .. L : out[i] = <<out[j][1], n>>
        BY <3>1, <4>1 DEF Written, FullInv, Out, L
      <4>3. QED
        BY <2>5, <4>1, <4>2
    <3>2. CASE j \notin 1 .. L
      <4>1. out'[j] = <<m, g + (j - L)>> /\ j - L \in 1 .. k
        BY <2>5, <3>2
      <4>2. n \in Nat /\ n \in 1 .. g + (j - L)
        BY <2>1, <2>4, <4>1
      <4>3. CASE n <= g
        <5>1. n \in 1 .. BufLen
          BY <1>4, <2>1, <4>2, <4>3, Lengths
        <5>2. Out(m, n)
          BY <1>4, <4>3, <5>1 DEF Gone
        <5>3. PICK i \in 1 .. L : out[i] = <<m, n>>
          BY <2>7, <5>2
        <5>4. i \in 1 .. Len(out') /\ out'[i] = <<out'[j][1], n>>
          BY <2>5, <4>1, <5>3
        <5>5. QED
          BY <5>4
      <4>4. CASE ~(n <= g)
        <5>1. n - g \in 1 .. k /\ g + (n - g) = n
          BY <2>1, <4>1, <4>2, <4>4
        <5>2. /\ L + (n - g) \in 1 .. Len(out')
              /\ out'[L + (n - g)] = <<out'[j][1], n>>
          BY <2>5, <4>1, <5>1, SMTT(20)
        <5>3. QED
          BY <5>2
      <4>5. QED
        BY <4>3, <4>4
    <3>3. QED
      BY <3>1, <3>2
  <2>14. MixedOnlyIfCut'
    <3> SUFFICES ASSUME NEW x \in Msgs \ cut',
                        NEW i \in 1 .. Len(out'), NEW j \in 1 .. Len(out'),
                        i < j, out'[i][1] = x, out'[j][1] = x,
                        NEW p \in i .. j
                 PROVE  out'[p][1] = x
      BY DEF MixedOnlyIfCut
    <3>1. x \notin cut
      BY <1>6
    <3>2. CASE x = m
      <4>1. \A y \in 1 .. L : out[y][1] # m
        BY <1>4, <2>6, <2>7, <3>1, <3>2, Lengths DEF Gone
      <4>2. i \notin 1 .. L
        BY <2>5, <3>2, <4>1
      <4>3. p \in 1 .. Len(out') /\ p \notin 1 .. L
        BY <2>4, <4>2
      <4>4. QED
        BY <2>5, <3>2, <4>3
    <3>3. CASE x # m
      <4>1. i \in 1 .. L /\ j \in 1 .. L
        BY <2>5, <3>3, SMTT(20)
      <4>2. p \in 1 .. L
        BY <2>4, <4>1
      <4>3. out[i][1] = x /\ out[j][1] = x
        BY <2>5, <4>1
      <4>4. out[p][1] = x
        BY <3>1, <4>1, <4>2, <4>3 DEF Written, MixedOnlyIfCut, L
      <4>5. QED
        BY <2>5, <4>2, <4>4
    <3>4. QED
      BY <3>2, <3>3
  <2>15. PostTypes'
    BY <1>1, <1>2, <1>6, <2>4, <2>11 DEF PostTypes
  <2>16. QED
    BY <2>2, <2>3, <2>11, <2>12, <2>13, <2>14, <2>15 DEF Written
<1>7. QED
  BY <1>5, <1>6, <1>m DEF Transmit


-------------------------------------------------------------------------------
(* The reader and the sender.                                              *)

ReadTypes ==
  /\ read \in 0 .. Len(out)
  /\ tmp \subseteq 1 .. ChunkLen + 1
  /\ reader \in {"idle", "recv", "ended"}
  /\ got \in Seq(Bytes)
  /\ up \in 0 .. ReqLen /\ taken \in 0 .. up
  /\ sender \in {"sending", "true", "false"}
  /\ errno \in Errnos
  /\ broken \in BOOLEAN /\ crashed \in BOOLEAN

StreamInv == PostTypes /\ ReadTypes /\ Flight /\ Written /\ ReadInv

LEMMA TypesOfParts == TypeOK <=> PostTypes /\ ReadTypes
BY DEF TypeOK, PostTypes, ReadTypes, IOs

\* What has been read stays what it was when more goes out.
LEMMA ReadKept ==
  ASSUME out \in Seq(Bytes), NEW part \in Seq(Bytes), out' = out \o part,
         read \in 0 .. Len(out), read' = read, got' = got, RecvKeepsAll
  PROVE  read' \in 0 .. Len(out') /\ RecvKeepsAll'
<1>1. /\ Len(out') = Len(out) + Len(part) /\ Len(part) \in Nat /\ Len(out) \in Nat
  BY ConcatProperties, LenProperties
<1>2. SubSeq(out', 1, read) = SubSeq(out, 1, read)
  <2>1. CASE read = 0
    BY <2>1, SubSeqEmpty
  <2>2. CASE read # 0
    <3>1. 1 \in 1 .. Len(out) /\ read \in 1 .. Len(out)
      BY <1>1, <2>2
    <3>2. QED
      BY <3>1, SubSeqOfConcat1
  <2>3. QED
    BY <2>1, <2>2
<1>3. QED
  BY <1>1, <1>2 DEF RecvKeepsAll

\* The array is clear when a call begins, so that the byte behind what the first
\* recv brought is '\0', and the call returns with all of it.
LEMMA RecvPartStep ==
  ASSUME PostTypes, ReadTypes, ReadInv, RecvPart
  PROVE  ReadTypes' /\ ReadInv'
<1>1. reader = "recv" /\ tmp = {} /\ got = SubSeq(out, 1, read)
      /\ out' = out /\ out \in Seq(Bytes) /\ read \in 0 .. Len(out) /\ Len(out) \in Nat
      /\ UNCHANGED <<sending, broken, crashed>>
  BY LenProperties DEF RecvPart, ReadInv, RecvKeepsAll, posting, PostTypes,
                       ReadTypes
<1>2. PICK k \in 1 .. ChunkLen :
        /\ read + k <= Len(out)
        /\ LET part  == SubSeq(out, read + 1, read + k)
               after == {i \in 1 .. k : NotNull(part[i])}
                          \cup {i \in tmp : i > k} IN
           /\ tmp' = after
           /\ read' = read + k
           /\ got'  = IF k + 1 \notin after \/ k = ChunkLen THEN got \o part ELSE got
           /\ reader' = IF k + 1 \notin after THEN "idle" ELSE "recv"
  BY DEF RecvPart
<1> DEFINE part == SubSeq(out, read + 1, read + k)
           new  == {i \in 1 .. k : NotNull(part[i])}
<1>3. tmp' = new /\ k + 1 \notin new /\ new \subseteq 1 .. k
  <2>1. tmp' = new
    BY <1>1, <1>2
  <2>2. k + 1 \notin 1 .. k
    BY Lengths
  <2>3. QED
    BY <2>1, <2>2
<1>4. read' = read + k /\ got' = got \o part /\ reader' = "idle"
  BY <1>1, <1>2, <1>3
<1> HIDE DEF new
<1>5. SubSeq(out, 1, read) \o part = SubSeq(out, 1, read + k)
  <2>1. /\ 1 \in 1 .. Len(out) + 1 /\ read \in 1 - 1 .. Len(out)
        /\ read + k \in read .. Len(out)
    BY <1>1, <1>2, Lengths
  <2>2. QED
    BY <1>1, <2>1, ConcatAdjacentSubSeq
<1>6. read' \in 0 .. Len(out') /\ tmp' \subseteq 1 .. ChunkLen + 1
  BY <1>1, <1>2, <1>3, <1>4, Lengths
<1>7. got' \in Seq(Bytes)
  <2>1. \A i \in 1 .. read + k : out[i] \in Bytes
    BY <1>1, <1>2, ElementOfSeq, Lengths
  <2>2. SubSeq(out, 1, read + k) \in Seq(Bytes)
    BY <1>1, <2>1, SubSeqProperties, Lengths
  <2>3. QED
    BY <1>1, <1>4, <1>5, <2>2
<1>8. ReadTypes'
  BY <1>1, <1>4, <1>6, <1>7 DEF ReadTypes, sending
<1>9. ReadInv'
  BY <1>1, <1>4, <1>5 DEF ReadInv, RecvKeepsAll
<1>10. QED
  BY <1>8, <1>9

LEMMA StreamStep == StreamInv /\ [Next]_vars => StreamInv'
<1> SUFFICES ASSUME StreamInv, [Next]_vars PROVE StreamInv'
  OBVIOUS
<1> USE DEF StreamInv
<1>1. ASSUME UNCHANGED posting PROVE PostTypes' /\ Flight' /\ Written'
  BY <1>1, FlightKept, WrittenKept DEF posting
<1>2. ASSUME UNCHANGED <<out, reading, sending>>, {broken', crashed'} \subseteq BOOLEAN
      PROVE  ReadTypes' /\ ReadInv'
  BY <1>2 DEF ReadTypes, ReadInv, RecvKeepsAll, reading, sending
<1>3. broken \in BOOLEAN /\ crashed \in BOOLEAN /\ out \in Seq(Bytes)
  BY DEF ReadTypes, PostTypes
<1>4. CASE Break
  BY <1>1, <1>2, <1>3, <1>4 DEF Break, posting
<1>5. ASSUME NEW m \in Msgs, PostSend(m) PROVE StreamInv'
  <2>1. PostTypes' /\ Flight' /\ Written'
    BY <1>5, PostSendStep
  <2>2. crashed' \in BOOLEAN
    BY <1>3, <1>5 DEF PostSend
  <2>3. QED
    BY <1>2, <1>3, <1>5, <2>1, <2>2 DEF PostSend
<1>6. CASE Transmit
  <2>1. /\ PostTypes' /\ Flight' /\ Written'
        /\ out' = out \/ \E part \in Seq(Bytes) : out' = out \o part
    BY <1>6, TransmitStep
  <2>2. UNCHANGED <<reading, sending, broken, crashed>>
    BY <1>6 DEF Transmit
  <2>3. CASE out' = out
    BY <1>2, <1>3, <2>1, <2>2, <2>3
  <2>4. ASSUME NEW part \in Seq(Bytes), out' = out \o part PROVE StreamInv'
    <3>1. read' \in 0 .. Len(out') /\ RecvKeepsAll'
      BY <1>3, <2>2, <2>4, ReadKept DEF ReadTypes, ReadInv, reading
    <3>2. QED
      BY <2>1, <2>2, <3>1 DEF ReadTypes, ReadInv, reading, sending
  <2>5. QED
    BY <2>1, <2>3, <2>4
<1>7. CASE Completion
  BY <1>2, <1>3, <1>7, CompletionStep DEF Completion
<1>8. CASE BeginRecv
  <2>1. ReadTypes' /\ ReadInv'
    BY <1>8 DEF BeginRecv, posting, sending, ReadTypes, ReadInv, RecvKeepsAll
  <2>2. QED
    BY <1>1, <1>8, <2>1 DEF BeginRecv
<1>9. CASE RecvPart
  BY <1>1, <1>9, RecvPartStep DEF RecvPart
<1>10. CASE RecvFails
  <2>1. ReadTypes' /\ ReadInv'
    BY <1>10 DEF RecvFails, posting, sending, ReadTypes, ReadInv, RecvKeepsAll
  <2>2. QED
    BY <1>1, <1>10, <2>1 DEF RecvFails
<1>11. CASE SendPart \/ PeerReads \/ SendFails
  <2>1. up' \in 0 .. ReqLen /\ taken' \in 0 .. up' /\ sender' \in {"sending", "true", "false"}
    <3>1. ReqLen \in Nat /\ up \in 0 .. ReqLen /\ taken \in 0 .. up
          /\ sender \in {"sending", "true", "false"}
      BY Lengths DEF ReadTypes
    <3>2. CASE SendPart
      BY <3>1, <3>2 DEF SendPart
    <3>3. CASE PeerReads
      BY <3>1, <3>3 DEF PeerReads
    <3>4. CASE SendFails
      BY <3>1, <3>4 DEF SendFails
    <3>5. QED
      BY <1>11, <3>2, <3>3, <3>4
  <2>2. UNCHANGED <<posting, reading, errno, broken, crashed>>
    BY <1>11 DEF SendPart, PeerReads, SendFails
  <2>3. /\ out' = out /\ read' = read /\ tmp' = tmp /\ reader' = reader /\ got' = got
        /\ errno' = errno /\ broken' = broken /\ crashed' = crashed
    BY <2>2 DEF posting, reading
  <2>4. ReadTypes'
    BY <2>1, <2>3, Zenon DEF ReadTypes
  <2>5. ReadInv'
    BY <2>3 DEF ReadInv, RecvKeepsAll
  <2>6. QED
    BY <1>1, <2>2, <2>4, <2>5
<1>12. CASE UNCHANGED vars
  BY <1>1, <1>2, <1>3, <1>12 DEF vars, posting
<1>13. QED
  BY <1>4, <1>5, <1>6, <1>7, <1>8, <1>9, <1>10, <1>11, <1>12 DEF Next

LEMMA StreamInit == Init => StreamInv
<1> SUFFICES ASSUME Init PROVE StreamInv
  OBVIOUS
<1>1. queue = <<>> /\ out = <<>> /\ got = <<>> /\ Len(queue) = 0 /\ Len(out) = 0
  BY DEF Init
<1>2. NewIO \in IOs
  BY Lengths DEF NewIO, IOs
<1>3. PostTypes
  BY <1>1, <1>2, EmptySeq DEF Init, PostTypes
<1>4. ReadTypes
  <2>1. got \in Seq(Bytes)
    BY <1>1, EmptySeq
  <2>2. read \in 0 .. Len(out) /\ up \in 0 .. ReqLen /\ taken \in 0 .. up
    BY <1>1, Lengths DEF Init
  <2>3. QED
    BY <2>1, <2>2 DEF Init, ReadTypes
<1>5. /\ \A m, n : ~Out(m, n)
      /\ \A m \in Msgs : ~InQueue(m) /\ Gone(m, 0) /\ io[m].stat = "none"
  BY <1>1 DEF Init, Out, InQueue, Gone, NewIO
<1>6. Flight
  BY <1>1, <1>5 DEF Init, Flight, OneSend, QueueInv, PortInv, NoneInv,
                    RemovedInv
<1>7. Written
  BY <1>1 DEF Written, OrderInv, FullInv, MixedOnlyIfCut
<1>8. ReadInv
  <2>1. SubSeq(out, 1, 0) = <<>>
    BY SubSeqEmpty
  <2>2. QED
    BY <1>1, <2>1 DEF Init, ReadInv, RecvKeepsAll
<1>9. QED
  BY <1>3, <1>4, <1>6, <1>7, <1>8 DEF StreamInv

\* The invariant of the stream is inductive.
THEOREM StreamStays == Spec => []StreamInv
BY StreamInit, StreamStep, PTL DEF Spec

\* Every field of the stream keeps its type, however a message is cut: the part
\* of a buffer that is posted again stays within it (SocketHandler.cpp:83-89).
THEOREM StreamTypes == Spec => []TypeOK
<1>1. StreamInv => TypeOK
  BY TypesOfParts DEF StreamInv
<1>2. QED
  BY <1>1, StreamStays, PTL

\* However the kernel cuts a message, its buffer goes out in order and each byte
\* of it once (SocketHandler.cpp:83-89).
THEOREM BytesInOrder == Spec => []PayloadInOrder
<1>1. StreamInv => PayloadInOrder
  <2> SUFFICES ASSUME StreamInv, NEW j \in 1 .. Len(out)
               PROVE  BytesOf(out[j][1], j - 1) = 1 .. out[j][2] - 1
    BY DEF PayloadInOrder
  <2>1. Len(out) \in Nat /\ \A i \in 1 .. Len(out) : out[i] \in Bytes
    BY LenProperties, ElementOfSeq DEF StreamInv, PostTypes
  <2>2. \A i \in 1 .. Len(out) : out[i][2] \in 1 .. BufLen
    BY <2>1 DEF Bytes
  <2>3. ASSUME NEW i \in 1 .. j - 1, out[i][1] = out[j][1]
        PROVE  out[i][2] \in 1 .. out[j][2] - 1
    <3>1. i \in 1 .. Len(out) /\ i < j
      BY <2>1
    <3>2. out[i][2] < out[j][2]
      BY <2>3, <3>1 DEF StreamInv, Written, OrderInv
    <3>3. QED
      BY <2>2, <3>1, <3>2
  <2>4. ASSUME NEW n \in 1 .. out[j][2] - 1
        PROVE  \E i \in 1 .. j - 1 : out[i][1] = out[j][1] /\ out[i][2] = n
    <3>1. n \in 1 .. out[j][2] /\ n < out[j][2]
      BY <2>2
    <3>2. PICK i \in 1 .. Len(out) : out[i] = <<out[j][1], n>>
      BY <3>1 DEF StreamInv, Written, FullInv, Out
    <3>3. i < j
      BY <3>1, <3>2 DEF StreamInv, Written, OrderInv
    <3>4. i \in 1 .. j - 1
      BY <3>3
    <3>5. QED
      BY <3>2, <3>4
  <2>5. QED
    BY <2>3, <2>4 DEF BytesOf
<1>2. QED
  BY <1>1, StreamStays, PTL

\* A PER_IO_CONTEXT is removed only when its message is out, and then no send of
\* it is under way (SocketHandler.cpp:83-97, 223-247).
THEOREM RemovedIsSent == Spec => []RemovedWhenSent
<1>1. StreamInv => RemovedWhenSent
  <2> SUFFICES ASSUME StreamInv, NEW m \in Msgs, io[m].stat = "removed"
               PROVE  /\ 1 .. io[m].total \subseteq BytesOf(m, Len(out))
                      /\ \A i \in 1 .. Len(queue) : queue[i] # m
                      /\ \A done \in port : done[1] # m
    BY DEF RemovedWhenSent
  <2>1. ASSUME NEW n \in 1 .. io[m].total PROVE n \in BytesOf(m, Len(out))
    <3>1. PICK j \in 1 .. Len(out) : out[j] = <<m, n>>
      BY DEF StreamInv, Flight, RemovedInv, Out
    <3>2. QED
      BY <3>1 DEF BytesOf
  <2>2. ~Covers(m)
    BY DEF Covers
  <2>3. ~InQueue(m)
    BY <2>2 DEF StreamInv, Flight, QueueInv
  <2>4. ASSUME NEW done \in port PROVE done[1] # m
    <3>1. done \in Msgs \X (-1 .. BufLen)
      BY DEF StreamInv, PostTypes
    <3>2. done = <<done[1], done[2]>> /\ done[2] \in -1 .. BufLen
      BY <3>1
    <3>3. QED
      BY <2>2, <3>2 DEF StreamInv, Flight, PortInv
  <2>5. QED
    BY <2>1, <2>3, <2>4 DEF InQueue
<1>2. QED
  BY <1>1, StreamStays, PTL

\* The bytes of a message that was not cut go out in one piece, whichever
\* threads post others meanwhile (SocketDefine.h:155-186).
THEOREM CutBeforeMixed == Spec => []MixedOnlyIfCut
<1>1. StreamInv => MixedOnlyIfCut
  BY DEF StreamInv, Written
<1>2. QED
  BY <1>1, StreamStays, PTL

\* The calls of Recv return what came, in order and without a gap, since each
\* begins with a clear array (TcpSocketBase.cpp:137, 180).
THEOREM NothingLostByRecv == Spec => []RecvKeepsAll
<1>1. StreamInv => RecvKeepsAll
  BY DEF StreamInv, ReadInv
<1>2. QED
  BY <1>1, StreamStays, PTL
===============================================================================

--------------------------- MODULE ServerLifeProofs ---------------------------
(***************************************************************************)
(* Proofs about the life of the server and about its pool of threads, for  *)
(* every number of handlers and of threads.  Of the pool alone: type       *)
(* correctness whatever the interleaving, and that calls which do not      *)
(* overlap never index past the list of threads.  Of the server: its       *)
(* types, that its handlers are dealt out fairly, and that the null        *)
(* packets of the destructor suffice.  Of one thread of the pool: type     *)
(* correctness, no lost wake-up before and after Quit, and that it         *)
(* implements the serial executor TaskQueue.                               *)
(***************************************************************************)
EXTENDS ServerLife, PoolThread, FiniteSetTheorems, SequenceTheorems, TLAPS

\* What the assumptions of the server say of the pool.
LEMMA PoolSizes ==
  /\ NumThread \in Nat \ {0} /\ DwordSize \in Nat /\ NumThread < DwordSize
  /\ IsFiniteSet(Calls) /\ ThreadNum \in Nat \ {0} /\ NoCall \notin Calls
<1>1. ThreadNum \in Nat \ {0} /\ Calls = 1 .. ThreadNum /\ NoCall \notin Calls
  BY HandlersAssumption
<1>2. IsFiniteSet(Calls)
  BY <1>1, FS_Interval
<1>3. NumThread \in Nat \ {0} /\ DwordSize \in Nat /\ NumThread < DwordSize
  BY <1>1, CapAssumption
<1>4. QED
  BY <1>1, <1>2, <1>3

-------------------------------------------------------------------------------
(* The pool alone, whose calls may interleave.                             *)

PoolStep == Pool!Next \/ Pool!SerialNext

LEMMA PoolTypeStep ==
  Pool!TypeOK /\ (PoolStep \/ UNCHANGED Pool!vars) => Pool!TypeOK'
<1> SUFFICES ASSUME Pool!TypeOK, PoolStep \/ UNCHANGED Pool!vars
             PROVE  Pool!TypeOK'
  OBVIOUS
<1> USE DEF Pool!TypeOK, Pool!Stages, Pool!Dword, Pool!Threads, Pool!index,
            Pool!threads
<1>1. ASSUME NEW c \in Calls, Pool!ResetIndex(c) PROVE Pool!TypeOK'
  BY <1>1, PoolSizes DEF Pool!ResetIndex
<1>2. ASSUME NEW c \in Calls, Pool!ReadIndex(c) PROVE Pool!TypeOK'
  BY <1>2 DEF Pool!ReadIndex
<1>3. ASSUME NEW c \in Calls, Pool!IncrementIndex(c) PROVE Pool!TypeOK'
  BY <1>3, PoolSizes DEF Pool!IncrementIndex, Pool!DwordSuccessor
<1>4. ASSUME NEW c \in Calls, Pool!PostTask(c) PROVE Pool!TypeOK'
  BY <1>4 DEF Pool!PostTask
<1>5. ASSUME NEW c \in Calls, Pool!PostPastEnd(c) PROVE Pool!TypeOK'
  BY <1>5 DEF Pool!PostPastEnd
<1>6. ASSUME NEW t \in Threads, Pool!Start(t) PROVE Pool!TypeOK'
  <2> DEFINE s == waiting[t]
  <2>1. s \in Seq(Calls) /\ s # <<>>
    BY <1>6 DEF Pool!Start, Threads
  <2>2. Head(s) \in Calls /\ Tail(s) \in Seq(Calls)
    <3> HIDE DEF s
    <3>1. QED BY <2>1
  <2>3. QED
    BY <1>6, <2>2 DEF Pool!Start, Threads
<1>7. ASSUME NEW t \in Threads, Pool!Finish(t) PROVE Pool!TypeOK'
  BY <1>7 DEF Pool!Finish, Threads
<1>8. CASE UNCHANGED Pool!vars
  BY <1>8 DEF Pool!vars
<1>9. QED
  BY <1>1, <1>2, <1>3, <1>4, <1>5, <1>6, <1>7, <1>8
  DEF PoolStep, Pool!Next, Pool!SerialNext, Pool!SerialCall, Pool!AddTask,
      Threads

LEMMA PoolTypeInit == Pool!Init => Pool!TypeOK
<1> SUFFICES ASSUME Pool!Init PROVE Pool!TypeOK
  OBVIOUS
<1>1. 0 \in Pool!Dword
  BY PoolSizes DEF Pool!Dword
<1>2. waiting \in [Pool!Threads -> Seq(Calls)]
  BY DEF Pool!Init
<1>3. QED
  BY <1>1, <1>2 DEF Pool!Init, Pool!TypeOK, Pool!Stages

\* Concurrent calls of AddTask keep the types (ThreadPool.cpp:33-58); the index
\* wraps at the width of a DWORD.
THEOREM PoolTypes == Pool!Spec => []Pool!TypeOK
<1>1. Pool!TypeOK /\ [Pool!Next]_(Pool!vars) => Pool!TypeOK'
  BY PoolTypeStep DEF PoolStep
<1>2. QED
  BY PoolTypeInit, <1>1, PTL DEF Pool!Spec

-------------------------------------------------------------------------------
(* The dispatch, when calls do not overlap.  All of it is about the index   *)
(* and the calls; the threads and what ends the process do not matter.      *)

Inside(c) == pc[c] \in {"increment", "post"}
Done      == {c \in Calls : pc[c] = "returned"}
TakenBy(t) == {c \in Calls : pc[c] = "returned" /\ slot[c] = t}

IndexTypes ==
  pc \in [Calls -> Pool!Stages] /\ slot \in [Calls -> Pool!Dword]

\* One call at a time is between its read of the index and its post, and the
\* index it increments is the one it read (ThreadPool.cpp:39-44).
IndexInv ==
  /\ threadIndex \in 0 .. NumThread
  /\ \A c, d \in Calls : Inside(c) /\ Inside(d) => c = d
  /\ \A c \in Calls :
       pc[c] = "increment" => slot[c] = threadIndex /\ threadIndex # NumThread
  /\ \A c \in Calls :
       pc[c] = "post" =>
         slot[c] = IF threadIndex = 0 THEN 0 ELSE threadIndex - 1

\* The index as it was before the call that has still to post.
Posting == \E c \in Calls : pc[c] = "post"
Dealt ==
  IF ~Posting THEN threadIndex
  ELSE IF threadIndex = 0 THEN NumThread ELSE threadIndex - 1

\* After k rounds each thread has k handlers, and thread 0 twice as many; the
\* threads before the index have had their turn in this round.
Share(k, v, t) == (IF t = 0 THEN 2 * k ELSE k) + IF t < v THEN 1 ELSE 0

DealtFor(k, v) ==
  /\ \A t \in Threads : Cardinality(TakenBy(t)) = Share(k, v, t)
  /\ (k = 0 /\ Cardinality(Done) = v) \/ Cardinality(Done) > NumThread

LoadInv == \E k \in Nat : DealtFor(k, Dealt)

IndexStep == (\E c \in Calls : Pool!SerialCall(c)) \/ UNCHANGED index

LEMMA DispatchInit == Pool!Init => IndexInv /\ LoadInv
<1> SUFFICES ASSUME Pool!Init PROVE IndexInv /\ LoadInv
  OBVIOUS
<1>1. threadIndex = 0 /\ \A c \in Calls : pc[c] = "idle"
  BY DEF Pool!Init
<1>2. IndexInv
  BY <1>1, PoolSizes DEF IndexInv, Inside
<1>3. Dealt = 0
  BY <1>1 DEF Dealt, Posting
<1>4. Done = {} /\ \A t \in Threads : TakenBy(t) = {}
  BY <1>1 DEF Done, TakenBy
<1>5. \A t \in Threads : Share(0, 0, t) = 0
  BY PoolSizes DEF Share, Threads, Pool!Threads
<1>6. DealtFor(0, 0)
  BY <1>4, <1>5, FS_EmptySet DEF DealtFor
<1>7. QED
  BY <1>2, <1>3, <1>6 DEF LoadInv

LEMMA IndexStays == Pool!TypeOK /\ IndexInv /\ IndexStep => IndexInv'
<1> SUFFICES ASSUME Pool!TypeOK, IndexInv, IndexStep
             PROVE  IndexInv'
  OBVIOUS
<1> USE PoolSizes DEF Pool!TypeOK, Pool!Stages, Pool!Dword, Pool!Threads,
                      IndexInv, Inside
<1>1. ASSUME NEW c \in Calls, Pool!Alone(c), Pool!ResetIndex(c) PROVE IndexInv'
  <2>1. \A d \in Calls : Inside(d)' => d = c
    BY <1>1 DEF Pool!ResetIndex, Pool!Alone
  <2>2. pc'[c] = "post" /\ slot'[c] = 0 /\ threadIndex' = 0
    BY <1>1 DEF Pool!ResetIndex
  <2>3. QED
    BY <2>1, <2>2
<1>2. ASSUME NEW c \in Calls, Pool!Alone(c), Pool!ReadIndex(c) PROVE IndexInv'
  <2>1. \A d \in Calls : Inside(d)' => d = c
    BY <1>2 DEF Pool!ReadIndex, Pool!Alone
  <2>2. /\ pc'[c] = "increment" /\ slot'[c] = threadIndex
        /\ threadIndex' = threadIndex /\ threadIndex # NumThread
    BY <1>2 DEF Pool!ReadIndex, Pool!IndexAtEnd
  <2>3. QED
    BY <2>1, <2>2
<1>3. ASSUME NEW c \in Calls, Pool!Alone(c), Pool!IncrementIndex(c) PROVE IndexInv'
  <2>1. \A d \in Calls : Inside(d)' => d = c
    BY <1>3 DEF Pool!IncrementIndex, Pool!Alone
  <2>2. slot[c] = threadIndex /\ threadIndex \in 0 .. NumThread - 1
    BY <1>3 DEF Pool!IncrementIndex
  <2>3. threadIndex' = threadIndex + 1
    BY <1>3, <2>2 DEF Pool!IncrementIndex, Pool!DwordSuccessor
  <2>4. pc'[c] = "post" /\ slot' = slot
    BY <1>3 DEF Pool!IncrementIndex
  <2>5. threadIndex' \in 0 .. NumThread /\ threadIndex' # 0
    BY <2>2, <2>3
  <2>6. slot'[c] = threadIndex' - 1
    BY <2>2, <2>3, <2>4
  <2>7. QED
    BY <2>1, <2>4, <2>5, <2>6
<1>4. ASSUME NEW c \in Calls, Pool!PostTask(c) PROVE IndexInv'
  BY <1>4 DEF Pool!PostTask
<1>5. ASSUME NEW c \in Calls, Pool!PostPastEnd(c) PROVE FALSE
  BY <1>5 DEF Pool!PostPastEnd
<1>6. ASSUME UNCHANGED index PROVE IndexInv'
  BY <1>6 DEF index
<1>7. QED
  BY <1>1, <1>2, <1>3, <1>4, <1>5, <1>6
  DEF IndexStep, Pool!SerialCall, Pool!AddTask

\* What a post adds to the loads.
LEMMA PostAdds ==
  ASSUME Pool!TypeOK, NEW c \in Calls, Pool!PostTask(c)
  PROVE  /\ Cardinality(Done)' = Cardinality(Done) + 1
         /\ Cardinality(Done) \in Nat
         /\ \A t \in Threads :
              Cardinality(TakenBy(t))' =
                Cardinality(TakenBy(t)) + IF t = slot[c] THEN 1 ELSE 0
<1>1. /\ pc[c] = "post" /\ pc' = [pc EXCEPT ![c] = "returned"] /\ slot' = slot
      /\ pc \in [Calls -> Pool!Stages]
  BY DEF Pool!PostTask, Pool!TypeOK
<1>2. IsFiniteSet(Done) /\ c \notin Done /\ Done' = Done \cup {c}
  BY <1>1, PoolSizes, FS_Subset DEF Done
<1>3. Cardinality(Done)' = Cardinality(Done) + 1 /\ Cardinality(Done) \in Nat
  BY <1>2, FS_AddElement, FS_CardinalityType
<1>4. ASSUME NEW t \in Threads
      PROVE  Cardinality(TakenBy(t))' =
               Cardinality(TakenBy(t)) + IF t = slot[c] THEN 1 ELSE 0
  <2>1. IsFiniteSet(TakenBy(t)) /\ c \notin TakenBy(t)
    BY <1>1, PoolSizes, FS_Subset DEF TakenBy
  <2>2. CASE t = slot[c]
    <3>1. TakenBy(t)' = TakenBy(t) \cup {c}
      BY <1>1, <2>2 DEF TakenBy
    <3>2. QED
      BY <2>1, <2>2, <3>1, FS_AddElement
  <2>3. CASE t # slot[c]
    <3>1. TakenBy(t)' = TakenBy(t)
      BY <1>1, <2>3 DEF TakenBy
    <3>2. Cardinality(TakenBy(t)) \in Nat
      BY <2>1, FS_CardinalityType
    <3>3. QED
      BY <2>3, <3>1, <3>2
  <2>4. QED
    BY <2>2, <2>3
<1>5. QED
  BY <1>3, <1>4

\* The steps before the post leave what is dealt as it is.
LEMMA LoadKept ==
  ASSUME LoadInv, Dealt' = Dealt,
         \A c \in Calls :
           /\ (pc[c] = "returned") <=> (pc'[c] = "returned")
           /\ pc[c] = "returned" => slot'[c] = slot[c]
  PROVE  LoadInv'
<1>1. PICK k \in Nat : DealtFor(k, Dealt)
  BY DEF LoadInv
<1>2. Done' = Done
  BY DEF Done
<1>3. \A t \in Threads : TakenBy(t)' = TakenBy(t)
  BY DEF TakenBy
<1>4. DealtFor(k, Dealt)'
  BY <1>1, <1>2, <1>3 DEF DealtFor, Threads, Pool!Threads, Share
<1>5. QED
  BY <1>4 DEF LoadInv

\* The loads follow the index round after round.
LEMMA LoadStays ==
  Pool!TypeOK /\ IndexInv /\ LoadInv /\ IndexStep => LoadInv'
<1> SUFFICES ASSUME Pool!TypeOK, IndexInv, LoadInv, IndexStep
             PROVE  LoadInv'
  OBVIOUS
<1> USE PoolSizes
<1>1. /\ pc \in [Calls -> Pool!Stages] /\ slot \in [Calls -> Pool!Dword]
      /\ threadIndex \in 0 .. NumThread
  BY DEF Pool!TypeOK, IndexInv
<1>2. ASSUME NEW c \in Calls, Pool!Alone(c), Pool!ResetIndex(c) PROVE LoadInv'
  <2>1. ~Posting /\ threadIndex = NumThread
    BY <1>2 DEF Pool!ResetIndex, Pool!Alone, Posting, Pool!IndexAtEnd
  <2>2. Posting' /\ threadIndex' = 0
    BY <1>2, <1>1 DEF Pool!ResetIndex, Posting
  <2>3. Dealt' = Dealt
    BY <2>1, <2>2 DEF Dealt
  <2>4. QED
    BY <1>2, <1>1, <2>3, LoadKept DEF Pool!ResetIndex
<1>3. ASSUME NEW c \in Calls, Pool!Alone(c), Pool!ReadIndex(c) PROVE LoadInv'
  <2>1. ~Posting /\ ~Posting' /\ threadIndex' = threadIndex
    BY <1>3, <1>1 DEF Pool!ReadIndex, Pool!Alone, Posting
  <2>2. Dealt' = Dealt
    BY <2>1 DEF Dealt
  <2>3. QED
    BY <1>3, <1>1, <2>2, LoadKept DEF Pool!ReadIndex
<1>4. ASSUME NEW c \in Calls, Pool!Alone(c), Pool!IncrementIndex(c) PROVE LoadInv'
  <2>1. ~Posting /\ Posting'
    BY <1>4, <1>1 DEF Pool!IncrementIndex, Pool!Alone, Posting
  <2>2. threadIndex \in 0 .. NumThread - 1
    BY <1>4, <1>1 DEF Pool!IncrementIndex, IndexInv
  <2>3. threadIndex' = threadIndex + 1
    BY <1>4, <2>2 DEF Pool!IncrementIndex, Pool!DwordSuccessor
  <2>4. Dealt' = Dealt
    BY <2>1, <2>2, <2>3 DEF Dealt
  <2>5. QED
    BY <1>4, <1>1, <2>4, LoadKept DEF Pool!IncrementIndex
<1>5. ASSUME NEW c \in Calls, Pool!PostTask(c) PROVE LoadInv'
  <2>1. PICK k \in Nat : DealtFor(k, Dealt)
    BY DEF LoadInv
  <2>2. pc[c] = "post" /\ threadIndex' = threadIndex
    BY <1>5 DEF Pool!PostTask
  <2>3. Posting /\ ~Posting'
    BY <1>5, <1>1 DEF Posting, IndexInv, Inside, Pool!PostTask
  <2>4. Dealt' = threadIndex
    BY <2>2, <2>3 DEF Dealt
  <2>5. /\ \A t \in Threads : Cardinality(TakenBy(t)) = Share(k, Dealt, t)
        /\ (k = 0 /\ Cardinality(Done) = Dealt) \/ Cardinality(Done) > NumThread
    BY <2>1 DEF DealtFor
  <2>6. CASE threadIndex = 0
    <3>1. Dealt = NumThread /\ slot[c] = 0
      BY <2>2, <2>3, <2>6 DEF Dealt, IndexInv
    <3>2. \A t \in Threads : Cardinality(TakenBy(t))' = Share(k + 1, 0, t)
      BY <1>5, <2>5, <3>1, PostAdds DEF Share, Threads, Pool!Threads
    <3>3. Cardinality(Done)' > NumThread
      BY <1>5, <2>5, <3>1, PostAdds
    <3>4. DealtFor(k + 1, Dealt)'
      BY <2>4, <2>6, <3>2, <3>3 DEF DealtFor, Threads, Pool!Threads, Share
    <3>5. QED
      BY <3>4 DEF LoadInv
  <2>7. CASE threadIndex # 0
    <3>1. Dealt = threadIndex - 1 /\ slot[c] = threadIndex - 1
      BY <2>2, <2>3, <2>7 DEF Dealt, IndexInv
    <3>2. \A t \in Threads :
            Cardinality(TakenBy(t))' = Share(k, threadIndex, t)
      BY <1>5, <1>1, <2>5, <2>7, <3>1, PostAdds DEF Share, Threads, Pool!Threads
    <3>3. \/ k = 0 /\ Cardinality(Done)' = threadIndex
          \/ Cardinality(Done)' > NumThread
      BY <1>5, <1>1, <2>5, <2>7, <3>1, PostAdds
    <3>4. DealtFor(k, Dealt)'
      BY <2>2, <2>4, <3>2, <3>3 DEF DealtFor, Threads, Pool!Threads, Share
    <3>5. QED
      BY <3>4 DEF LoadInv
  <2>8. QED
    BY <2>6, <2>7
<1>6. ASSUME NEW c \in Calls, Pool!PostPastEnd(c) PROVE FALSE
  BY <1>6, <1>1 DEF Pool!PostPastEnd, IndexInv, Pool!Threads
<1>7. ASSUME UNCHANGED index PROVE LoadInv'
  <2>1. Dealt' = Dealt
    BY <1>7 DEF Dealt, Posting, index
  <2>2. QED
    BY <1>7, <2>1, LoadKept DEF index
<1>8. QED
  BY <1>2, <1>3, <1>4, <1>5, <1>6, <1>7
  DEF IndexStep, Pool!SerialCall, Pool!AddTask

LEMMA SlotsInRange == IndexInv => Pool!SlotInRange
BY PoolSizes DEF IndexInv, Pool!SlotInRange, Pool!Threads

\* The pool counts as the server does.
LEMMA SameCount == ASSUME NEW S PROVE Pool!Cardinality(S) = Cardinality(S)
BY DEF Pool!Cardinality, Cardinality, Pool!IsFiniteSet, IsFiniteSet

LEMMA DealtFairly == IndexInv /\ LoadInv => FairDispatch
<1> SUFFICES ASSUME IndexInv, LoadInv PROVE FairDispatch
  OBVIOUS
<1> USE PoolSizes
<1>1. PICK k \in Nat : DealtFor(k, Dealt)
  BY DEF LoadInv
<1>2. Dealt \in 0 .. NumThread
  BY DEF Dealt, IndexInv
<1>3. \A t \in Threads : Pool!Load(t) = Share(k, Dealt, t)
  BY <1>1, SameCount DEF DealtFor, TakenBy, Pool!Load
<1>4. Pool!DispatchSkew
  BY <1>2, <1>3 DEF Pool!DispatchSkew, Share, Threads, Pool!Threads
<1>5. Pool!HandlersApart
  <2> DEFINE begun == {c \in Calls : pc[c] # "idle"}
  <2> SUFFICES ASSUME Cardinality(begun) <= NumThread
               PROVE  \A t \in Threads : Pool!Load(t) <= 1
    BY SameCount DEF Pool!HandlersApart, Threads
  <2>1. Done \subseteq begun /\ IsFiniteSet(begun)
    BY FS_Subset DEF Done
  <2>2. /\ Cardinality(Done) <= Cardinality(begun)
        /\ Cardinality(begun) \in Nat /\ Cardinality(Done) \in Nat
    BY <2>1, FS_Subset, FS_CardinalityType
  <2>3. k = 0
    <3> HIDE DEF begun
    <3>1. QED BY <1>1, <2>2 DEF DealtFor
  <2>4. QED
    BY <1>2, <1>3, <2>3 DEF Share, Threads, Pool!Threads
<1>6. QED
  BY <1>4, <1>5, SlotsInRange DEF FairDispatch

\* Calls that do not overlap never read past the end of m_threadList
\* (ThreadPool.cpp:39-49).
THEOREM SerialSlotInRange == Pool!SerialSpec => []Pool!SlotInRange
<1>1. Pool!TypeOK /\ IndexInv /\ [Pool!SerialNext]_(Pool!vars)
        => Pool!TypeOK' /\ IndexInv'
  <2>1. [Pool!SerialNext]_(Pool!vars) => IndexStep
    BY DEF Pool!SerialNext, IndexStep, Pool!Start, Pool!Finish, Pool!vars,
           Pool!index, index
  <2>2. QED
    BY <2>1, PoolTypeStep, IndexStays DEF PoolStep
<1>2. QED
  BY PoolTypeInit, DispatchInit, <1>1, SlotsInRange, PTL DEF Pool!SerialSpec

-------------------------------------------------------------------------------
(* The destructor.                                                         *)

LifeInv ==
  /\ TypeOK
  /\ owner \in {"using", "quit", "wake"} => turn <= ThreadNum
  /\ stolen + Cardinality(NullPackets) <= turn - 1

\* The null packets in a port.
Nulls(s) == {i \in 1 .. Len(s) : s[i] = "null"}

LEMMA NullsFinite ==
  ASSUME NEW s \in Seq(Packets)
  PROVE  IsFiniteSet(Nulls(s)) /\ Cardinality(Nulls(s)) \in Nat
<1>1. IsFiniteSet(1 .. Len(s))
  BY FS_Interval
<1>2. Nulls(s) \subseteq 1 .. Len(s)
  BY DEF Nulls
<1>3. QED
  BY <1>1, <1>2, FS_Subset, FS_CardinalityType

LEMMA NullsAppend ==
  ASSUME NEW s \in Seq(Packets), NEW e \in Packets
  PROVE  Cardinality(Nulls(Append(s, e))) =
           Cardinality(Nulls(s)) + IF e = "null" THEN 1 ELSE 0
<1> DEFINE a == Append(s, e)
<1>1. /\ Len(a) = Len(s) + 1 /\ a[Len(s) + 1] = e /\ Len(s) \in Nat
      /\ \A i \in 1 .. Len(s) : a[i] = s[i]
  BY AppendProperties
<1> HIDE DEF a
<1>2. IsFiniteSet(Nulls(s)) /\ Cardinality(Nulls(s)) \in Nat
  BY NullsFinite
<1>3. CASE e = "null"
  <2>1. Nulls(a) = Nulls(s) \cup {Len(s) + 1} /\ Len(s) + 1 \notin Nulls(s)
    BY <1>1, <1>3 DEF Nulls
  <2>2. QED
    BY <1>2, <1>3, <2>1, FS_AddElement DEF a
<1>4. CASE e # "null"
  <2>1. Nulls(a) = Nulls(s)
    BY <1>1, <1>4 DEF Nulls
  <2>2. QED
    BY <1>2, <1>4, <2>1 DEF a
<1>5. QED
  BY <1>3, <1>4

LEMMA NullsTail ==
  ASSUME NEW s \in Seq(Packets), s # <<>>
  PROVE  Cardinality(Nulls(Tail(s))) =
           Cardinality(Nulls(s)) - IF Head(s) = "null" THEN 1 ELSE 0
<1> DEFINE a == Tail(s)
           rest == Nulls(s) \ {1}
           f == [i \in Nulls(a) |-> i + 1]
<1>1. /\ a \in Seq(Packets) /\ Len(a) = Len(s) - 1
      /\ \A i \in 1 .. Len(a) : a[i] = s[i + 1]
  BY HeadTailProperties
<1>2. Len(s) \in Nat /\ Len(s) # 0 /\ Head(s) = s[1]
  BY EmptySeq, LenProperties
<1> HIDE DEF a
<1>3. \A i \in Nulls(a) : i \in 1 .. Len(a) /\ i + 1 \in rest
  BY <1>1, <1>2 DEF Nulls
<1>4. \A j \in rest : j - 1 \in Nulls(a) /\ j \in Nat
  <2>1. \A j \in rest : j \in 2 .. Len(s) /\ s[j] = "null"
    BY <1>2 DEF Nulls
  <2>2. \A j \in 2 .. Len(s) : j - 1 \in 1 .. Len(a) /\ a[j - 1] = s[j]
    BY <1>1, <1>2
  <2>3. QED
    BY <2>1, <2>2 DEF Nulls
<1>5. f \in [Nulls(a) -> rest]
  BY <1>3
<1>6. \A i, j \in Nulls(a) : f[i] = f[j] => i = j
  BY <1>3
<1>7. \A j \in rest : \E i \in Nulls(a) : f[i] = j
  <2> TAKE j \in rest
  <2>1. j - 1 \in Nulls(a) /\ f[j - 1] = j
    BY <1>4
  <2>2. QED
    BY <2>1
<1>8. ExistsBijection(Nulls(a), rest)
  <2> HIDE DEF f, rest
  <2>1. f \in Bijection(Nulls(a), rest)
    BY <1>5, <1>6, <1>7 DEF Bijection, Injection, IsInjective, Surjection
  <2>2. QED
    BY <2>1 DEF ExistsBijection
<1>9. Cardinality(rest) = Cardinality(Nulls(a))
  BY <1>1, <1>8, NullsFinite, FS_Bijection
<1>10. 1 \in Nulls(s) <=> Head(s) = "null"
  BY <1>2 DEF Nulls
<1>11. Cardinality(rest) = IF 1 \in Nulls(s) THEN Cardinality(Nulls(s)) - 1
                                            ELSE Cardinality(Nulls(s))
  BY NullsFinite, FS_RemoveElement
<1>12. QED
  BY <1>9, <1>10, <1>11, NullsFinite DEF a

-------------------------------------------------------------------------------
(* The types, and how many null packets the destructor has posted.         *)

LEMMA NextIsIndexStep == [Next]_vars => IndexStep
<1> USE DEF IndexStep, pool, index
<1>1. ASSUME Listener PROVE IndexStep
  BY <1>1 DEF Listener, InitServer, PostHandler, SetStarted, Accept, AcceptEnds
<1>2. ASSUME CloseServer \/ Destroy \/ Destructor \/ ListenerFault PROVE IndexStep
  BY <1>2 DEF CloseServer, Destroy, Destructor, QuitHandler, WakeHandler,
              RemoveThread, ClosePort, ListenerFault
<1>3. ASSUME NEW t \in Threads, Thread(t) PROVE IndexStep
  BY <1>3 DEF Thread, Enter, Pool!Start, Pool!index, Discard, Test, Leave,
              Pool!Finish,
              GetNull, GetPacket, GetFails, Serve
<1>4. QED
  BY <1>1, <1>2, <1>3 DEF Next, vars

LEMMA PoolStays == Pool!TypeOK /\ [Next]_vars => Pool!TypeOK'
<1> SUFFICES ASSUME Pool!TypeOK, [Next]_vars PROVE Pool!TypeOK'
  OBVIOUS
<1>1. ASSUME PoolStep PROVE Pool!TypeOK'
  BY <1>1, PoolTypeStep
<1>2. ASSUME UNCHANGED <<index, waiting, running, done>>, crashed' \in BOOLEAN
      PROVE  Pool!TypeOK'
  BY <1>2 DEF Pool!TypeOK, Pool!Stages, Pool!Dword, Pool!Threads, index
<1>3. ASSUME NEW t \in Threads, Discard(t) PROVE Pool!TypeOK'
  <2>1. <<>> \in Seq(Calls)
    BY EmptySeq
  <2>2. waiting' \in [Pool!Threads -> Seq(Calls)]
    BY <1>3, <2>1 DEF Discard, Pool!TypeOK
  <2>3. QED
    BY <1>3, <2>2
    DEF Discard, Pool!TypeOK, Pool!Stages, Pool!Dword, Pool!Threads, index
<1>4. crashed \in BOOLEAN
  BY DEF Pool!TypeOK
<1>5. ASSUME Listener PROVE Pool!TypeOK'
  BY <1>1, <1>2, <1>4, <1>5
  DEF Listener, InitServer, PostHandler, SetStarted, Accept, AcceptEnds,
      PoolStep, Pool!SerialNext, pool
<1>6. ASSUME CloseServer \/ Destroy \/ Destructor \/ ListenerFault
      PROVE  Pool!TypeOK'
  BY <1>2, <1>4, <1>6
  DEF CloseServer, Destroy, Destructor, QuitHandler, WakeHandler,
      RemoveThread, ClosePort, ListenerFault, pool
<1>7. ASSUME NEW t \in Threads, Thread(t) PROVE Pool!TypeOK'
  <2>1. CASE Enter(t) \/ Leave(t)
    BY <1>1, <2>1 DEF Enter, Leave, PoolStep, Pool!SerialNext, Threads
  <2>2. CASE Discard(t)
    BY <1>3, <2>2
  <2>3. CASE Test(t) \/ GetNull(t) \/ GetPacket(t) \/ GetFails(t) \/ Serve(t)
    BY <1>2, <1>4, <2>3 DEF Test, GetNull, GetPacket, GetFails, Serve, pool
  <2>4. QED
    BY <1>7, <2>1, <2>2, <2>3 DEF Thread
<1>8. ASSUME UNCHANGED vars PROVE Pool!TypeOK'
  BY <1>2, <1>4, <1>8 DEF vars, pool
<1>9. QED
  BY <1>5, <1>6, <1>7, <1>8 DEF Next

\* The types of what is not of the pool, but for the bound of stolen, which
\* the count of null packets gives.
Rest ==
  /\ listener \in {"init", "posting", "accepting", "returned"}
  /\ started \in BOOLEAN
  /\ closing \in {"no", "early", "late"}
  /\ owner \in {"using", "quit", "wake", "remove", "close", "gone"}
  /\ turn \in 1 .. ThreadNum + 1
  /\ owner \in {"using", "quit", "wake"} => turn <= ThreadNum
  /\ quit \subseteq Calls
  /\ at \in [Calls -> {"out", "test", "get", "serve"}]
  /\ port \in Seq(Packets)
  /\ arrived \in 0 .. MaxPackets
  /\ stolen \in Nat
  /\ removed \subseteq Threads

LEMMA RestOfLife == LifeInv => Rest
BY PoolSizes DEF LifeInv, TypeOK, Rest

LEMMA PacketsIn ==
  ASSUME NEW s \in Seq(Packets), NEW e \in Packets
  PROVE  /\ Append(s, e) \in Seq(Packets)
         /\ s # <<>> => Tail(s) \in Seq(Packets)
BY AppendProperties, HeadTailProperties

LEMMA RestStays == Rest /\ [Next]_vars => Rest'
<1> SUFFICES ASSUME Rest, [Next]_vars PROVE Rest'
  OBVIOUS
<1> USE DEF Rest, server, ending, iocp
<1>1. "null" \in Packets /\ "io" \in Packets
  BY DEF Packets
<1>2. ThreadNum \in Nat \ {0} /\ Calls = 1 .. ThreadNum /\ MaxPackets \in Nat
  BY HandlersAssumption, PacketsAssumption
<1>3. ASSUME Listener PROVE Rest'
  <2>1. CASE InitServer \/ SetStarted \/ AcceptEnds
    BY <2>1 DEF InitServer, SetStarted, AcceptEnds
  <2>2. ASSUME NEW c \in Calls, PostHandler(c) PROVE Rest'
    BY <2>2 DEF PostHandler
  <2>3. CASE Accept
    <3>1. /\ port' = Append(port, "io") \/ port' = port
          /\ arrived' \in 0 .. MaxPackets
      BY <2>3, <1>2 DEF Accept
    <3>2. port' \in Seq(Packets)
      BY <3>1, <1>1, PacketsIn
    <3>3. QED
      BY <2>3, <3>1, <3>2 DEF Accept
  <2>4. QED
    BY <1>3, <2>1, <2>2, <2>3 DEF Listener
<1>4. ASSUME CloseServer \/ Destroy \/ QuitHandler \/ ClosePort \/ ListenerFault
      PROVE  Rest'
  <2>1. CASE CloseServer \/ Destroy \/ ListenerFault
    BY <2>1 DEF CloseServer, Destroy, ListenerFault
  <2>2. CASE QuitHandler
    BY <2>2, <1>2 DEF QuitHandler
  <2>3. CASE ClosePort
    BY <2>3 DEF ClosePort
  <2>4. QED
    BY <1>4, <2>1, <2>2, <2>3
<1>5. ASSUME WakeHandler PROVE Rest'
  <2>1. port' \in Seq(Packets)
    BY <1>5, <1>1, PacketsIn DEF WakeHandler
  <2>2. turn' \in 1 .. ThreadNum + 1
    BY <1>5, <1>2 DEF WakeHandler
  <2>3. /\ owner' \in {"remove", "quit"}
        /\ owner' = "quit" => turn' <= ThreadNum
    BY <1>5, <1>2 DEF WakeHandler
  <2>4. QED
    BY <1>5, <2>1, <2>2, <2>3 DEF WakeHandler
<1>6. ASSUME RemoveThread PROVE Rest'
  <2>1. CASE removed = Threads
    BY <1>6, <2>1 DEF RemoveThread
  <2>2. CASE removed # Threads
    <3>1. /\ IsFiniteSet(Threads) /\ Cardinality(Threads) = NumThread
      BY PoolSizes, FS_Interval DEF Threads, Pool!Threads
    <3>2. /\ Cardinality(removed) \in Nat
          /\ Cardinality(removed) <= NumThread
          /\ Cardinality(removed) # NumThread
      BY <2>2, <3>1, FS_Subset, FS_CardinalityType
    <3>3. Cardinality(removed) \in Threads
      BY <3>2, PoolSizes DEF Threads, Pool!Threads
    <3>4. removed' \subseteq Threads
      BY <1>6, <2>2, <3>3 DEF RemoveThread, Threads, Pool!Threads
    <3>5. QED
      BY <1>6, <2>2, <3>4 DEF RemoveThread
  <2>3. QED
    BY <2>1, <2>2
<1>7. ASSUME NEW t \in Threads, Thread(t) PROVE Rest'
  <2>1. /\ at' \in [Calls -> {"out", "test", "get", "serve"}]
        /\ UNCHANGED <<server, ending, arrived>>
    BY <1>7 DEF Thread, Enter, Discard, Test, Leave, GetNull, GetPacket,
                GetFails, Serve, Move
  <2>2. port' \in Seq(Packets)
    <3>1. port' = port \/ (port # <<>> /\ port' = Tail(port))
      BY <1>7 DEF Thread, Enter, Discard, Test, Leave, GetNull, GetPacket,
                  GetFails, Serve
    <3>2. QED
      BY <3>1, <1>1, PacketsIn
  <2>3. stolen' \in Nat
    <3>1. stolen' = stolen \/ stolen' = stolen + IF running[t] \in quit THEN 0 ELSE 1
      BY <1>7 DEF Thread, Enter, Discard, Test, Leave, GetNull, GetPacket,
                  GetFails, Serve
    <3>2. QED
      BY <3>1
  <2>4. removed' \subseteq Threads
    BY <2>1
  <2>5. QED
    BY <2>1, <2>2, <2>3, <2>4
<1>8. CASE UNCHANGED vars
  BY <1>8 DEF vars
<1>9. QED
  BY <1>3, <1>4, <1>5, <1>6, <1>7, <1>8 DEF Next, Destructor

\* No more null packets have been posted than handlers told to quit, and each
\* of them is in the port, or was taken, once.
Posted == stolen + Cardinality(NullPackets) <= turn - 1

LEMMA NullsOfPort ==
  /\ NullPackets = Nulls(port) /\ NullPackets' = Nulls(port')
BY DEF NullPackets, Nulls

LEMMA PostedStays == Rest /\ Posted /\ [Next]_vars => Posted'
<1> SUFFICES ASSUME Rest, Posted, [Next]_vars PROVE Posted'
  OBVIOUS
<1> USE DEF Posted
<1>1. /\ port \in Seq(Packets) /\ stolen \in Nat /\ turn \in Nat
      /\ Cardinality(NullPackets) \in Nat
  BY HandlersAssumption, NullsFinite, NullsOfPort DEF Rest
<1>2. ASSUME UNCHANGED <<port, stolen, turn>> PROVE Posted'
  BY <1>2 DEF NullPackets
<1>3. ASSUME Listener PROVE Posted'
  <2>1. CASE Accept
    <3>1. port' = port \/ port' = Append(port, "io")
      BY <2>1 DEF Accept
    <3>2. Cardinality(NullPackets)' = Cardinality(NullPackets)
      <4>1. Cardinality(Nulls(Append(port, "io"))) = Cardinality(Nulls(port))
        <5>1. Cardinality(Nulls(port)) \in Nat
          BY <1>1, NullsFinite
        <5>2. QED
          BY <1>1, <5>1, NullsAppend DEF Packets
      <4>2. QED
        BY <3>1, <4>1 DEF NullPackets, Nulls
    <3>3. QED
      BY <2>1, <3>2 DEF Accept, ending
  <2>2. CASE ~Accept
    BY <1>2, <1>3, <2>2
    DEF Listener, InitServer, PostHandler, SetStarted, AcceptEnds, iocp, ending
  <2>3. QED
    BY <2>1, <2>2
<1>4. ASSUME WakeHandler PROVE Posted'
  <2>1. Cardinality(NullPackets)' = Cardinality(NullPackets) + 1
    BY <1>1, <1>4, NullsAppend, NullsOfPort DEF Packets, WakeHandler
  <2>2. turn' = turn + 1 /\ stolen' = stolen
    BY <1>4 DEF WakeHandler
  <2>3. QED
    BY <1>1, <2>1, <2>2
<1>5. ASSUME ClosePort PROVE Posted'
  <2>1. NullPackets' = {} /\ turn' = turn /\ stolen' = stolen
    BY <1>5 DEF ClosePort, NullPackets
  <2>2. QED
    BY <1>1, <2>1, FS_EmptySet
<1>6. ASSUME CloseServer \/ Destroy \/ QuitHandler \/ RemoveThread \/ ListenerFault
      PROVE  Posted'
  BY <1>2, <1>6
  DEF CloseServer, Destroy, QuitHandler, RemoveThread, ListenerFault, iocp,
      ending
<1>7. ASSUME NEW t \in Threads, Thread(t) PROVE Posted'
  <2>1. CASE GetNull(t)
    <3>1. Cardinality(NullPackets)' = Cardinality(NullPackets) - 1
      BY <1>1, <2>1, NullsTail, NullsOfPort DEF GetNull
    <3>2. stolen' \in {stolen, stolen + 1} /\ turn' = turn
      BY <1>1, <2>1 DEF GetNull, ending
    <3>3. QED
      BY <1>1, <3>1, <3>2
  <2>2. CASE GetPacket(t)
    <3>1. Cardinality(NullPackets)' = Cardinality(NullPackets)
      BY <1>1, <2>2, NullsTail, NullsOfPort DEF GetPacket
    <3>2. QED
      BY <2>2, <3>1 DEF GetPacket, ending
  <2>3. CASE \/ Enter(t) \/ Discard(t) \/ Test(t) \/ Leave(t)
             \/ GetFails(t) \/ Serve(t)
    BY <1>2, <2>3
    DEF Enter, Discard, Test, Leave, GetFails, Serve, iocp, ending
  <2>4. QED
    BY <1>7, <2>1, <2>2, <2>3 DEF Thread
<1>8. CASE UNCHANGED vars
  BY <1>2, <1>8 DEF vars, iocp, ending
<1>9. QED
  BY <1>3, <1>4, <1>5, <1>6, <1>7, <1>8 DEF Next, Destructor

LEMMA LifeFromParts == Pool!TypeOK /\ Rest /\ Posted => LifeInv
<1> SUFFICES ASSUME Pool!TypeOK, Rest, Posted PROVE LifeInv
  OBVIOUS
<1>1. ThreadNum \in Nat
  BY PoolSizes
<1>2. Cardinality(NullPackets) \in Nat
  BY NullsFinite, NullsOfPort DEF Rest
<1>3. stolen \in 0 .. ThreadNum
  BY <1>1, <1>2 DEF Rest, Posted
<1>4. QED
  BY <1>3 DEF LifeInv, TypeOK, Rest, Posted

LEMMA LifeStep == LifeInv /\ [Next]_vars => LifeInv'
<1> SUFFICES ASSUME LifeInv, [Next]_vars PROVE LifeInv'
  OBVIOUS
<1>1. Pool!TypeOK /\ Rest /\ Posted
  BY RestOfLife DEF LifeInv, TypeOK, Posted
<1>2. Pool!TypeOK' /\ Rest' /\ Posted'
  BY <1>1, PoolStays, RestStays, PostedStays
<1>3. QED
  BY <1>2, LifeFromParts, PTL

LEMMA LifeInit == Init => LifeInv
<1> SUFFICES ASSUME Init PROVE LifeInv
  OBVIOUS
<1>1. Pool!TypeOK
  BY PoolTypeInit DEF Init
<1>2. Rest
  <2>1. port \in Seq(Packets)
    BY EmptySeq DEF Init
  <2>2. turn \in 1 .. ThreadNum + 1 /\ turn <= ThreadNum
    BY PoolSizes DEF Init
  <2>3. /\ arrived \in 0 .. MaxPackets /\ stolen \in Nat
        /\ at \in [Calls -> {"out", "test", "get", "serve"}]
    BY PacketsAssumption DEF Init
  <2>4. QED
    BY <2>1, <2>2, <2>3 DEF Init, Rest
<1>3. NullPackets = {}
  BY DEF Init, NullPackets
<1>4. Posted
  BY <1>3, FS_EmptySet DEF Init, Posted
<1>5. QED
  BY <1>1, <1>2, <1>4, LifeFromParts

\* Every field of the server and of its pool keeps its type while the server
\* starts, serves and is destroyed (TcpThreadServer.cpp:17-103): the destructor
\* stays among the handlers, deletes only threads of the pool, and no more null
\* packets go astray than it posts.
THEOREM LifeTypes == Spec => []TypeOK
<1>1. LifeInv => TypeOK
  BY DEF LifeInv
<1>2. QED
  BY LifeInit, LifeStep, <1>1, PTL DEF Spec

\* The calls of StartServer deal the handlers out fairly (ThreadPool.cpp:35-42,
\* TcpThreadServer.cpp:66-73): no index past the list of threads, no thread
\* with many more handlers than another, and no two on one thread as long as
\* there are no more handlers than threads.
THEOREM DealsFairly == Spec => []FairDispatch
<1> DEFINE Inv == LifeInv /\ IndexInv /\ LoadInv
<1>1. Init => Inv
  BY LifeInit, DispatchInit DEF Init
<1>2. Inv /\ [Next]_vars => Inv'
  <2> SUFFICES ASSUME Inv, [Next]_vars PROVE Inv'
    OBVIOUS
  <2>1. IndexStep /\ Pool!TypeOK
    BY NextIsIndexStep DEF LifeInv, TypeOK
  <2>2. LifeInv'
    BY LifeStep
  <2>3. IndexInv' /\ LoadInv'
    BY <2>1, IndexStays, LoadStays
  <2>4. QED
    BY <2>2, <2>3
<1>3. Inv => FairDispatch
  BY DealtFairly
<1>4. QED
  BY <1>1, <1>2, <1>3, PTL DEF Spec

-------------------------------------------------------------------------------
(* The null packets suffice.                                               *)

Room == Cardinality(NullPackets) + stolen + IF owner = "wake" THEN 1 ELSE 0

LEMMA CountsAreNat ==
  Rest => /\ IsFiniteSet(Stranded) /\ Cardinality(Stranded) \in Nat
          /\ Cardinality(NullPackets) \in Nat /\ stolen \in Nat /\ Room \in Nat
<1> SUFFICES ASSUME Rest
             PROVE  /\ IsFiniteSet(Stranded) /\ Cardinality(Stranded) \in Nat
                    /\ Cardinality(NullPackets) \in Nat /\ stolen \in Nat
                    /\ Room \in Nat
  OBVIOUS
<1>1. Stranded \subseteq Calls
  BY DEF Stranded, Rest
<1>2. IsFiniteSet(Stranded) /\ Cardinality(Stranded) \in Nat
  BY <1>1, PoolSizes, FS_Subset, FS_CardinalityType
<1>3. Cardinality(NullPackets) \in Nat /\ stolen \in Nat
  BY NullsFinite, NullsOfPort DEF Rest
<1>4. QED
  BY <1>2, <1>3 DEF Room

\* Steps that strand nobody and take no packet away.
LEMMA NobodyStranded ==
  ASSUME Rest, Rest', WakesSuffice, Stranded' \subseteq Stranded,
         Room' = Room, owner = "gone" => owner' = "gone"
  PROVE  WakesSuffice'
<1>1. /\ Cardinality(Stranded)' \in Nat /\ Cardinality(Stranded) \in Nat
      /\ Cardinality(Stranded)' <= Cardinality(Stranded)
  BY CountsAreNat, FS_Subset, FS_CardinalityType
<1>2. Room \in Nat
  BY CountsAreNat
<1>3. QED
  BY <1>1, <1>2 DEF WakesSuffice, Room

LEMMA WakesStep ==
  Pool!TypeOK /\ Rest /\ Rest' /\ WakesSuffice /\ [Next]_vars => WakesSuffice'
<1> SUFFICES ASSUME Pool!TypeOK, Rest, Rest', WakesSuffice, [Next]_vars
             PROVE  WakesSuffice'
  OBVIOUS
<1>1. /\ IsFiniteSet(Stranded) /\ Cardinality(Stranded) \in Nat
      /\ Cardinality(NullPackets) \in Nat /\ stolen \in Nat /\ Room \in Nat
  BY CountsAreNat
<1>2. /\ port \in Seq(Packets) /\ quit \subseteq Calls
      /\ at \in [Calls -> {"out", "test", "get", "serve"}]
      /\ \A t \in Threads : running[t] \in Calls \cup {NoCall}
  BY DEF Rest, Pool!TypeOK, Threads
<1>3. ASSUME UNCHANGED <<port, stolen>>, Stranded' \subseteq Stranded,
             owner' = owner \/ (owner # "gone" /\ owner # "wake" /\ owner' # "wake")
      PROVE  WakesSuffice'
  <2>1. Room' = Room
    BY <1>3 DEF Room, NullPackets
  <2>2. QED
    BY <1>3, <2>1, NobodyStranded
<1>4. ASSUME Listener PROVE WakesSuffice'
  <2>1. Stranded' = Stranded /\ UNCHANGED <<owner, stolen>>
    BY <1>4 DEF Listener, InitServer, PostHandler, SetStarted, Accept,
                AcceptEnds,
                iocp, ending, Stranded
  <2>2. CASE port' = port
    BY <1>3, <2>1, <2>2
  <2>3. CASE port' # port
    <3>1. port' = Append(port, "io")
      BY <1>4, <2>3 DEF Listener, InitServer, PostHandler, SetStarted, Accept,
                        AcceptEnds, iocp
    <3>2. Cardinality(Nulls(Append(port, "io"))) = Cardinality(Nulls(port))
      <4>1. Cardinality(Nulls(port)) \in Nat
        BY <1>2, NullsFinite
      <4>2. QED
        BY <1>2, <4>1, NullsAppend DEF Packets
    <3>3. Room' = Room
      BY <2>1, <3>1, <3>2 DEF Room, NullPackets, Nulls
    <3>4. QED
      BY <2>1, <3>3, NobodyStranded
  <2>4. QED
    BY <2>2, <2>3
<1>5. ASSUME CloseServer \/ Destroy \/ RemoveThread \/ ListenerFault
      PROVE  WakesSuffice'
  <2>1. Stranded' = Stranded /\ UNCHANGED <<port, stolen>>
    BY <1>5 DEF CloseServer, Destroy, RemoveThread, ListenerFault, iocp, ending,
                Stranded
  <2>2. owner' = owner \/ (owner # "gone" /\ owner # "wake" /\ owner' # "wake")
    BY <1>5 DEF CloseServer, Destroy, RemoveThread, ListenerFault, ending
  <2>3. QED
    BY <1>3, <2>1, <2>2
<1>6. ASSUME QuitHandler PROVE WakesSuffice'
  <2>1. /\ owner = "quit" /\ owner' = "wake" /\ UNCHANGED <<port, stolen, at>>
        /\ quit' = quit \cup {turn}
    BY <1>6 DEF QuitHandler, iocp
  <2>2. Stranded' \subseteq Stranded \cup {turn}
    BY <2>1 DEF Stranded
  <2>3. /\ IsFiniteSet(Stranded \cup {turn})
        /\ Cardinality(Stranded \cup {turn}) \in Nat
        /\ Cardinality(Stranded \cup {turn}) <= Cardinality(Stranded) + 1
    <3> DEFINE wider == Stranded \cup {turn}
    <3>1. IsFiniteSet(wider)
      BY <1>1, FS_AddElement
    <3>2. Cardinality(wider) \in {Cardinality(Stranded), Cardinality(Stranded) + 1}
      BY <1>1, FS_AddElement
    <3>3. QED
      BY <1>1, <3>1, <3>2
  <2>4. /\ Cardinality(Stranded)' \in Nat
        /\ Cardinality(Stranded)' <= Cardinality(Stranded \cup {turn})
    BY <2>2, <2>3, FS_Subset, FS_CardinalityType
  <2>5. Cardinality(NullPackets)' = Cardinality(NullPackets)
    BY <2>1 DEF NullPackets
  <2>6. QED
    BY <1>1, <2>1, <2>3, <2>4, <2>5 DEF WakesSuffice
<1>7. ASSUME WakeHandler PROVE WakesSuffice'
  <2>1. /\ owner = "wake" /\ owner' \in {"remove", "quit"} /\ stolen' = stolen
        /\ port' = Append(port, "null")
    BY <1>7 DEF WakeHandler
  <2>2. Stranded' = Stranded
    BY <1>7 DEF WakeHandler, Stranded
  <2>3. Cardinality(NullPackets)' = Cardinality(NullPackets) + 1
    BY <1>2, <2>1, NullsAppend, NullsOfPort DEF Packets
  <2>4. QED
    BY <1>1, <2>1, <2>2, <2>3 DEF WakesSuffice
<1>8. ASSUME ClosePort PROVE WakesSuffice'
  BY <1>8 DEF ClosePort, WakesSuffice
<1>9. ASSUME NEW t \in Threads, Thread(t) PROVE WakesSuffice'
  <2>1. CASE Enter(t)
    <3>1. Stranded' \subseteq Stranded
      BY <1>2, <2>1 DEF Enter, Stranded, ending
    <3>2. QED
      BY <1>3, <2>1, <3>1 DEF Enter, ending
  <2>2. CASE Discard(t)
    BY <1>3, <2>2 DEF Discard, ending, iocp, Stranded
  <2>3. CASE Test(t)
    <3>1. Stranded' \subseteq Stranded
      BY <1>2, <2>3 DEF Test, Move, Stranded, ending
    <3>2. QED
      BY <1>3, <2>3, <3>1 DEF Test, ending
  <2>4. CASE Leave(t) \/ GetFails(t) \/ Serve(t)
    <3>1. Stranded' \subseteq Stranded
      BY <1>2, <2>4 DEF Leave, GetFails, Serve, Move, Stranded, ending
    <3>2. QED
      BY <1>3, <2>4, <3>1 DEF Leave, GetFails, Serve, ending
  <2>5. CASE GetNull(t)
    <3> DEFINE c == running[t]
    <3>1. c \in Calls /\ at[c] = "get" /\ at' = [at EXCEPT ![c] = "test"]
          /\ UNCHANGED <<quit, owner>>
      BY <1>2, <2>5 DEF GetNull, Stands, Move, ending
    <3>2. stolen' = stolen + IF c \in quit THEN 0 ELSE 1
      BY <2>5 DEF GetNull
    <3>3. Cardinality(NullPackets)' = Cardinality(NullPackets) - 1
      BY <1>1, <1>2, <2>5, NullsTail, NullsOfPort DEF GetNull
    <3> HIDE DEF c
    <3>4. Stranded' = Stranded \ {c} /\ (c \in Stranded <=> c \in quit)
      BY <1>2, <3>1 DEF Stranded
    <3>5. Cardinality(Stranded)' =
            Cardinality(Stranded) - IF c \in quit THEN 1 ELSE 0
      <4>1. Cardinality(Stranded \ {c}) =
              IF c \in Stranded THEN Cardinality(Stranded) - 1
                                ELSE Cardinality(Stranded)
        BY <1>1, FS_RemoveElement
      <4>2. QED
        BY <1>1, <3>4, <4>1
    <3>6. QED
      BY <1>1, <3>1, <3>2, <3>3, <3>5 DEF WakesSuffice
  <2>6. CASE GetPacket(t)
    <3>1. Stranded' \subseteq Stranded
      BY <1>2, <2>6 DEF GetPacket, Move, Stranded, ending
    <3>2. Cardinality(NullPackets)' = Cardinality(NullPackets)
      BY <1>1, <1>2, <2>6, NullsTail, NullsOfPort DEF GetPacket
    <3>3. Room' = Room /\ owner' = owner
      BY <2>6, <3>2 DEF GetPacket, Room, ending
    <3>4. QED
      BY <3>1, <3>3, NobodyStranded
  <2>7. QED
    BY <1>9, <2>1, <2>2, <2>3, <2>4, <2>5, <2>6 DEF Thread
<1>10. CASE UNCHANGED vars
  BY <1>3, <1>10 DEF vars, iocp, ending, Stranded
<1>11. QED
  BY <1>4, <1>5, <1>6, <1>7, <1>8, <1>9, <1>10 DEF Next, Destructor

\* However the handlers share the null packets of the destructor
\* (TcpThreadServer.cpp:45-52), one that has to quit is left waiting only if
\* its packet went to one that had not to quit yet.
THEOREM WakesAll == Spec => []WakesSuffice
<1>1. Init => WakesSuffice
  <2> SUFFICES ASSUME Init PROVE WakesSuffice
    OBVIOUS
  <2>1. Stranded = {}
    BY DEF Init, Stranded
  <2>2. Rest
    BY LifeInit, RestOfLife
  <2>3. Room \in Nat
    BY <2>2, CountsAreNat
  <2>4. QED
    BY <2>1, <2>3, FS_EmptySet DEF WakesSuffice, Room
<1>2. LifeInv /\ WakesSuffice /\ [Next]_vars => LifeInv' /\ WakesSuffice'
  <2> SUFFICES ASSUME LifeInv, WakesSuffice, [Next]_vars
               PROVE  LifeInv' /\ WakesSuffice'
    OBVIOUS
  <2>1. Pool!TypeOK /\ Rest
    BY RestOfLife DEF LifeInv, TypeOK
  <2>2. LifeInv' /\ Rest'
    BY <2>1, LifeStep, RestStays
  <2>3. QED
    BY <2>1, <2>2, WakesStep
<1>3. QED
  BY LifeInit, <1>1, <1>2, PTL DEF Spec

-------------------------------------------------------------------------------
(* One thread of the pool alone, with callers that nothing holds back.     *)

(* The invariant is inductive: one lemma per conjunct of ThreadInv, one    *)
(* step per action.                                                        *)

\* The types of the fields of Thread, ThreadTask and Event.
LEMMA ThreadTypeStep ==
  ASSUME ThreadTypeOK, LocalQueueInv, [ThreadNext]_threadVars
  PROVE  ThreadTypeOK'
<1> USE DEF ThreadTypeOK, LocalQueueInv, CallerStates, WorkerStates,
            OwnerStates, MemoryStates, flags, queues
<1>1. ASSUME NEW c \in Tasks, FindTask(c) PROVE ThreadTypeOK'
  BY <1>1 DEF FindTask
<1>2. ASSUME NEW c \in Tasks, Push(c) PROVE ThreadTypeOK'
  BY <1>2 DEF Push
<1>3. ASSUME NEW c \in Tasks, SignalThread(c) PROVE ThreadTypeOK'
  BY <1>3 DEF SignalThread, Signal, Released
<1>4. ASSUME NEW c \in Tasks, CallerFault(c) PROVE ThreadTypeOK'
  BY <1>4 DEF CallerFault
<1>5. CASE LoopTest
  BY <1>5 DEF LoopTest
<1>6. CASE NullTest
  BY <1>6 DEF NullTest
<1>7. CASE StatTest
  BY <1>7 DEF StatTest
<1>8. CASE WaitEvent
  BY <1>8 DEF WaitEvent
<1>9. CASE ResetEvent
  BY <1>9 DEF ResetEvent
<1>10. CASE EnterExecute
  BY <1>10 DEF EnterExecute
<1>11. CASE SwapQueues
  BY <1>11 DEF SwapQueues
<1>12. CASE TakeCallback
  BY <1>12 DEF TakeCallback
<1>13. CASE CallbackReturns
  BY <1>13 DEF CallbackReturns
<1>14. CASE LeaveExecute
  BY <1>14 DEF LeaveExecute
<1>15. CASE WorkerFault
  BY <1>15 DEF WorkerFault
<1>16. CASE BeginQuit
  BY <1>16 DEF BeginQuit
<1>17. CASE SetTaskQuit
  BY <1>17 DEF SetTaskQuit
<1>18. CASE JoinEvent
  BY <1>18 DEF JoinEvent
<1>19. CASE JoinTimeout
  BY <1>19 DEF JoinTimeout
<1>20. CASE JoinReset
  BY <1>20 DEF JoinReset
<1>21. CASE QuitSignal
  BY <1>21 DEF QuitSignal, Released
<1>22. CASE DeleteTask
  BY <1>22 DEF DeleteTask
<1>23. CASE ClearTask
  BY <1>23 DEF ClearTask
<1>24. CASE DeleteThread
  BY <1>24 DEF DeleteThread
<1>25. CASE ClearSlot
  BY <1>25 DEF ClearSlot
<1>26. CASE UNCHANGED threadVars
  BY <1>26 DEF threadVars
<1>27. QED
  BY <1>1, <1>2, <1>3, <1>4, <1>5, <1>6, <1>7, <1>8, <1>9, <1>10, <1>11,
     <1>12, <1>13, <1>14, <1>15, <1>16, <1>17, <1>18, <1>19, <1>20, <1>21,
     <1>22, <1>23, <1>24, <1>25, <1>26
  DEF ThreadNext, Caller, Worker, Owner

\* Execute ends with its local queue empty, and Run never starts on a callback.
LEMMA LocalQueueStep ==
  ASSUME ThreadTypeOK, LocalQueueInv, [ThreadNext]_threadVars
  PROVE  LocalQueueInv'
<1> USE DEF ThreadTypeOK, LocalQueueInv, WorkerStates, flags, queues
<1>1. ASSUME NEW c \in Tasks, FindTask(c) PROVE LocalQueueInv'
  BY <1>1 DEF FindTask
<1>2. ASSUME NEW c \in Tasks, Push(c) PROVE LocalQueueInv'
  BY <1>2 DEF Push
<1>3. ASSUME NEW c \in Tasks, SignalThread(c) PROVE LocalQueueInv'
  BY <1>3 DEF SignalThread, Signal, Released
<1>4. ASSUME NEW c \in Tasks, CallerFault(c) PROVE LocalQueueInv'
  BY <1>4 DEF CallerFault
<1>5. CASE LoopTest
  BY <1>5 DEF LoopTest
<1>6. CASE NullTest
  BY <1>6 DEF NullTest
<1>7. CASE StatTest
  BY <1>7 DEF StatTest
<1>8. CASE WaitEvent
  BY <1>8 DEF WaitEvent
<1>9. CASE ResetEvent
  BY <1>9 DEF ResetEvent
<1>10. CASE EnterExecute
  BY <1>10 DEF EnterExecute
<1>11. CASE SwapQueues
  BY <1>11 DEF SwapQueues
<1>12. CASE TakeCallback
  <2>1. Head(tmpQueue) \in Tasks
    BY <1>12 DEF TakeCallback
  <2>2. QED
    BY <1>12, <2>1, NoTaskAssumption DEF TakeCallback
<1>13. CASE CallbackReturns
  BY <1>13 DEF CallbackReturns
<1>14. CASE LeaveExecute
  BY <1>14 DEF LeaveExecute
<1>15. CASE WorkerFault
  BY <1>15 DEF WorkerFault
<1>16. CASE BeginQuit
  BY <1>16 DEF BeginQuit
<1>17. CASE SetTaskQuit
  BY <1>17 DEF SetTaskQuit
<1>18. CASE JoinEvent
  BY <1>18 DEF JoinEvent
<1>19. CASE JoinTimeout
  BY <1>19 DEF JoinTimeout
<1>20. CASE JoinReset
  BY <1>20 DEF JoinReset
<1>21. CASE QuitSignal
  BY <1>21 DEF QuitSignal, Released
<1>22. CASE DeleteTask
  BY <1>22 DEF DeleteTask
<1>23. CASE ClearTask
  BY <1>23 DEF ClearTask
<1>24. CASE DeleteThread
  BY <1>24 DEF DeleteThread
<1>25. CASE ClearSlot
  BY <1>25 DEF ClearSlot
<1>26. CASE UNCHANGED threadVars
  BY <1>26 DEF threadVars
<1>27. QED
  BY <1>1, <1>2, <1>3, <1>4, <1>5, <1>6, <1>7, <1>8, <1>9, <1>10, <1>11,
     <1>12, <1>13, <1>14, <1>15, <1>16, <1>17, <1>18, <1>19, <1>20, <1>21,
     <1>22, <1>23, <1>24, <1>25, <1>26
  DEF ThreadNext, Caller, Worker, Owner

\* Quit raises m_quit first and deletes last.
LEMMA QuitStep == QuitInv /\ [ThreadNext]_threadVars => QuitInv'
<1> SUFFICES ASSUME QuitInv, [ThreadNext]_threadVars
             PROVE  QuitInv'
  OBVIOUS
<1> USE DEF QuitInv, OwnerPastSignal, ThreadFreed, flags, queues
<1>1. ASSUME NEW c \in Tasks, FindTask(c) PROVE QuitInv'
  BY <1>1 DEF FindTask
<1>2. ASSUME NEW c \in Tasks, Push(c) PROVE QuitInv'
  BY <1>2 DEF Push
<1>3. ASSUME NEW c \in Tasks, SignalThread(c) PROVE QuitInv'
  BY <1>3 DEF SignalThread, Signal, Released
<1>4. ASSUME NEW c \in Tasks, CallerFault(c) PROVE QuitInv'
  BY <1>4 DEF CallerFault
<1>5. CASE LoopTest
  BY <1>5 DEF LoopTest
<1>6. CASE NullTest
  BY <1>6 DEF NullTest
<1>7. CASE StatTest
  BY <1>7 DEF StatTest
<1>8. CASE WaitEvent
  BY <1>8 DEF WaitEvent
<1>9. CASE ResetEvent
  BY <1>9 DEF ResetEvent
<1>10. CASE EnterExecute
  BY <1>10 DEF EnterExecute
<1>11. CASE SwapQueues
  BY <1>11 DEF SwapQueues
<1>12. CASE TakeCallback
  BY <1>12 DEF TakeCallback
<1>13. CASE CallbackReturns
  BY <1>13 DEF CallbackReturns
<1>14. CASE LeaveExecute
  BY <1>14 DEF LeaveExecute
<1>15. CASE WorkerFault
  BY <1>15 DEF WorkerFault
<1>16. CASE BeginQuit
  BY <1>16 DEF BeginQuit
<1>17. CASE SetTaskQuit
  BY <1>17 DEF SetTaskQuit
<1>18. CASE JoinEvent
  BY <1>18 DEF JoinEvent
<1>19. CASE JoinTimeout
  BY <1>19 DEF JoinTimeout
<1>20. CASE JoinReset
  BY <1>20 DEF JoinReset
<1>21. CASE QuitSignal
  BY <1>21 DEF QuitSignal, Released
<1>22. CASE DeleteTask
  BY <1>22 DEF DeleteTask
<1>23. CASE ClearTask
  BY <1>23 DEF ClearTask
<1>24. CASE DeleteThread
  BY <1>24 DEF DeleteThread
<1>25. CASE ClearSlot
  BY <1>25 DEF ClearSlot
<1>26. CASE UNCHANGED threadVars
  BY <1>26 DEF threadVars
<1>27. QED
  BY <1>1, <1>2, <1>3, <1>4, <1>5, <1>6, <1>7, <1>8, <1>9, <1>10, <1>11,
     <1>12, <1>13, <1>14, <1>15, <1>16, <1>17, <1>18, <1>19, <1>20, <1>21,
     <1>22, <1>23, <1>24, <1>25, <1>26
  DEF ThreadNext, Caller, Worker, Owner

\* What keeps the thread awake, whichever order the steps come in.
LEMMA WakeupStep ==
  ASSUME ThreadTypeOK, LocalQueueInv, QuitInv, WakeupInv,
         [ThreadNext]_threadVars
  PROVE  WakeupInv'
<1> USE DEF ThreadTypeOK, LocalQueueInv, QuitInv, WakeupInv, WakeupPending,
            OwnerPastSignal, ThreadFreed, TaskFreed, CallerStates,
            WorkerStates, OwnerStates, flags, queues
<1>1. ASSUME NEW c \in Tasks, FindTask(c) PROVE WakeupInv'
  BY <1>1 DEF FindTask
<1>2. ASSUME NEW c \in Tasks, Push(c) PROVE WakeupInv'
  BY <1>2 DEF Push
<1>3. ASSUME NEW c \in Tasks, SignalThread(c) PROVE WakeupInv'
  BY <1>3 DEF SignalThread, Signal, Released
<1>4. ASSUME NEW c \in Tasks, CallerFault(c) PROVE WakeupInv'
  BY <1>4 DEF CallerFault
<1>5. CASE LoopTest
  BY <1>5 DEF LoopTest
<1>6. CASE NullTest
  BY <1>6 DEF NullTest
<1>7. CASE StatTest
  BY <1>7 DEF StatTest
<1>8. CASE WaitEvent
  BY <1>8 DEF WaitEvent
<1>9. CASE ResetEvent
  BY <1>9 DEF ResetEvent
<1>10. CASE EnterExecute
  BY <1>10 DEF EnterExecute
<1>11. CASE SwapQueues
  BY <1>11 DEF SwapQueues
<1>12. CASE TakeCallback
  BY <1>12 DEF TakeCallback
<1>13. CASE CallbackReturns
  BY <1>13 DEF CallbackReturns
<1>14. CASE LeaveExecute
  BY <1>14 DEF LeaveExecute
<1>15. CASE WorkerFault
  BY <1>15 DEF WorkerFault
<1>16. CASE BeginQuit
  BY <1>16 DEF BeginQuit
<1>17. CASE SetTaskQuit
  BY <1>17 DEF SetTaskQuit
<1>18. CASE JoinEvent
  BY <1>18 DEF JoinEvent
<1>19. CASE JoinTimeout
  BY <1>19 DEF JoinTimeout
<1>20. CASE JoinReset
  BY <1>20 DEF JoinReset
<1>21. CASE QuitSignal
  BY <1>21 DEF QuitSignal, Released
<1>22. CASE DeleteTask
  BY <1>22 DEF DeleteTask
<1>23. CASE ClearTask
  BY <1>23 DEF ClearTask
<1>24. CASE DeleteThread
  BY <1>24 DEF DeleteThread
<1>25. CASE ClearSlot
  BY <1>25 DEF ClearSlot
<1>26. CASE UNCHANGED threadVars
  BY <1>26 DEF threadVars
<1>27. QED
  BY <1>1, <1>2, <1>3, <1>4, <1>5, <1>6, <1>7, <1>8, <1>9, <1>10, <1>11,
     <1>12, <1>13, <1>14, <1>15, <1>16, <1>17, <1>18, <1>19, <1>20, <1>21,
     <1>22, <1>23, <1>24, <1>25, <1>26
  DEF ThreadNext, Caller, Worker, Owner

LEMMA ThreadInitInv == ThreadInit => ThreadInv
<1> SUFFICES ASSUME ThreadInit PROVE ThreadInv
  OBVIOUS
<1> USE DEF ThreadInit
<1>1. ThreadTypeOK
  <2>1. <<>> \in Seq(Tasks)
    BY EmptySeq
  <2>2. caller \in [Tasks -> CallerStates]
    BY DEF CallerStates
  <2>3. QED
    BY <2>1, <2>2 DEF ThreadTypeOK, WorkerStates, OwnerStates, MemoryStates
<1>2. LocalQueueInv
  BY DEF LocalQueueInv
<1>3. QuitInv
  BY DEF QuitInv, OwnerPastSignal, ThreadFreed
<1>4. WakeupInv
  BY DEF WakeupInv, OwnerPastSignal
<1>5. QED
  BY <1>1, <1>2, <1>3, <1>4 DEF ThreadInv

\* The four conjuncts together, for the pool that may be destroyed.
THEOREM ThreadStays == ThreadSpec => []ThreadInv
<1>1. ThreadInv /\ [ThreadNext]_threadVars => ThreadInv'
  BY ThreadTypeStep, LocalQueueStep, QuitStep, WakeupStep DEF ThreadInv
<1>2. QED
  BY ThreadInitInv, <1>1, PTL DEF ThreadSpec

\* Every field of Thread, ThreadTask and Event keeps its type, teardown
\* included.
THEOREM ThreadTypes == ThreadSpec => []ThreadTypeOK
<1>1. ThreadInv => ThreadTypeOK
  BY DEF ThreadInv
<1>2. QED
  BY <1>1, ThreadStays, PTL

\* Thread::Run never sleeps on a callback that nobody will signal, for any
\* number of callers and wherever Quit stands (Thread.cpp:36-40, Event.cpp:5-7).
THEOREM NeverLosesWakeup == ThreadSpec => []NoLostWakeup
<1>1. ThreadInv => NoLostWakeup
  BY DEF ThreadInv, WakeupInv, WakeupPending, NoLostWakeup, OwnerPastSignal
<1>2. QED
  BY <1>1, ThreadStays, PTL

\* After Quit has signalled, Run sleeps no more (Thread.cpp:92).
THEOREM StaysAwakeAfterQuit == ThreadSpec => []AwakeAfterQuit
<1>1. ThreadInv => AwakeAfterQuit
  BY DEF ThreadInv, WakeupInv, AwakeAfterQuit
<1>2. QED
  BY <1>1, ThreadStays, PTL

\* What keeps the thread awake holds through every interleaving of callers,
\* thread and Quit (Event.cpp:3-13, Thread.cpp:36-40 and 85-97).
THEOREM KeepsAwake == ThreadSpec => []WakeupInv
<1>1. ThreadInv => WakeupInv
  BY DEF ThreadInv
<1>2. QED
  BY <1>1, ThreadStays, PTL

-------------------------------------------------------------------------------
(* The thread implements the serial executor, teardown included.  What the *)
(* refinement needs beyond ThreadInv is PushedInv: the queues hold only    *)
(* callbacks whose push was made.                                          *)

LEMMA StepCaller ==
  ASSUME ThreadTypeOK, Worker \/ Owner \/ UNCHANGED threadVars
  PROVE  caller' = caller
BY DEF Worker, LoopTest, NullTest, StatTest, WaitEvent, ResetEvent,
       EnterExecute, SwapQueues, TakeCallback, CallbackReturns, LeaveExecute,
       WorkerFault, Owner, BeginQuit, SetTaskQuit, JoinEvent, JoinTimeout,
       JoinReset, QuitSignal, DeleteTask, ClearTask, DeleteThread, ClearSlot,
       threadVars

\* A caller never goes back behind its push.
LEMMA PushedGrows ==
  ASSUME ThreadTypeOK, [ThreadNext]_threadVars
  PROVE  HasPushed \subseteq HasPushed'
<1> USE DEF HasPushed
<1>1. ASSUME NEW c \in Tasks, Caller(c)
      PROVE  HasPushed \subseteq HasPushed'
  BY <1>1 DEF ThreadTypeOK, CallerStates, Caller, FindTask, Push, SignalThread,
              CallerFault
<1>2. QED
  BY <1>1, StepCaller DEF ThreadNext

LEMMA PushedStep ==
  ThreadInv /\ PushedInv /\ [ThreadNext]_threadVars => PushedInv'
<1> SUFFICES ASSUME ThreadInv, PushedInv, [ThreadNext]_threadVars
             PROVE  PushedInv'
  OBVIOUS
<1> ThreadTypeOK /\ LocalQueueInv
  BY DEF ThreadInv
<1>1. /\ callbackList \in Seq(HasPushed')
      /\ tmpQueue \in Seq(HasPushed')
      /\ called \in HasPushed' \cup {NoTask}
      /\ finished \in Seq(HasPushed')
  BY PushedGrows, SeqMonotonic DEF PushedInv
<1> USE DEF PushedInv, queues
<1>2. ASSUME NEW c \in Tasks, Push(c) PROVE PushedInv'
  <2>1. c \in HasPushed'
    BY <1>2 DEF Push, HasPushed, ThreadTypeOK
  <2>2. callbackList' \in Seq(HasPushed')
    BY <1>1, <1>2, <2>1, AppendProperties DEF Push
  <2>3. QED
    BY <1>1, <1>2, <2>2 DEF Push
<1>3. CASE SwapQueues
  BY <1>1, <1>3 DEF SwapQueues
<1>4. CASE TakeCallback
  BY <1>1, <1>4, HeadTailProperties DEF TakeCallback
<1>5. CASE CallbackReturns
  <2>1. called \in HasPushed'
    BY <1>1, <1>5 DEF CallbackReturns, LocalQueueInv
  <2>2. finished' \in Seq(HasPushed')
    BY <1>1, <1>5, <2>1, AppendProperties DEF CallbackReturns
  <2>3. QED
    BY <1>1, <1>5, <2>2 DEF CallbackReturns
<1>6. CASE DeleteTask
  BY <1>1, <1>6, EmptySeq DEF DeleteTask
<1>7. ASSUME UNCHANGED queues PROVE PushedInv'
  BY <1>1, <1>7
<1>8. QED
  BY <1>2, <1>3, <1>4, <1>5, <1>6, <1>7
  DEF ThreadNext, Caller, Worker, FindTask, SignalThread, CallerFault,
      LoopTest, NullTest, StatTest, WaitEvent, ResetEvent, EnterExecute,
      LeaveExecute, WorkerFault, Owner, BeginQuit, SetTaskQuit, JoinEvent,
      JoinTimeout, JoinReset, QuitSignal, ClearTask, DeleteThread, ClearSlot,
      threadVars

\* A callback that has not been pushed is in none of the queues.
LEMMA FoundIsNew ==
  ASSUME ThreadInv, PushedInv,
         NEW c \in Tasks, caller[c] = "found"
  PROVE  c \notin TQ!ElementsOf(tmpQueue \o callbackList) \cup {called}
                    \cup TQ!ElementsOf(finished)
<1>1. c \notin HasPushed
  BY DEF HasPushed
<1>2. /\ tmpQueue \o callbackList \in Seq(HasPushed)
      /\ finished \in Seq(HasPushed)
  BY ConcatProperties DEF PushedInv
<1>3. ASSUME NEW s \in Seq(HasPushed)
      PROVE  c \notin TQ!ElementsOf(s)
  BY <1>1, ElementOfSeq, LenProperties DEF TQ!ElementsOf
<1>4. c # called
  BY <1>1, NoTaskAssumption DEF PushedInv
<1>5. QED
  BY <1>2, <1>3, <1>4

\* The first callback of a non-empty local queue heads the two queues.
LEMMA ConcatHeadTail ==
  ASSUME NEW S, NEW s \in Seq(S), NEW t \in Seq(S), s # <<>>
  PROVE  /\ s \o t # <<>>
         /\ Head(s \o t) = Head(s)
         /\ Tail(s \o t) = Tail(s) \o t
  OBVIOUS

\* The first part of two queues is a prefix of both.
LEMMA ConcatPrefix ==
  ASSUME NEW S, NEW s \in Seq(S), NEW t \in Seq(S)
  PROVE  \E n \in 0 .. Len(s \o t) : s \o <<>> = SubSeq(s \o t, 1, n)
<1>1. Len(s) \in 0 .. Len(s \o t)
  OBVIOUS
<1>2. s \o <<>> = SubSeq(s \o t, 1, Len(s))
  OBVIOUS
<1>3. QED
  BY <1>1, <1>2

\* Every step of the thread, its callers and its owner is a step of TaskQueue
\* or a stutter.
LEMMA StepRefines ==
  ASSUME ThreadInv, PushedInv, [ThreadNext]_threadVars
  PROVE  [TQ!Next]_TQ!vars
<1> ThreadTypeOK /\ LocalQueueInv /\ QuitInv
  BY DEF ThreadInv
<1> USE DEF ThreadTypeOK, queues, flags
<1>1. ASSUME NEW c \in Tasks, Push(c) PROVE TQ!Accept(c)
  <2>1. (tmpQueue \o callbackList)' = Append(tmpQueue \o callbackList, c)
    BY <1>1 DEF Push
  <2>2. QED
    BY <1>1, <2>1, FoundIsNew DEF Push, TQ!Accept
<1>2. CASE SwapQueues
  <2>1. tmpQueue = <<>>
    BY <1>2 DEF SwapQueues, LocalQueueInv
  <2>2. (tmpQueue \o callbackList)' = tmpQueue \o callbackList
    BY <1>2, <2>1, ConcatEmptySeq DEF SwapQueues
  <2>3. UNCHANGED TQ!vars
    BY <1>2, <2>2 DEF SwapQueues, TQ!vars
  <2>4. QED
    BY <2>3
<1>3. CASE TakeCallback
  <2>1. TQ!Start
    BY <1>3, ConcatHeadTail DEF TakeCallback, LocalQueueInv, TQ!Start
  <2>2. QED
    BY <2>1 DEF TQ!Next
<1>4. CASE CallbackReturns
  <2>1. TQ!Finish
    BY <1>4 DEF CallbackReturns, LocalQueueInv, TQ!Finish
  <2>2. QED
    BY <2>1 DEF TQ!Next
<1>5. CASE BeginQuit
  <2>1. CASE threadQuit
    BY <1>5, <2>1 DEF BeginQuit, TQ!vars
  <2>2. CASE ~threadQuit
    BY <1>5, <2>2 DEF BeginQuit, TQ!Next, TQ!Close
  <2>3. QED
    BY <2>1, <2>2
<1>6. CASE DeleteTask
  <2>1. threadQuit
    BY <1>6 DEF DeleteTask, QuitInv
  <2>2. \E n \in 0 .. Len(tmpQueue \o callbackList) :
          tmpQueue \o <<>> = SubSeq(tmpQueue \o callbackList, 1, n)
    BY ConcatPrefix
  <2>3. TQ!Discard
    BY <1>6, <2>1, <2>2 DEF DeleteTask, TQ!Discard
  <2>4. QED
    BY <2>3 DEF TQ!Next
<1>7. ASSUME UNCHANGED <<queues, threadQuit>> PROVE UNCHANGED TQ!vars
  BY <1>7 DEF TQ!vars
<1>8. QED
  BY <1>1, <1>2, <1>3, <1>4, <1>5, <1>6, <1>7
  DEF ThreadNext, Caller, Worker, FindTask, SignalThread, CallerFault,
      LoopTest, NullTest, StatTest, WaitEvent, ResetEvent, EnterExecute,
      LeaveExecute, WorkerFault, Owner, SetTaskQuit, JoinEvent, JoinTimeout,
      JoinReset, QuitSignal, ClearTask, DeleteThread, ClearSlot, threadVars,
      TQ!Next

\* The thread calls every pushed callback at most once, one at a time, in the
\* order of the pushes, and loses none before Quit, whatever the number of
\* callers and whenever the pool is destroyed.
THEOREM ThreadImplementsQueue == ThreadSpec => ImplementsTaskQueue
<1>1. ThreadInit => ThreadInv /\ PushedInv
  BY ThreadInitInv DEF ThreadInit, PushedInv
<1>2. ThreadInv /\ PushedInv /\ [ThreadNext]_threadVars
        => (ThreadInv /\ PushedInv)'
  BY PushedStep, ThreadTypeStep, LocalQueueStep, QuitStep, WakeupStep
  DEF ThreadInv
<1>3. ThreadInit => TQ!Init
  BY DEF ThreadInit, TQ!Init
<1>4. ThreadInv /\ PushedInv /\ [ThreadNext]_threadVars => [TQ!Next]_TQ!vars
  BY StepRefines
<1>5. QED
  BY <1>1, <1>2, <1>3, <1>4, PTL DEF ThreadSpec, ImplementsTaskQueue, TQ!Spec
================================================================================

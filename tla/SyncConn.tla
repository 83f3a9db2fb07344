------------------------------- MODULE SyncConn -------------------------------
(***************************************************************************)
(* A synchronous SingleConnection (ConnectionPool.cpp): SendMsgSync from   *)
(* any number of threads, the answers that the thread of the TcpClient     *)
(* hands to OnRecvMsgSync, and CloseConnection.                            *)
(*                                                                         *)
(* The server (external) answers a request at any time or never, in any    *)
(* order, and its answer bears the orderid and the respondid of the        *)
(* request (LinkNetObj.cpp:121-128).  A caller's respondID is its thread.  *)
(***************************************************************************)
EXTENDS Integers

CONSTANTS Callers,   \* the threads that send
          MaxCalls,  \* bound: the calls each of them makes
          MaxOrder,  \* MAX_ORDER_ID, the largest value of the UINT m_orderID
          None       \* a null pointer

ASSUME CallsAssumption == MaxCalls \in Nat \ {0}
ASSUME OrderAssumption == MaxOrder \in Nat \ {0}

Orders   == 0 .. MaxOrder
Requests == [caller : Callers, call : 1 .. MaxCalls, order : Orders]

\* SyncMsgPairInfo: the request it was made for, whose caller is the respondID
\* and whose event it owns, and pRecvBuff.
Infos == [owner : Requests, buff : Requests \cup {None}]

ASSUME NoneAssumption == None \notin Requests \cup Infos

VARIABLES
  orderID,   \* m_orderID
  syncEvent, \* m_mapSyncEvent
  pc,        \* where each caller stands in SendMsgSync
  calls,     \* how many calls it has begun
  order,     \* the local orderID of its last call
  event,     \* the Event of its last call
  got,       \* the answer its last call returned with; None: it timed out
  given,     \* history: every request an orderID was drawn for
  wrapped,   \* history: m_orderID has come round
  asked,     \* the requests under way to the server or back
  answered,  \* the requests whose answer OnRecvMsgSync was called with
  closing,   \* where CloseConnection stands
  crashed    \* freed or null memory was followed, and the process ended

counter == <<orderID, given, wrapped>>
network == <<asked, answered>>
vars    == <<counter, network, syncEvent, pc, calls, order, event, got, closing,
             crashed>>

TypeOK ==
  /\ orderID \in Orders
  /\ syncEvent \in [Orders -> Infos \cup {None}]
  /\ pc \in [Callers -> {"idle", "increment", "register", "send", "wait", "look"}]
  /\ calls \in [Callers -> 0 .. MaxCalls]
  /\ order \in [Callers -> Orders]
  /\ event \in [Callers -> {"none", "unset", "set", "freed"}]
  /\ got \in [Callers -> Requests \cup {None}]
  /\ given \subseteq Requests
  /\ wrapped \in BOOLEAN
  /\ asked \subseteq Requests
  /\ answered \subseteq Requests
  /\ closing \in {"open", "cleared", "closed"}
  /\ crashed \in BOOLEAN

Init ==
  /\ orderID = 0 /\ given = {} /\ wrapped = FALSE
  /\ syncEvent = [o \in Orders |-> None]
  /\ pc = [c \in Callers |-> "idle"]
  /\ calls = [c \in Callers |-> 0]
  /\ order = [c \in Callers |-> 0]
  /\ event = [c \in Callers |-> "none"]
  /\ got = [c \in Callers |-> None]
  /\ asked = {} /\ answered = {}
  /\ closing = "open" /\ crashed = FALSE

\* The request of a caller's last call.
Req(c) == [caller |-> c, call |-> calls[c], order |-> order[c]]

Goto(c, from, to) ==
  /\ ~crashed /\ pc[c] = from
  /\ pc' = [pc EXCEPT ![c] = to]

-------------------------------------------------------------------------------
(* GetOrderID.                                                             *)

\* A call begins: the compare-and-exchange yields the number o.
Draw(c, o, to) ==
  /\ calls[c] < MaxCalls
  /\ Goto(c, "idle", to)
  /\ calls' = [calls EXCEPT ![c] = @ + 1]
  /\ order' = [order EXCEPT ![c] = o]
  /\ got'   = [got EXCEPT ![c] = None]
  /\ given' = given \cup {[caller |-> c, call |-> calls[c] + 1, order |-> o]}
  /\ UNCHANGED <<network, syncEvent, event, closing, crashed>>

ResetOrderID(c) ==
  /\ orderID = MaxOrder
  /\ Draw(c, 0, "register")
  /\ orderID' = 0 /\ wrapped' = TRUE

ReadOrderID(c) ==
  /\ orderID # MaxOrder
  /\ Draw(c, orderID, "increment")
  /\ UNCHANGED <<orderID, wrapped>>

\* m_orderID++ on the counter as it now is.
IncrementOrderID(c) ==
  /\ Goto(c, "increment", "register")
  /\ orderID' = (orderID + 1) % (MaxOrder + 1)
  /\ wrapped' = (wrapped \/ orderID = MaxOrder)
  /\ UNCHANGED <<given, network, syncEvent, calls, order, event, got, closing, crashed>>

-------------------------------------------------------------------------------
(* SendMsgSync, once it has an orderID.                                    *)

\* A new Event, and its entry in the map.  An entry that was there is leaked.
Register(c) ==
  /\ Goto(c, "register", "send")
  /\ event'     = [event EXCEPT ![c] = "unset"]
  /\ syncEvent' = [syncEvent EXCEPT ![order[c]] = [owner |-> Req(c), buff |-> None]]
  /\ UNCHANGED <<counter, network, calls, order, got, closing, crashed>>

\* SendMsgAsync: the request goes out, unless the connection is broken or has
\* been closed.
Send(c) ==
  /\ Goto(c, "send", "wait")
  /\ \/ closing # "closed" /\ asked' = asked \cup {Req(c)}
     \/ UNCHANGED asked
  /\ UNCHANGED <<counter, answered, syncEvent, calls, order, event, got, closing, crashed>>

Resume(c) ==
  /\ Goto(c, "wait", "look")
  /\ UNCHANGED <<counter, network, syncEvent, calls, order, event, got, closing, crashed>>

\* Event::Wait ends with the signal, or after SYNC_WAIT_TIME.
Woken(c)    == event[c] = "set" /\ Resume(c)
TimesOut(c) == Resume(c)

\* `delete info`: its event goes with it.
EventFreed(owner) ==
  event' = IF owner = Req(owner.caller) THEN [event EXCEPT ![owner.caller] = "freed"]
           ELSE event

\* Under m_mutexSyncEvent.  An entry without an answer stays; m_mapSyncEvent[]
\* of a number that has no entry is a null pointer.
Look(c) ==
  LET info == syncEvent[order[c]]
  IN  /\ info # None
      /\ Goto(c, "look", "idle")
      /\ got' = [got EXCEPT ![c] = info.buff]
      /\ IF info.buff = None THEN UNCHANGED <<syncEvent, event>>
         ELSE /\ syncEvent' = [syncEvent EXCEPT ![order[c]] = None]
              /\ EventFreed(info.owner)
      /\ UNCHANGED <<counter, network, calls, order, closing, crashed>>

\* The entry is gone; the event was freed while the caller waited; the client's
\* thread task was freed between SendMsgAsync's test and its use.
CallerFault(c) ==
  /\ ~crashed
  /\ \/ pc[c] = "look" /\ syncEvent[order[c]] = None
     \/ pc[c] = "wait" /\ event[c] = "freed"
     \/ pc[c] = "send" /\ closing = "closed"
  /\ crashed' = TRUE
  /\ UNCHANGED <<counter, network, syncEvent, pc, calls, order, event, got, closing>>

-------------------------------------------------------------------------------
(* OnRecvMsgSync, under m_mutexSyncEvent, on the thread of the client.     *)

Signal(owner) ==
  event' = IF owner = Req(owner.caller) THEN [event EXCEPT ![owner.caller] = "set"]
           ELSE event

Arrives(r) ==
  /\ ~crashed
  /\ r \in asked
  /\ asked'    = asked \ {r}
  /\ answered' = answered \cup {r}
  /\ UNCHANGED <<counter, pc, calls, order, got, closing, crashed>>

\* Mutant: an answer goes to any entry of its thread.
FitsThread(r, o) == syncEvent[o] # None /\ syncEvent[o].owner.caller = r.caller

\* The entry of the answer's orderid, if it is of the same thread.
Fits(r, o) == o = r.order /\ syncEvent[o] # None /\ syncEvent[o].owner.caller = r.caller

\* Mutants: the event is not signalled; the entry is taken out at once.
StoreSilently(r, o) ==
  /\ syncEvent' = [syncEvent EXCEPT ![o].buff = r]
  /\ UNCHANGED event

StoreAndErase(r, o) ==
  /\ syncEvent' = [syncEvent EXCEPT ![o] = None]
  /\ Signal(syncEvent[o].owner)

Store(r, o) ==
  /\ syncEvent' = [syncEvent EXCEPT ![o].buff = r]
  /\ Signal(syncEvent[o].owner)

OnRecvMsgSync(r) ==
  /\ Arrives(r)
  /\ \/ \E o \in Orders : Fits(r, o) /\ Store(r, o)
     \/ (\A o \in Orders : ~Fits(r, o)) /\ UNCHANGED <<syncEvent, event>>

-------------------------------------------------------------------------------
(* CloseConnection.                                                        *)

\* Under m_mutexSyncEvent.  The loop erases the entry its iterator is at and
\* then increments the iterator: the process ends, or the loop goes on and
\* deletes more entries, or stops.
ClearMap ==
  LET keys == {o \in Orders : syncEvent[o] # None}
  IN  /\ ~crashed /\ closing = "open"
      /\ closing' = "cleared"
      /\ \E gone \in SUBSET keys :
           /\ (gone = {}) = (keys = {})
           /\ syncEvent' = [o \in Orders |-> IF o \in gone THEN None ELSE syncEvent[o]]
           /\ event' = [c \in Callers |->
                IF \E o \in gone : syncEvent[o].owner = Req(c) THEN "freed" ELSE event[c]]
      /\ \/ UNCHANGED crashed
         \/ keys # {} /\ crashed' = TRUE
      /\ UNCHANGED <<counter, network, pc, calls, order, got>>

\* TcpClient::CloseAll.
CloseAll ==
  /\ ~crashed /\ closing = "cleared"
  /\ closing' = "closed"
  /\ UNCHANGED <<counter, network, syncEvent, pc, calls, order, event, got, crashed>>

-------------------------------------------------------------------------------
RegisterAndSend(c) == Register(c) \/ Send(c)

SendMsgSync(c) ==
  \/ ResetOrderID(c) \/ ReadOrderID(c) \/ IncrementOrderID(c)
  \/ RegisterAndSend(c) \/ Woken(c) \/ TimesOut(c) \/ Look(c) \/ CallerFault(c)

CloseConnection == ClearMap \/ CloseAll

Next ==
  \/ \E c \in Callers : SendMsgSync(c)
  \/ \E r \in asked : OnRecvMsgSync(r)
  \/ CloseConnection

Spec == Init /\ [][Next]_vars

\* A caller that is woken runs.
FairSpec == Spec /\ \A c \in Callers : WF_vars(Woken(c))

-------------------------------------------------------------------------------
(* Properties.                                                             *)

\* No other call has drawn the number of this one.
Unshared(c) == \A r \in given : r.order = order[c] => r = Req(c)

\* A call whose number is its own returns with its own answer or with none,
\* whatever answers come late and whatever else is called or closed
\* (ConnectionPool.cpp:180-196).
OwnAnswer ==
  \A c \in Callers :
    pc[c] = "idle" /\ calls[c] > 0 /\ Unshared(c) => got[c] \in {Req(c), None}

\* An answer that has come is still there when its caller looks, so that a call
\* times out only if its answer has not come (ConnectionPool.cpp:97-105).
AnswerIsKept ==
  \A c \in Callers :
    /\ pc[c] \in {"wait", "look"} /\ Req(c) \in answered
    /\ Unshared(c) /\ closing = "open"
    => syncEvent[order[c]] = [owner |-> Req(c), buff |-> Req(c)]

\* Nothing that was freed, and no null pointer, is followed as long as no two
\* calls have had the same number and the connection is not closed.
FaultNeedsSharing ==
  crashed => \/ closing # "open"
             \/ \E r, s \in given : r # s /\ r.order = s.order

\* Before the counter comes round a number is drawn twice only by calls that
\* race between the compare-and-exchange and the increment
\* (ConnectionPool.cpp:207-209).
FreshIds ==
  ~wrapped =>
    \A r \in given :
      /\ r.order <= orderID
      /\ r.order = orderID =>
           \E c \in Callers : pc[c] = "increment" /\ order[c] = orderID

\* A caller whose answer has come is woken by it, not by the timeout.
AnswerWakes ==
  \A c \in Callers :
    (pc[c] = "wait" /\ Req(c) \in answered /\ Unshared(c) /\ closing = "open")
      ~> (pc[c] # "wait" \/ ~Unshared(c) \/ closing # "open" \/ crashed)

-------------------------------------------------------------------------------
(* What these rest on.                                                     *)

\* Everything that is asked, answered or returned is a request that was given
\* a number, and is found under that number.
GivenInv ==
  /\ asked \subseteq given /\ answered \subseteq given
  /\ \A r \in given : r.call <= calls[r.caller]
  /\ \A c \in Callers : pc[c] # "idle" => Req(c) \in given
  /\ \A c \in Callers :
       got[c] # None => got[c] \in given /\ got[c].order = order[c]
  /\ \A o \in Orders : syncEvent[o] # None =>
       /\ syncEvent[o].owner.order = o
       /\ syncEvent[o].buff # None =>
            syncEvent[o].buff \in given /\ syncEvent[o].buff.order = o

\* No answer comes before the request was sent.
UnaskedInv ==
  \A c \in Callers : pc[c] \in {"increment", "register", "send"} =>
    Req(c) \notin asked \cup answered

\* The entry of a call whose number is its own is there until it looks, and its
\* event with it.
Kept(c) ==
  /\ pc[c] \in {"send", "wait", "look"} =>
       /\ syncEvent[order[c]] # None
       /\ syncEvent[order[c]].owner = Req(c)
       /\ Req(c) \in answered => syncEvent[order[c]].buff = Req(c)
  /\ pc[c] \in {"send", "wait"} => event[c] # "freed"

KeptInv == \A c \in Callers : Unshared(c) /\ closing = "open" => Kept(c)

IInv ==
  TypeOK /\ GivenInv /\ UnaskedInv /\ KeptInv /\ FaultNeedsSharing
================================================================================

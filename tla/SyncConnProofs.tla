---------------------------- MODULE SyncConnProofs ----------------------------
(* Theorems of SyncConn, for every number of callers, calls and order ids. *)
EXTENDS SyncConn, TLAPS

\* What Draw gives out is new: its call is beyond all that were given.
LEMMA DrawnRequest ==
  ASSUME TypeOK, NEW c \in Callers, calls[c] < MaxCalls, NEW o \in Orders
  PROVE  [caller |-> c, call |-> calls[c] + 1, order |-> o] \in Requests
  BY CallsAssumption DEF TypeOK, Requests

LEMMA TypeStep == TypeOK /\ GivenInv /\ [Next]_vars => TypeOK'
<1> SUFFICES ASSUME TypeOK, GivenInv, [Next]_vars PROVE TypeOK'
  OBVIOUS
<1> USE DEF TypeOK, counter, network, Goto
<1>0. 0 \in Orders /\ \A n \in Orders : (n + 1) % (MaxOrder + 1) \in Orders
  BY OrderAssumption, SMT DEF Orders
<1>1. ASSUME NEW c \in Callers, NEW o \in Orders, NEW to \in {"increment", "register"},
             Draw(c, o, to), orderID' \in Orders, wrapped' \in BOOLEAN
      PROVE  TypeOK'
  <2>1. [caller |-> c, call |-> calls[c] + 1, order |-> o] \in Requests
    BY <1>1, DrawnRequest DEF Draw
  <2> QED BY <1>1, <2>1, CallsAssumption DEF Draw
<1>2. ASSUME NEW c \in Callers, ResetOrderID(c) PROVE TypeOK'
  BY <1>0, <1>1, <1>2 DEF ResetOrderID
<1>3. ASSUME NEW c \in Callers, ReadOrderID(c) PROVE TypeOK'
  BY <1>1, <1>3 DEF ReadOrderID
<1>4. ASSUME NEW c \in Callers, IncrementOrderID(c) PROVE TypeOK'
  BY <1>0, <1>4 DEF IncrementOrderID
<1>5. ASSUME NEW c \in Callers, Register(c) PROVE TypeOK'
  <2>1. Req(c) \in Requests
    BY <1>5 DEF GivenInv, Register
  <2>2. [owner |-> Req(c), buff |-> None] \in Infos
    BY <2>1 DEF Infos
  <2> QED BY <1>5, <2>2 DEF Register
<1>6. ASSUME NEW c \in Callers, Send(c) PROVE TypeOK'
  <2>1. Req(c) \in Requests
    BY <1>6 DEF GivenInv, Send
  <2> QED BY <1>6, <2>1 DEF Send
<1>7. ASSUME NEW c \in Callers, Resume(c) PROVE TypeOK'
  BY <1>7 DEF Resume
<1>8. ASSUME NEW c \in Callers, Look(c) PROVE TypeOK'
  <2>1. syncEvent[order[c]] \in Infos
    BY <1>8 DEF Look
  <2>2. syncEvent[order[c]].buff \in Requests \cup {None}
    BY <2>1 DEF Infos
  <2>3. event' \in [Callers -> {"none", "unset", "set", "freed"}]
    BY <1>8 DEF Look, EventFreed
  <2>4. syncEvent' \in [Orders -> Infos \cup {None}]
    BY <1>8 DEF Look
  <2> QED BY <1>8, <2>2, <2>3, <2>4 DEF Look
<1>9. ASSUME NEW c \in Callers, CallerFault(c) PROVE TypeOK'
  BY <1>9 DEF CallerFault
<1>10. ASSUME NEW r \in asked, OnRecvMsgSync(r) PROVE TypeOK'
  <2>1. CASE UNCHANGED <<syncEvent, event>>
    BY <1>10, <2>1 DEF OnRecvMsgSync, Arrives
  <2>2. CASE \E o \in Orders : Fits(r, o) /\ Store(r, o)
    <3>1. PICK o \in Orders : Fits(r, o) /\ Store(r, o)
      BY <2>2
    <3>2. syncEvent[o] \in Infos
      BY <3>1 DEF Fits
    <3>3. [syncEvent[o] EXCEPT !.buff = r] \in Infos
      BY <3>2 DEF Infos
    <3>4. syncEvent' = [syncEvent EXCEPT ![o] = [syncEvent[o] EXCEPT !.buff = r]]
      BY <3>1 DEF Store
    <3>5. event' \in [Callers -> {"none", "unset", "set", "freed"}]
      BY <3>1 DEF Store, Signal
    <3> QED BY <1>10, <3>3, <3>4, <3>5 DEF OnRecvMsgSync, Arrives
  <2> QED BY <1>10, <2>1, <2>2 DEF OnRecvMsgSync
<1>11. CASE ClearMap
  BY <1>11 DEF ClearMap
<1>12. CASE CloseAll
  BY <1>12 DEF CloseAll
<1>13. CASE UNCHANGED vars
  BY <1>13 DEF vars
<1> QED
  BY <1>2, <1>3, <1>4, <1>5, <1>6, <1>7, <1>8, <1>9, <1>10, <1>11, <1>12, <1>13
  DEF Next, SendMsgSync, RegisterAndSend, Woken, TimesOut, CloseConnection

LEMMA TypeInit == Init => TypeOK
<1>1. 0 \in Orders /\ 0 \in 0 .. MaxCalls
  BY OrderAssumption, CallsAssumption DEF Orders
<1> SUFFICES ASSUME Init PROVE TypeOK
  OBVIOUS
<1>2. /\ syncEvent \in [Orders -> Infos \cup {None}]
      /\ got \in [Callers -> Requests \cup {None}]
  BY DEF Init
<1>3. calls \in [Callers -> 0 .. MaxCalls] /\ order \in [Callers -> Orders]
  BY <1>1 DEF Init
<1> QED BY <1>1, <1>2, <1>3 DEF Init, TypeOK

-------------------------------------------------------------------------------
(* What the steps do to the entries.                                       *)

LEMMA StoreEffect ==
  ASSUME TypeOK, NEW r \in Requests, NEW o \in Orders, Fits(r, o), Store(r, o)
  PROVE  /\ syncEvent'[o] # None
         /\ syncEvent'[o].owner = syncEvent[o].owner
         /\ syncEvent'[o].buff = r
         /\ \A p \in Orders \ {o} : syncEvent'[p] = syncEvent[p]
<1>1. syncEvent[o] \in Infos
  BY DEF TypeOK, Fits
<1>2. syncEvent' = [syncEvent EXCEPT ![o] = [syncEvent[o] EXCEPT !.buff = r]]
  BY DEF Store
<1>3. [syncEvent[o] EXCEPT !.buff = r] \in Infos
  BY <1>1 DEF Infos
<1>4. syncEvent'[o] = [syncEvent[o] EXCEPT !.buff = r]
  BY <1>2 DEF TypeOK
<1>5. syncEvent'[o] # None
  BY <1>3, <1>4, NoneAssumption
<1>6. /\ syncEvent'[o].owner = syncEvent[o].owner
      /\ syncEvent'[o].buff = r
  BY <1>1, <1>4 DEF Infos
<1>7. \A p \in Orders \ {o} : syncEvent'[p] = syncEvent[p]
  BY <1>2 DEF TypeOK
<1> QED BY <1>5, <1>6, <1>7

LEMMA RegisterEffect ==
  ASSUME TypeOK, NEW c \in Callers, Req(c) \in Requests, Register(c)
  PROVE  /\ syncEvent'[order[c]] = [owner |-> Req(c), buff |-> None]
         /\ \A p \in Orders \ {order[c]} : syncEvent'[p] = syncEvent[p]
         /\ syncEvent'[order[c]] # None
<1>1. [owner |-> Req(c), buff |-> None] \in Infos
  BY DEF Infos
<1> QED BY <1>1, NoneAssumption DEF Register, TypeOK

LEMMA GivenStep == TypeOK /\ GivenInv /\ [Next]_vars => GivenInv'
<1> SUFFICES ASSUME TypeOK, GivenInv, [Next]_vars PROVE GivenInv'
  OBVIOUS
<1>t. TypeOK'
  BY TypeStep
<1> USE DEF counter, network, Goto
<1>1. ASSUME NEW c \in Callers, NEW o \in Orders, NEW to \in {"increment", "register"},
             Draw(c, o, to)
      PROVE  GivenInv'
  <2> DEFINE new == [caller |-> c, call |-> calls[c] + 1, order |-> o]
  <2>1. given' = given \cup {new}
    BY <1>1 DEF Draw
  <2>2. /\ asked' \subseteq given' /\ answered' \subseteq given'
    BY <1>1, <2>1 DEF Draw, GivenInv
  <2>3. \A r \in given' : r.call <= calls'[r.caller]
    BY <1>1, <2>1 DEF Draw, GivenInv, TypeOK, Requests
  <2>4. ASSUME NEW d \in Callers, pc'[d] # "idle" PROVE Req(d)' \in given'
    <3>1. CASE d = c
      BY <1>1, <2>1, <3>1 DEF Draw, Req, TypeOK
    <3>2. CASE d # c
      BY <1>1, <2>1, <2>4, <3>2 DEF Draw, Req, TypeOK, GivenInv
    <3> QED BY <3>1, <3>2
  <2>5. \A d \in Callers :
          got'[d] # None => got'[d] \in given' /\ got'[d].order = order'[d]
    BY <1>1, <2>1 DEF Draw, GivenInv, TypeOK
  <2>6. \A p \in Orders : syncEvent'[p] # None =>
          /\ syncEvent'[p].owner.order = p
          /\ syncEvent'[p].buff # None =>
               syncEvent'[p].buff \in given' /\ syncEvent'[p].buff.order = p
    BY <1>1, <2>1 DEF Draw, GivenInv
  <2> QED BY <2>2, <2>3, <2>4, <2>5, <2>6 DEF GivenInv
<1>2. ASSUME NEW c \in Callers, ResetOrderID(c) PROVE GivenInv'
  BY <1>1, <1>2, OrderAssumption DEF ResetOrderID, Orders
<1>3. ASSUME NEW c \in Callers, ReadOrderID(c) PROVE GivenInv'
  BY <1>1, <1>3 DEF ReadOrderID, TypeOK
<1>4. ASSUME NEW c \in Callers, IncrementOrderID(c) PROVE GivenInv'
  BY <1>4 DEF IncrementOrderID, GivenInv, Req, TypeOK
<1>5. ASSUME NEW c \in Callers, Register(c) PROVE GivenInv'
  <2>1. Req(c) \in Requests /\ Req(c).order = order[c]
    BY <1>5 DEF GivenInv, Register, TypeOK, Req
  <2>2. \A p \in Orders : syncEvent'[p] # None =>
          /\ syncEvent'[p].owner.order = p
          /\ syncEvent'[p].buff # None =>
               syncEvent'[p].buff \in given' /\ syncEvent'[p].buff.order = p
    BY <1>5, <2>1, RegisterEffect DEF Register, GivenInv, TypeOK
  <2> QED BY <1>5, <2>2 DEF Register, GivenInv, Req, TypeOK
<1>6. ASSUME NEW c \in Callers, Send(c) PROVE GivenInv'
  BY <1>6 DEF Send, GivenInv, Req, TypeOK
<1>7. ASSUME NEW c \in Callers, Resume(c) PROVE GivenInv'
  BY <1>7 DEF Resume, GivenInv, Req, TypeOK
<1>8. ASSUME NEW c \in Callers, Look(c) PROVE GivenInv'
  <2>1. order[c] \in Orders /\ syncEvent[order[c]] # None
    BY <1>8 DEF Look, TypeOK
  <2>2. \A d \in Callers :
          got'[d] # None => got'[d] \in given' /\ got'[d].order = order'[d]
    BY <1>8, <2>1 DEF Look, GivenInv, TypeOK
  <2>3. \A p \in Orders : syncEvent'[p] # None => syncEvent'[p] = syncEvent[p]
    BY <1>8 DEF Look, TypeOK
  <2> QED BY <1>8, <2>2, <2>3 DEF Look, GivenInv, Req, TypeOK
<1>9. ASSUME NEW c \in Callers, CallerFault(c) PROVE GivenInv'
  BY <1>9 DEF CallerFault, GivenInv, Req
<1>10. ASSUME NEW r \in asked, OnRecvMsgSync(r) PROVE GivenInv'
  <2>1. r \in Requests /\ r \in given
    BY <1>10 DEF TypeOK, GivenInv
  <2>2. \A p \in Orders : syncEvent'[p] # None =>
          /\ syncEvent'[p].owner.order = p
          /\ syncEvent'[p].buff # None =>
               syncEvent'[p].buff \in given' /\ syncEvent'[p].buff.order = p
    <3>1. CASE UNCHANGED <<syncEvent, event>>
      BY <1>10, <3>1 DEF OnRecvMsgSync, Arrives, GivenInv
    <3>2. ASSUME NEW o \in Orders, Fits(r, o), Store(r, o)
          PROVE  \A p \in Orders : syncEvent'[p] # None =>
                   /\ syncEvent'[p].owner.order = p
                   /\ syncEvent'[p].buff # None =>
                        syncEvent'[p].buff \in given /\ syncEvent'[p].buff.order = p
      BY <2>1, <3>2, StoreEffect DEF GivenInv, Fits
    <3> QED BY <1>10, <3>1, <3>2 DEF OnRecvMsgSync, Arrives
  <2> QED BY <1>10, <2>1, <2>2 DEF OnRecvMsgSync, Arrives, GivenInv, Req
<1>11. CASE ClearMap
  BY <1>11 DEF ClearMap, GivenInv, Req, TypeOK
<1>12. CASE CloseAll
  BY <1>12 DEF CloseAll, GivenInv, Req
<1>13. CASE UNCHANGED vars
  BY <1>13 DEF vars, GivenInv, Req
<1> QED
  BY <1>2, <1>3, <1>4, <1>5, <1>6, <1>7, <1>8, <1>9, <1>10, <1>11, <1>12, <1>13
  DEF Next, SendMsgSync, RegisterAndSend, Woken, TimesOut, CloseConnection

LEMMA UnaskedStep ==
  TypeOK /\ GivenInv /\ UnaskedInv /\ [Next]_vars => UnaskedInv'
<1> SUFFICES ASSUME TypeOK, GivenInv, UnaskedInv, [Next]_vars PROVE UnaskedInv'
  OBVIOUS
<1> USE DEF counter, network, Goto
<1>1. ASSUME NEW c \in Callers, NEW o \in Orders, NEW to \in {"increment", "register"},
             Draw(c, o, to)
      PROVE  UnaskedInv'
  <2> SUFFICES ASSUME NEW d \in Callers, pc'[d] \in {"increment", "register", "send"}
               PROVE  Req(d)' \notin asked' \cup answered'
    BY DEF UnaskedInv
  <2>1. CASE d # c
    BY <1>1, <2>1 DEF Draw, Req, TypeOK, UnaskedInv
  <2>2. CASE d = c
    <3>1. Req(d)'.caller = c /\ Req(d)'.call = calls[c] + 1
      BY <1>1, <2>2 DEF Draw, Req, TypeOK
    <3>2. \A r \in asked \cup answered : r.call <= calls[r.caller]
      BY DEF GivenInv
    <3>3. calls[c] \in Int
      BY CallsAssumption DEF TypeOK
    <3>4. Req(d)' \notin asked \cup answered
      BY <3>1, <3>2, <3>3
    <3> QED BY <1>1, <3>4 DEF Draw
  <2> QED BY <2>1, <2>2
<1>2. ASSUME NEW c \in Callers, ResetOrderID(c) PROVE UnaskedInv'
  BY <1>1, <1>2, OrderAssumption DEF ResetOrderID, Orders
<1>3. ASSUME NEW c \in Callers, ReadOrderID(c) PROVE UnaskedInv'
  BY <1>1, <1>3 DEF ReadOrderID, TypeOK
<1>4. ASSUME NEW c \in Callers, IncrementOrderID(c) PROVE UnaskedInv'
  BY <1>4 DEF IncrementOrderID, UnaskedInv, Req, TypeOK
<1>5. ASSUME NEW c \in Callers, Register(c) PROVE UnaskedInv'
  BY <1>5 DEF Register, UnaskedInv, Req, TypeOK
<1>6. ASSUME NEW c \in Callers, Send(c) PROVE UnaskedInv'
  <2> SUFFICES ASSUME NEW d \in Callers, pc'[d] \in {"increment", "register", "send"}
               PROVE  Req(d)' \notin asked' \cup answered'
    BY DEF UnaskedInv
  <2>1. d # c /\ pc[d] = pc'[d]
    BY <1>6 DEF Send, TypeOK
  <2>2. Req(d)' = Req(d) /\ Req(d) # Req(c)
    BY <1>6, <2>1 DEF Send, Req
  <2> QED BY <1>6, <2>1, <2>2 DEF Send, UnaskedInv
<1>7. ASSUME NEW c \in Callers, Resume(c) PROVE UnaskedInv'
  BY <1>7 DEF Resume, UnaskedInv, Req, TypeOK
<1>8. ASSUME NEW c \in Callers, Look(c) PROVE UnaskedInv'
  BY <1>8 DEF Look, UnaskedInv, Req, TypeOK
<1>9. ASSUME NEW c \in Callers, CallerFault(c) PROVE UnaskedInv'
  BY <1>9 DEF CallerFault, UnaskedInv, Req
<1>10. ASSUME NEW r \in asked, OnRecvMsgSync(r) PROVE UnaskedInv'
  BY <1>10 DEF OnRecvMsgSync, Arrives, UnaskedInv, Req
<1>11. CASE ClearMap
  BY <1>11 DEF ClearMap, UnaskedInv, Req
<1>12. CASE CloseAll
  BY <1>12 DEF CloseAll, UnaskedInv, Req
<1>13. CASE UNCHANGED vars
  BY <1>13 DEF vars, UnaskedInv, Req
<1> QED
  BY <1>2, <1>3, <1>4, <1>5, <1>6, <1>7, <1>8, <1>9, <1>10, <1>11, <1>12, <1>13
  DEF Next, SendMsgSync, RegisterAndSend, Woken, TimesOut, CloseConnection

-------------------------------------------------------------------------------
(* The entry of a call whose number is its own.                            *)

\* Two calls under way with one number share it.
LEMMA SharedByBoth ==
  ASSUME TypeOK, GivenInv, NEW c \in Callers, NEW d \in Callers,
         c # d, pc[d] # "idle", order[c] = order[d]
  PROVE  ~Unshared(c)
<1>1. Req(d) \in given /\ Req(d).order = order[c] /\ Req(d) # Req(c)
  BY DEF GivenInv, Req
<1> QED BY <1>1 DEF Unshared

\* A number that is shared stays shared.
LEMMA UnsharedBefore ==
  ASSUME NEW c \in Callers, given \subseteq given', Req(c)' = Req(c),
         order'[c] = order[c], Unshared(c)'
  PROVE  Unshared(c)
  BY DEF Unshared

LEMMA KeptStep ==
  TypeOK /\ GivenInv /\ UnaskedInv /\ KeptInv /\ [Next]_vars => KeptInv'
<1> SUFFICES ASSUME TypeOK, GivenInv, UnaskedInv, KeptInv, [Next]_vars
             PROVE  KeptInv'
  OBVIOUS
<1> USE DEF counter, network, Goto
<1> SUFFICES ASSUME NEW c \in Callers, Unshared(c)', closing' = "open"
             PROVE  Kept(c)'
  BY DEF KeptInv
\* A step of another caller, or of the network, that leaves the call alone.
<1>a. ASSUME given \subseteq given', Req(c)' = Req(c), order'[c] = order[c],
             closing = "open"
      PROVE  Unshared(c) /\ Kept(c)
  BY <1>a, UnsharedBefore DEF KeptInv
<1>1. ASSUME NEW d \in Callers, NEW o \in Orders, NEW to \in {"increment", "register"},
             Draw(d, o, to)
      PROVE  Kept(c)'
  <2>1. CASE d = c
    BY <1>1, <2>1 DEF Draw, TypeOK, Kept
  <2>2. CASE d # c
    BY <1>1, <1>a, <2>2 DEF Draw, TypeOK, Kept, Req
  <2> QED BY <2>1, <2>2
<1>2. ASSUME NEW d \in Callers, ResetOrderID(d) PROVE Kept(c)'
  BY <1>1, <1>2, OrderAssumption DEF ResetOrderID, Orders
<1>3. ASSUME NEW d \in Callers, ReadOrderID(d) PROVE Kept(c)'
  BY <1>1, <1>3 DEF ReadOrderID, TypeOK
<1>4. ASSUME NEW d \in Callers, IncrementOrderID(d) PROVE Kept(c)'
  BY <1>a, <1>4 DEF IncrementOrderID, Kept, Req, TypeOK
<1>5. ASSUME NEW d \in Callers, Register(d) PROVE Kept(c)'
  <2>1. Req(d) \in Requests
    BY <1>5 DEF GivenInv, Register, TypeOK
  <2>2. Unshared(c) /\ Kept(c) /\ Req(c)' = Req(c)
    BY <1>a, <1>5 DEF Register, Req
  <2>3. CASE d = c
    <3>1. Req(c) \notin answered
      BY <1>5, <2>3 DEF Register, UnaskedInv
    <3>2. /\ syncEvent'[order[c]] # None
          /\ syncEvent'[order[c]].owner = Req(c)
      <4>1. /\ syncEvent'[order[d]] # None
            /\ syncEvent'[order[d]] = [owner |-> Req(d), buff |-> None]
        BY <1>5, <2>1, RegisterEffect
      <4> QED BY <2>3, <4>1
    <3> QED BY <1>5, <2>2, <2>3, <3>1, <3>2 DEF Register, Kept, TypeOK
  <2>4. CASE d # c
    <3>1. order[d] # order[c]
      BY <1>5, <2>2, <2>4, SharedByBoth DEF Register
    <3>2. syncEvent'[order[c]] = syncEvent[order[c]]
      BY <1>5, <2>1, <3>1, RegisterEffect DEF TypeOK
    <3> QED BY <1>5, <2>2, <2>4, <3>2 DEF Register, Kept, TypeOK
  <2> QED BY <2>3, <2>4
<1>6. ASSUME NEW d \in Callers, Send(d) PROVE Kept(c)'
  BY <1>a, <1>6 DEF Send, Kept, Req, TypeOK
<1>7. ASSUME NEW d \in Callers, Resume(d) PROVE Kept(c)'
  BY <1>a, <1>7 DEF Resume, Kept, Req, TypeOK
<1>8. ASSUME NEW d \in Callers, Look(d) PROVE Kept(c)'
  <2>1. Unshared(c) /\ Kept(c) /\ Req(c)' = Req(c)
    BY <1>a, <1>8 DEF Look, Req
  <2>2. CASE d = c
    BY <1>8, <2>2 DEF Look, Kept, TypeOK
  <2>3. CASE d # c
    <3>1. order[d] # order[c]
      BY <1>8, <2>1, <2>3, SharedByBoth DEF Look
    <3>2. syncEvent'[order[c]] = syncEvent[order[c]]
      BY <1>8, <3>1 DEF Look, TypeOK
    <3>3. syncEvent[order[d]].owner.order = order[d]
      BY <1>8 DEF Look, GivenInv, TypeOK
    <3>4. syncEvent[order[d]].owner # Req(c)
      BY <3>1, <3>3 DEF Req
    <3>5. event'[c] = event[c]
      BY <1>8, <3>4 DEF Look, EventFreed, TypeOK
    <3> QED BY <1>8, <2>1, <2>3, <3>2, <3>5 DEF Look, Kept, TypeOK
  <2> QED BY <2>2, <2>3
<1>9. ASSUME NEW d \in Callers, CallerFault(d) PROVE Kept(c)'
  BY <1>a, <1>9 DEF CallerFault, Kept, Req
<1>10. ASSUME NEW r \in asked, OnRecvMsgSync(r) PROVE Kept(c)'
  <2>1. Unshared(c) /\ Kept(c) /\ Req(c)' = Req(c)
    BY <1>a, <1>10 DEF OnRecvMsgSync, Arrives, Req
  <2>2. r \in given /\ r \in Requests
    BY <1>10 DEF GivenInv, TypeOK
  <2>3. CASE r = Req(c)
    <3>1. pc[c] \notin {"increment", "register", "send"}
      BY <2>3 DEF UnaskedInv
    <3>2. CASE pc[c] \in {"wait", "look"}
      <4>1. order[c] \in Orders /\ Fits(r, order[c])
        BY <2>1, <2>3, <3>2 DEF Kept, Fits, Req, TypeOK
      <4>2. Fits(r, order[c]) /\ Store(r, order[c])
        BY <1>10, <2>3, <4>1 DEF OnRecvMsgSync, Fits
      <4>3. /\ syncEvent'[order[c]] # None
            /\ syncEvent'[order[c]].owner = Req(c)
            /\ syncEvent'[order[c]].buff = r
        BY <2>1, <2>2, <3>2, <4>1, <4>2, StoreEffect DEF Kept
      <4>4. event'[c] # "freed"  \/ event'[c] = event[c]
        BY <4>2 DEF Store, Signal, TypeOK
      <4> QED BY <1>10, <2>1, <2>3, <4>3, <4>4 DEF OnRecvMsgSync, Arrives, Kept
    <3> QED BY <1>10, <3>1, <3>2 DEF OnRecvMsgSync, Arrives, Kept, TypeOK
  <2>4. CASE r # Req(c)
    <3>1. r.order # order[c]
      BY <2>1, <2>2, <2>4 DEF Unshared
    <3>2. syncEvent'[order[c]] = syncEvent[order[c]]
      BY <1>10, <3>1 DEF OnRecvMsgSync, Fits, Store, TypeOK
    <3>3. event'[c] # "freed" \/ event'[c] = event[c]
      BY <1>10 DEF OnRecvMsgSync, Store, Signal, TypeOK
    <3> QED BY <1>10, <2>1, <2>4, <3>2, <3>3 DEF OnRecvMsgSync, Arrives, Kept
  <2> QED BY <2>3, <2>4
<1>11. CASE ClearMap
  BY <1>11 DEF ClearMap
<1>12. CASE CloseAll
  BY <1>12 DEF CloseAll
<1>13. CASE UNCHANGED vars
  BY <1>13, <1>a DEF vars, Kept, Req
<1> QED
  BY <1>2, <1>3, <1>4, <1>5, <1>6, <1>7, <1>8, <1>9, <1>10, <1>11, <1>12, <1>13
  DEF Next, SendMsgSync, RegisterAndSend, Woken, TimesOut, CloseConnection

LEMMA FaultStep ==
  TypeOK /\ GivenInv /\ KeptInv /\ FaultNeedsSharing /\ [Next]_vars
    => FaultNeedsSharing'
<1> SUFFICES ASSUME TypeOK, GivenInv, KeptInv, FaultNeedsSharing, [Next]_vars,
                    crashed', closing' = "open"
             PROVE  \E r, s \in given' : r # s /\ r.order = s.order
  BY DEF FaultNeedsSharing
<1> USE DEF counter, network, Goto
<1>1. ASSUME NEW c \in Callers, CallerFault(c)
      PROVE  \E r, s \in given' : r # s /\ r.order = s.order
  <2>1. closing = "open" /\ given' = given
    BY <1>1 DEF CallerFault
  <2>2. ~Unshared(c)
    BY <1>1, <2>1 DEF CallerFault, KeptInv, Kept
  <2>3. Req(c) \in given /\ Req(c).order = order[c]
    BY <1>1 DEF CallerFault, GivenInv, Req
  <2>4. PICK r \in given : r.order = order[c] /\ r # Req(c)
    BY <2>2 DEF Unshared
  <2> QED BY <2>1, <2>3, <2>4
<1>2. CASE crashed /\ closing = "open" /\ given \subseteq given'
  BY <1>2 DEF FaultNeedsSharing
<1>3. ASSUME NEW c \in Callers,
             \/ ResetOrderID(c) \/ ReadOrderID(c) \/ IncrementOrderID(c)
             \/ Register(c) \/ Send(c) \/ Resume(c) \/ Look(c)
      PROVE  FALSE
  BY <1>3 DEF ResetOrderID, ReadOrderID, Draw, IncrementOrderID, Register, Send,
              Resume, Look, TypeOK
<1>4. ASSUME NEW r \in asked, OnRecvMsgSync(r) PROVE FALSE
  BY <1>4 DEF OnRecvMsgSync, Arrives
<1>5. ~ClearMap /\ ~CloseAll
  BY DEF ClearMap, CloseAll
<1>6. CASE UNCHANGED vars
  BY <1>2, <1>6 DEF vars
<1> QED
  BY <1>1, <1>3, <1>4, <1>5, <1>6
  DEF Next, SendMsgSync, RegisterAndSend, Woken, TimesOut, CloseConnection

-------------------------------------------------------------------------------
(* Theorems.                                                               *)

LEMMA InitIInv == Init => IInv
<1> SUFFICES ASSUME Init PROVE IInv
  OBVIOUS
<1>1. TypeOK
  BY TypeInit
<1>2. GivenInv
  BY DEF Init, GivenInv
<1>3. UnaskedInv
  BY DEF Init, UnaskedInv
<1>4. KeptInv
  BY DEF Init, KeptInv, Kept
<1>5. FaultNeedsSharing
  BY DEF Init, FaultNeedsSharing
<1> QED BY <1>1, <1>2, <1>3, <1>4, <1>5 DEF IInv

LEMMA IInvStep == IInv /\ [Next]_vars => IInv'
  BY TypeStep, GivenStep, UnaskedStep, KeptStep, FaultStep DEF IInv

THEOREM Inductive == Spec => []IInv
  BY InitIInv, IInvStep, PTL DEF Spec

\* SendMsgSync, OnRecvMsgSync and CloseConnection keep the types.
THEOREM TypeCorrect == Spec => []TypeOK
<1>1. IInv => TypeOK
  BY DEF IInv
<1> QED BY <1>1, Inductive, PTL

\* A call of SendMsgSync whose number no other call has drawn returns with its
\* own answer or times out.
THEOREM ReturnsOwnAnswer == Spec => []OwnAnswer
<1>1. IInv => OwnAnswer
  BY DEF IInv, GivenInv, OwnAnswer, Unshared
<1> QED BY <1>1, Inductive, PTL

\* An answer that OnRecvMsgSync was called with is in the entry until the
\* caller looks.
THEOREM KeepsAnswers == Spec => []AnswerIsKept
<1>1. IInv => AnswerIsKept
  <2> SUFFICES ASSUME IInv, NEW c \in Callers, pc[c] \in {"wait", "look"},
                      Req(c) \in answered, Unshared(c), closing = "open"
               PROVE  syncEvent[order[c]] = [owner |-> Req(c), buff |-> Req(c)]
    BY DEF AnswerIsKept
  <2>1. syncEvent[order[c]] \in Infos
    BY DEF IInv, KeptInv, Kept, TypeOK
  <2>2. /\ syncEvent[order[c]].owner = Req(c)
        /\ syncEvent[order[c]].buff = Req(c)
    BY DEF IInv, KeptInv, Kept
  <2> QED BY <2>1, <2>2 DEF Infos
<1> QED BY <1>1, Inductive, PTL

\* Without a shared number and without a close nothing that was freed is
\* followed, and no entry is missing.
THEOREM FaultsOnlyWhenShared == Spec => []FaultNeedsSharing
<1>1. IInv => FaultNeedsSharing
  BY DEF IInv
<1> QED BY <1>1, Inductive, PTL

-------------------------------------------------------------------------------
LEMMA FreshStep == TypeOK /\ FreshIds /\ [Next]_vars => FreshIds'
<1> SUFFICES ASSUME TypeOK, FreshIds, [Next]_vars, ~wrapped', NEW r \in given'
             PROVE  /\ r.order <= orderID'
                    /\ r.order = orderID' =>
                         \E c \in Callers : pc'[c] = "increment" /\ order'[c] = orderID'
  BY DEF FreshIds
<1> DEFINE Fresh == /\ r.order <= orderID'
                    /\ r.order = orderID' =>
                         \E c \in Callers : pc'[c] = "increment" /\ order'[c] = orderID'
<1> USE DEF counter, network, Goto
<1>n. /\ orderID \in Int /\ MaxOrder \in Int /\ orderID <= MaxOrder /\ 0 <= orderID
      /\ \A q \in given : q.order \in Int
  BY OrderAssumption DEF TypeOK, Orders, Requests
<1>1. ASSUME NEW c \in Callers, ReadOrderID(c) PROVE Fresh
  <2>1. pc'[c] = "increment" /\ order'[c] = orderID /\ orderID' = orderID
    BY <1>1 DEF ReadOrderID, Draw, TypeOK
  <2>2. CASE r \in given
    BY <1>1, <1>n, <2>1, <2>2 DEF ReadOrderID, FreshIds
  <2>3. CASE r.order = orderID
    BY <1>n, <2>1, <2>3
  <2> QED BY <1>1, <2>2, <2>3 DEF ReadOrderID, Draw
<1>2. ASSUME NEW c \in Callers, IncrementOrderID(c) PROVE Fresh
  <2>a. wrapped' = (wrapped \/ orderID = MaxOrder)
    BY <1>2 DEF IncrementOrderID
  <2>b. ~wrapped /\ orderID # MaxOrder
    BY <2>a, Zenon
  <2>c. r \in given
    BY <1>2 DEF IncrementOrderID
  <2>1. ~wrapped /\ orderID < MaxOrder /\ r \in given
    BY <1>n, <2>b, <2>c
  <2>2. orderID' = orderID + 1
    BY <1>2, <1>n, <2>1 DEF IncrementOrderID
  <2> QED BY <1>n, <2>1, <2>2 DEF FreshIds
<1>3. ASSUME NEW c \in Callers,
             ResetOrderID(c) \/ Register(c) \/ Send(c) \/ Resume(c) \/ Look(c)
      PROVE  Fresh
  <2>1. ~ResetOrderID(c)
    BY DEF ResetOrderID
  <2>2. /\ orderID' = orderID /\ given' = given /\ wrapped' = wrapped /\ order' = order
        /\ \A d \in Callers : pc[d] = "increment" => pc'[d] = "increment"
    BY <1>3, <2>1 DEF Register, Send, Resume, Look, TypeOK
  <2> QED BY <2>2 DEF FreshIds
<1>4. ASSUME \/ UNCHANGED <<counter, pc, order>>
             \/ UNCHANGED vars
      PROVE  Fresh
  BY <1>4 DEF vars, FreshIds
<1>5. ASSUME \/ \E c \in Callers : CallerFault(c)
             \/ \E q \in asked : OnRecvMsgSync(q)
             \/ CloseConnection
      PROVE  Fresh
  BY <1>4, <1>5 DEF CallerFault, OnRecvMsgSync, Arrives, CloseConnection, ClearMap, CloseAll
<1> QED
  BY <1>1, <1>2, <1>3, <1>4, <1>5
  DEF Next, SendMsgSync, RegisterAndSend, Woken, TimesOut

\* Until the counter comes round, GetOrderID gives a number twice only to calls
\* that race between its two atomic operations.
THEOREM GivesFreshIds == Spec => []FreshIds
<1>1. Init => FreshIds
  BY DEF Init, FreshIds
<1>2. IInv /\ FreshIds /\ [Next]_vars => FreshIds'
  BY FreshStep DEF IInv
<1> QED BY <1>1, <1>2, Inductive, PTL DEF Spec
================================================================================

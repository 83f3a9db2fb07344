--------------------------- MODULE ServerTableProofs ---------------------------
(***************************************************************************)
(* Proofs about ServerTable for any number of connections, socket numbers  *)
(* and handlers.  A socket number stays sound until a connection that had  *)
(* it is spoiled by one of the races: a connection of that number which    *)
(* has lost its context has left no trace in the maps and the handlers, so *)
(* that the next one with the number has them to itself.  The second part  *)
(* counts references and deletions.                                        *)
(***************************************************************************)
EXTENDS ServerTable, TLAPS

-------------------------------------------------------------------------------
(* The inductive invariant.                                                *)

\* The types, but for the ranges of ref and freed, which CountInv gives.
Typed ==
  /\ peer \in [Conns -> {"none", "open", "left"}]
  /\ recv \subseteq Conns /\ send \subseteq Conns
  /\ port \subseteq Jobs
  /\ accepted \in Conns \cup {None}
  /\ number \in [Conns -> Fds \cup {None}]
  /\ ref \in [Conns -> Int]
  /\ freed \in [Conns -> Nat]
  /\ list \in [Fds -> Conns \cup {None}]
  /\ linkMap \in [Fds -> Conns \cup {None}]
  /\ holders \in [Conns -> SUBSET (Owners \cup Handlers)]
  /\ task \in [Conns -> {"none", "queued", "linked", "ack", "dropLink", "done", "unlinked"}]
  /\ pc \in [Handlers -> Places]
  /\ job \in [Handlers -> Jobs \cup {NoJob}]
  /\ key \in [Handlers -> Fds \cup {None}]
  /\ link \in [Handlers -> Conns \cup {None}]
  /\ begun \subseteq Conns /\ spoiled \subseteq Conns

\* Nothing is known of a connection before it is accepted.
Unborn(c) ==
  /\ peer[c] = "none" /\ c \notin recv \cup send /\ freed[c] = 0 /\ task[c] = "none"
  /\ holders[c] = {} /\ accepted # c /\ c \notin spoiled \cup begun

\* A completion is of a connection that was accepted, and one that says that it
\* has ended is right.
Ends    == {"end", "lost", "unsent"}
Ending  == {"dead", "deadTest", "zero", "zeroTest", "error", "errorRelease", "errorTest"}
             \cup Removing

HandlerSound(h) == pc[h] # "wait" =>
  /\ job[h] \in Jobs /\ number[Conn(h)] # None
  /\ pc[h] \in Ending \/ (pc[h] = "taken" /\ job[h].kind = "end") => Broken(Conn(h))
  /\ pc[h] = "taken" => job[h].kind \in {"build", "end", "sent"}

Arrivals ==
  /\ \A c \in Conns : number[c] = None => Unborn(c)
  /\ \A c \in Conns : peer[c] = "none" => number[c] = None
  /\ \A j \in port : number[j.conn] # None /\ (j.kind \in Ends => Broken(j.conn))
  /\ \A h \in Handlers : HandlerSound(h)

\* There is one build request of a connection, and its task has not begun.
Requesting(h) == pc[h] = "taken" /\ job[h].kind = "build"

Requests ==
  /\ \A j \in port : j.kind = "build" => task[j.conn] = "none" /\ j.conn \notin recv
  /\ \A h \in Handlers : Requesting(h) =>
       /\ task[Conn(h)] = "none" /\ Conn(h) \notin recv
       /\ \A j \in port : j.kind = "build" => j.conn # Conn(h)
  /\ \A h, g \in Handlers : h # g /\ Requesting(h) /\ Requesting(g) => Conn(h) # Conn(g)
  /\ \A h \in Handlers : pc[h] = "repost" => task[Conn(h)] # "none"

\* The locals of a removal, and the connections that are being removed.
Linked == {"unlink", "unmap", "dropLink"}

Locals ==
  /\ \A h \in Handlers :
       /\ pc[h] \notin {"unmap", "dropLink", "delete"} => key[h] = None
       /\ key[h] # None => key[h] = number[Conn(h)]
       /\ link[h] # None <=> pc[h] \in Linked
       /\ link[h] # None => h \in holders[link[h]] /\ number[link[h]] = number[Conn(h)]
       /\ pc[h] \in Linked \cup {"delete"} => Conn(h) \in begun
  /\ \A h, g \in Handlers :
       h # g /\ pc[h] \in Linked \cup {"delete"} /\ pc[g] \in Linked \cup {"delete"}
         /\ Conn(h) = Conn(g) => Conn(h) \in spoiled

\* The entries of the maps, and the owners of a LinkNetObj.
Entries ==
  /\ \A n \in Fds : list[n] # None => number[list[n]] = n
  /\ \A n \in Fds : linkMap[n] # None => number[linkMap[n]] = n /\ "map" \in holders[linkMap[n]]
  /\ \A c \in Conns : task[c] \in {"none", "queued", "unlinked"} => holders[c] = {}
  /\ \A c \in Conns : task[c] \in {"linked", "ack", "dropLink"} => "task" \in holders[c]

\* No connection with that number was spoiled; none but c itself was.
Clean(n) == \A d \in spoiled : number[d] # n
Undisturbed(c) == \A d \in spoiled \ {c} : number[d] # number[c]

\* Neither a map nor a handler knows of d any more.
Gone(d) ==
  /\ \A n \in Fds : list[n] # d /\ linkMap[n] # d
  /\ \A h \in Handlers : link[h] # d
  /\ \A h \in Handlers : pc[h] # "wait" /\ Conn(h) = d => key[h] = None /\ link[h] = None

\* The context and the map own the LinkNetObj.
Kept(c) == {"map", "context"} \subseteq holders[c]

Numbers ==
  /\ \A c, d \in Conns : c # d /\ number[c] # None /\ number[c] = number[d] =>
       freed[c] > 0 \/ freed[d] > 0
  /\ \A d \in Conns : freed[d] > 0 /\ Clean(number[d]) => Gone(d)
  /\ \A c, d \in Conns :
       c # d /\ number[c] # None /\ number[c] = number[d] /\ freed[c] = 0 /\ Undisturbed(c)
         => Gone(d)

Lives ==
  /\ \A c \in Conns : freed[c] > 0 /\ Undisturbed(c) => peer[c] # "open"
  /\ \A c \in Conns :
       freed[c] = 0 /\ Undisturbed(c) /\ task[c] \notin {"none", "queued", "unlinked"} /\ ~Kept(c)
         => peer[c] # "open"

Order ==
  /\ \A c \in Conns :
       freed[c] = 0 /\ Clean(number[c]) /\ task[c] \in {"ack", "dropLink", "done"} =>
         \A n \in Fds : list[n] # c
  /\ \A c \in Conns :
       freed[c] = 0 /\ Clean(number[c]) /\ holders[c] # {} /\ c \notin begun =>
         Kept(c) /\ linkMap[number[c]] = c
  /\ \A h \in Handlers :
       pc[h] = "delete" /\ key[h] # None /\ Clean(key[h]) /\ holders[Conn(h)] # {} => Kept(Conn(h))

TableInv == Typed /\ Arrivals /\ Requests /\ Locals /\ Entries /\ Numbers /\ Lives /\ Order

-------------------------------------------------------------------------------
(* Types.                                                                  *)

\* The places between which a handler releases a reference, or tests it.
Releases == {<<"dead", "deadTest">>, <<"reposted", "release">>, <<"release", "wait">>,
             <<"zero", "zeroTest">>, <<"errorRelease", "errorTest">>}
LastTests == {<<"deadTest", "reposted">>, <<"zeroTest", "release">>, <<"errorTest", "wait">>}

LEMMA CountsTyped ==
  ASSUME Typed, NEW h, NEW n \in Int, Counts(h, n)
  PROVE  ref' \in [Conns -> Int]
<1>1. ref' = [c \in Conns |-> IF c = Conn(h) THEN ref[c] + n ELSE ref[c]]
  BY DEF Counts, Typed
<1>2. \A c \in Conns : ref[c] \in Int
  BY DEF Typed
<1>3. QED
  BY <1>1, <1>2

LEMMA DropTyped ==
  ASSUME Typed, NEW d, NEW holder, DropLink(d, holder)
  PROVE  holders' \in [Conns -> SUBSET (Owners \cup Handlers)] /\ freed' \in [Conns -> Nat]
<1>1. /\ holders' = [c \in Conns |-> IF c = d THEN holders[c] \ {holder} ELSE holders[c]]
      /\ \/ freed' = freed
         \/ freed' = [c \in Conns |-> IF c = d THEN freed[c] + 1 ELSE freed[c]]
  BY DEF DropLink, Typed
<1>2. \A c \in Conns : /\ freed[c] \in Nat /\ freed[c] + 1 \in Nat
                       /\ holders[c] \subseteq Owners \cup Handlers
  BY DEF Typed
<1>3. holders' \in [Conns -> SUBSET (Owners \cup Handlers)]
  BY <1>1, <1>2
<1>4. freed' \in [Conns -> Nat]
  BY <1>1, <1>2 DEF Typed
<1>5. QED
  BY <1>3, <1>4

LEMMA SocketTyped ==
  ASSUME Typed, NEW c \in Conns
  PROVE  Socket(c) \in Fds \cup {None}
BY DEF Socket, Typed

LEMMA TypedStep ==
  ASSUME Typed, Arrivals, [Next]_vars
  PROVE  Typed'
<1> USE NamesAssumption DEF network, tables, handler
<1>1. CASE UNCHANGED vars
  BY <1>1 DEF vars, Typed
<1>2. ASSUME NEW c \in Conns, PeerLeaves(c)
      PROVE  Typed'
  BY <1>2 DEF PeerLeaves, Typed
<1>3. ASSUME NEW c \in Conns, RecvCompletes(c)
      PROVE  Typed'
  BY <1>3 DEF RecvCompletes, Completed, Jobs, Kinds, Typed
<1>4. ASSUME NEW c \in Conns, SendCompletes(c)
      PROVE  Typed'
  BY <1>4 DEF SendCompletes, Completed, Jobs, Kinds, Typed
<1>5. ASSUME NEW c \in Conns, Accept(c)
      PROVE  Typed'
  <2>1. recv' \subseteq Conns
    BY <1>5 DEF Accept, Typed
  <2>2. port' \subseteq Jobs
    BY <1>5 DEF Accept, Completed, Jobs, Kinds, Typed
  <2>3. number' \in [Conns -> Fds \cup {None}]
    BY <1>5 DEF Accept, Typed
  <2>4. peer' \in [Conns -> {"none", "open", "left"}] /\ accepted' \in Conns \cup {None}
    BY <1>5 DEF Accept, Typed
  <2>5. UNCHANGED <<send, ref, freed, list, linkMap, holders, task, pc, job, key, link,
                    begun, spoiled>>
    BY <1>5 DEF Accept, tables, handler
  <2>6. QED
    BY <2>1, <2>2, <2>3, <2>4, <2>5 DEF Typed
<1>6. ASSUME NEW c \in Conns, AddLinkNetObj(c)
      PROVE  Typed'
  BY <1>6 DEF AddLinkNetObj, RunTask, DropLink, Owners, Typed
<1>7. ASSUME NEW c \in Conns, LeaveList(c)
      PROVE  Typed'
  BY <1>7 DEF LeaveList, RunTask, DropLink, Owners, Typed
<1>8. ASSUME NEW c \in Conns, SendBuildConnectAck(c)
      PROVE  Typed'
  BY <1>8 DEF SendBuildConnectAck, RunTask, DropLink, Owners, Typed
<1>9. ASSUME NEW c \in Conns, EndBuild(c)
      PROVE  Typed'
  BY <1>9 DEF EndBuild, RunTask, DropLink, Owners, Typed
<1>10. CASE EnterList \/ DropAccepted
  BY <1>10 DEF EnterList, DropAccepted, Socket, Typed
<1>11. ASSUME NEW h \in Handlers, Dequeue(h)
      PROVE  Typed'
  BY <1>11 DEF Dequeue, Goto, Aside, Counts, Conn, Places, Counting, Removing, Typed
<1>12. ASSUME NEW h \in Handlers, BeginCompletion(h)
      PROVE  Typed'
  <2>1. ref' \in [Conns -> Int]
    BY <1>12, CountsTyped DEF BeginCompletion
  <2>2. task' \in [Conns -> {"none", "queued", "linked", "ack", "dropLink", "done", "unlinked"}]
    BY <1>12 DEF BeginCompletion, Typed
  <2>3. pc' \in [Handlers -> Places]
    <3>1. pc[h] = "taken" /\ job[h] \in Jobs /\ job[h].kind # "lost" /\ job[h].kind # "unsent"
      BY <1>12 DEF BeginCompletion, Goto, Arrivals, HandlerSound
    <3>2. QED
      BY <1>12, <3>1 DEF BeginCompletion, Goto, Jobs, Kinds, Places, Counting, Typed
  <2>4. QED
    BY <1>12, <2>1, <2>2, <2>3 DEF BeginCompletion, Aside, Typed
<1>13. ASSUME NEW h \in Handlers, RePostRecv(h)
      PROVE  Typed'
  <2>1. ref' \in [Conns -> Int]
    BY <1>13, CountsTyped DEF RePostRecv, Typed
  <2>2. pc[h] = "repost" /\ Conn(h) \in Conns
    BY <1>13 DEF RePostRecv, Goto, Arrivals, HandlerSound, Conn, Jobs
  <2>3. recv' \subseteq Conns
    BY <1>13, <2>2 DEF RePostRecv, Typed
  <2>4. pc' \in [Handlers -> Places]
    BY <1>13, <2>2 DEF RePostRecv, Goto, Places, Counting, Typed
  <2>5. port' \subseteq Jobs
    BY <1>13, <2>2 DEF RePostRecv, Completed, Jobs, Kinds, Typed
  <2>6. QED
    BY <1>13, <2>1, <2>3, <2>4, <2>5 DEF RePostRecv, Aside, Typed
<1>14. ASSUME NEW h \in Handlers, HandleError(h)
      PROVE  Typed'
  <2>1. ref' \in [Conns -> Int]
    BY <1>14, CountsTyped DEF HandleError
  <2>2. QED
    BY <1>14, <2>1 DEF HandleError, Goto, Aside, Conn, Places, Counting, Removing, Typed
<1>15. ASSUME NEW h \in Handlers, NEW from, NEW to, Release(h, from, to),
             <<from, to>> \in Releases
      PROVE  Typed'
  <2>1. ref' \in [Conns -> Int]
    BY <1>15, CountsTyped DEF Release
  <2>2. QED
    BY <1>15, <2>1 DEF Release, Releases, Goto, Aside, Conn, Places, Counting, Removing,
                       Typed
<1>16. ASSUME NEW h \in Handlers, NEW from, NEW to, LastTest(h, from, to),
             <<from, to>> \in LastTests
      PROVE  Typed'
  BY <1>16 DEF LastTest, Goto, Aside, Places, Counting, Removing, LastTests, Typed
<1>17. ASSUME NEW h \in Handlers, GetLink(h)
      PROVE  Typed'
  <2>1. holders' \in [Conns -> SUBSET (Owners \cup Handlers)]
    BY <1>17 DEF GetLink, Typed
  <2>2. /\ pc' \in [Handlers -> Places] /\ key' \in [Handlers -> Fds \cup {None}]
        /\ link' \in [Handlers -> Conns \cup {None}]
    <3>1. Socket(Conn(h)) \in Fds \cup {None}
      BY <1>17, SocketTyped DEF GetLink, Arrivals, HandlerSound, Conn, Jobs
    <3>2. QED
      BY <1>17, <3>1 DEF GetLink, Goto, Places, Counting, Removing, Typed
  <2>3. begun' \subseteq Conns /\ spoiled' \subseteq Conns
    <3>1. Conn(h) \in Conns
      BY <1>17 DEF GetLink, Arrivals, HandlerSound, Conn, Jobs
    <3>2. QED
      BY <1>17, <3>1 DEF GetLink, Typed
  <2>4. QED
    BY <1>17, <2>1, <2>2, <2>3 DEF GetLink, Elsewhere, Typed
<1>18. ASSUME NEW h \in Handlers, Unlink(h)
      PROVE  Typed'
  <2>1. holders' \in [Conns -> SUBSET (Owners \cup Handlers)] /\ freed' \in [Conns -> Nat]
    BY <1>18, DropTyped DEF Unlink, Typed
  <2>2. pc' \in [Handlers -> Places] /\ key' \in [Handlers -> Fds \cup {None}]
        /\ link' \in [Handlers -> Conns \cup {None}] /\ linkMap' \in [Fds -> Conns \cup {None}]
    <3>1. Socket(Conn(h)) \in Fds \cup {None}
      BY <1>18, SocketTyped DEF Unlink, Goto, Arrivals, HandlerSound, Conn, Jobs
    <3>2. QED
      BY <1>18, <3>1 DEF Unlink, Goto, Places, Counting, Removing, Typed
  <2>3. QED
    BY <1>18, <2>1, <2>2 DEF Unlink, Elsewhere, Typed
<1>19. ASSUME NEW h \in Handlers, Unmap(h)
      PROVE  Typed'
  <2>1. holders' \in [Conns -> SUBSET (Owners \cup Handlers)] /\ freed' \in [Conns -> Nat]
    BY <1>19, DropTyped DEF Unmap, Typed
  <2>2. pc' \in [Handlers -> Places] /\ key' \in [Handlers -> Fds \cup {None}]
        /\ link' \in [Handlers -> Conns \cup {None}] /\ linkMap' \in [Fds -> Conns \cup {None}]
    BY <1>19 DEF Unmap, Goto, Removed, Socket, Places, Counting, Removing, Conn, Typed
  <2>3. QED
    BY <1>19, <2>1, <2>2 DEF Unmap, Elsewhere, Typed
<1>20. ASSUME NEW h \in Handlers, DisConnected(h)
      PROVE  Typed'
  <2>1. holders' \in [Conns -> SUBSET (Owners \cup Handlers)] /\ freed' \in [Conns -> Nat]
    BY <1>20, DropTyped DEF DisConnected, Typed
  <2>2. pc' \in [Handlers -> Places] /\ key' \in [Handlers -> Fds \cup {None}]
        /\ link' \in [Handlers -> Conns \cup {None}] /\ linkMap' \in [Fds -> Conns \cup {None}]
    BY <1>20 DEF DisConnected, Goto, Removed, Socket, Places, Counting, Removing, Conn,
                 Typed
  <2>3. QED
    BY <1>20, <2>1, <2>2 DEF DisConnected, Elsewhere, Typed
<1>21. ASSUME NEW h \in Handlers, DeleteSocketContext(h)
      PROVE  Typed'
  <2>1. /\ list' \in [Fds -> Conns \cup {None}] /\ freed' \in [Conns -> Nat]
        /\ holders' \in [Conns -> SUBSET (Owners \cup Handlers)]
    BY <1>21 DEF DeleteSocketContext, Typed
  <2>2. pc' \in [Handlers -> Places] /\ key' \in [Handlers -> Fds \cup {None}]
        /\ link' \in [Handlers -> Conns \cup {None}]
    BY <1>21 DEF DeleteSocketContext, Goto, Removed, Places, Counting, Removing, Typed
  <2>3. spoiled' \subseteq Conns
    <3>1. Conn(h) \in Conns
      BY <1>21 DEF DeleteSocketContext, Removed, Goto, Arrivals, HandlerSound,
                   Conn, Jobs
    <3>2. QED
      BY <1>21, <3>1 DEF DeleteSocketContext, Typed
  <2>4. QED
    BY <1>21, <2>1, <2>2, <2>3 DEF DeleteSocketContext, Elsewhere, Typed
<1>22. CASE Fault
  BY <1>22 DEF Fault, Typed
<1>23. QED
  BY <1>1, <1>2, <1>3, <1>4, <1>5, <1>6, <1>7, <1>8, <1>9, <1>10, <1>11, <1>12, <1>13,
     <1>14, <1>15, <1>16, <1>17, <1>18, <1>19, <1>20, <1>21, <1>22
  DEF Next, OnAsyncMsg, RemoveSocketContext, Execute, CountDown, Releases, LastTests

-------------------------------------------------------------------------------
(* What no step takes back.                                                *)

Grows ==
  /\ \A c \in Conns :
       /\ freed[c] > 0 => freed'[c] > 0
       /\ peer[c] = "left" => peer'[c] = "left"
       /\ number[c] # None => number'[c] = number[c] /\ (peer'[c] = "open" => peer[c] = "open")
  /\ spoiled \subseteq spoiled' /\ begun \subseteq begun'

LEMMA DropGrows ==
  ASSUME Typed, NEW d, NEW holder, DropLink(d, holder), NEW c \in Conns
  PROVE  /\ freed[c] > 0 => freed'[c] > 0
         /\ freed'[c] # freed[c] => c = d /\ holders[d] = {holder}
         /\ holders'[c] = IF c = d THEN holders[c] \ {holder} ELSE holders[c]
<1>1. freed[c] \in Nat /\ freed[c] + 1 > 0
  BY DEF Typed
<1>2. freed'[c] \in {freed[c], freed[c] + 1}
  BY DEF DropLink, Typed
<1>3. freed'[c] # freed[c] => c = d /\ holders[d] = {holder}
  BY DEF DropLink, Typed
<1>4. holders'[c] = IF c = d THEN holders[c] \ {holder} ELSE holders[c]
  BY DEF DropLink, Typed
<1>5. QED
  BY <1>1, <1>2, <1>3, <1>4

LEMMA DropOfNone ==
  ASSUME Typed, NEW d, NEW holder, DropLink(d, holder), NEW c \in Conns, holders[c] = {}
  PROVE  freed'[c] = freed[c] /\ holders'[c] = {}
<1>1. freed'[c] # freed[c] => c = d /\ holders[d] = {holder}
  BY DropGrows
<1>2. holders'[c] = IF c = d THEN holders[c] \ {holder} ELSE holders[c]
  BY DropGrows
<1>3. QED
  BY <1>1, <1>2

LEMMA StepGrows ==
  ASSUME Typed, Arrivals, [Next]_vars
  PROVE  Grows
<1> USE DEF network, tables, handler
<1>1. CASE UNCHANGED vars
  BY <1>1 DEF vars, Grows
<1>2. ASSUME NEW c \in Conns, PeerLeaves(c)
      PROVE  Grows
  BY <1>2 DEF PeerLeaves, Grows, Typed
<1>3. ASSUME NEW c \in Conns, RecvCompletes(c)
      PROVE  Grows
  BY <1>3 DEF RecvCompletes, Grows, Typed
<1>4. ASSUME NEW c \in Conns, SendCompletes(c)
      PROVE  Grows
  BY <1>4 DEF SendCompletes, Grows, Typed
<1>5. ASSUME NEW c \in Conns, Accept(c)
      PROVE  Grows
  BY <1>5 DEF Accept, Grows, Arrivals, Typed
<1>6. ASSUME NEW c \in Conns, AddLinkNetObj(c)
      PROVE  Grows
  BY <1>6 DEF AddLinkNetObj, RunTask, Grows, Typed
<1>7. ASSUME NEW c \in Conns, LeaveList(c)
      PROVE  Grows
  BY <1>7 DEF LeaveList, RunTask, Grows, Typed
<1>8. ASSUME NEW c \in Conns, SendBuildConnectAck(c)
      PROVE  Grows
  BY <1>8 DEF SendBuildConnectAck, RunTask, Grows, Typed
<1>9. ASSUME NEW c \in Conns, EndBuild(c)
      PROVE  Grows
  BY <1>9, DropGrows DEF EndBuild, RunTask, Grows, Typed
<1>10. CASE EnterList \/ DropAccepted
  BY <1>10 DEF EnterList, DropAccepted, Grows, Typed
<1>11. ASSUME NEW h \in Handlers, Execute(h)
      PROVE  Grows
  <2>1. UNCHANGED <<peer, number, freed, begun, spoiled>>
    BY <1>11 DEF Execute, CountDown, Dequeue, BeginCompletion, RePostRecv, HandleError,
                 Release, LastTest, Aside
  <2>2. QED
    BY <2>1 DEF Grows
<1>12. ASSUME NEW h \in Handlers, GetLink(h)
      PROVE  Grows
  BY <1>12 DEF GetLink, Elsewhere, Grows, Typed
<1>13. ASSUME NEW h \in Handlers, Unlink(h)
      PROVE  Grows
  BY <1>13, DropGrows DEF Unlink, Elsewhere, Removed, Grows, Typed
<1>14. ASSUME NEW h \in Handlers, Unmap(h)
      PROVE  Grows
  BY <1>14, DropGrows DEF Unmap, Elsewhere, Removed, Grows, Typed
<1>15. ASSUME NEW h \in Handlers, DisConnected(h)
      PROVE  Grows
  BY <1>15, DropGrows DEF DisConnected, Elsewhere, Removed, Grows, Typed
<1>16. ASSUME NEW h \in Handlers, DeleteSocketContext(h)
      PROVE  Grows
  <2>1. UNCHANGED <<peer, number, begun>> /\ spoiled \subseteq spoiled'
    BY <1>16 DEF DeleteSocketContext, Elsewhere
  <2>2. \A c \in Conns : freed'[c] \in {freed[c], freed[c] + 1, freed[c] + 2}
    BY <1>16 DEF DeleteSocketContext, Typed
  <2>3. \A c \in Conns : freed[c] > 0 => freed'[c] > 0
    BY <2>2 DEF Typed
  <2>4. QED
    BY <2>1, <2>3 DEF Grows
<1>17. CASE Fault
  BY <1>17 DEF Fault, Grows, Typed
<1>18. QED
  BY <1>1, <1>2, <1>3, <1>4, <1>5, <1>6, <1>7, <1>8, <1>9, <1>10, <1>11, <1>12, <1>13,
     <1>14, <1>15, <1>16, <1>17
  DEF Next, OnAsyncMsg, RemoveSocketContext

LEMMA BrokenStays ==
  ASSUME Typed, Arrivals, [Next]_vars, NEW c \in Conns, Broken(c)
  PROVE  Broken(c)'
BY StepGrows DEF Grows, Broken

-------------------------------------------------------------------------------
(* Arrivals and requests.                                                  *)

LEMMA JobParts ==
  ASSUME NEW j \in Jobs
  PROVE  j.conn \in Conns /\ j.kind \in Kinds
BY DEF Jobs

LEMMA HandlerConn ==
  ASSUME Typed, Arrivals, NEW h \in Handlers, pc[h] # "wait"
  PROVE  Conn(h) \in Conns /\ number[Conn(h)] # None /\ number[Conn(h)] \in Fds
         /\ job[h] \in Jobs
BY JobParts DEF Arrivals, HandlerSound, Conn, Typed

\* A step of h changes the place and the completion of no other handler.
LEMMA SoundElse ==
  ASSUME Typed, Arrivals, [Next]_vars, NEW g \in Handlers, pc'[g] = pc[g], job'[g] = job[g]
  PROVE  HandlerSound(g)'
<1> SUFFICES ASSUME pc[g] # "wait"
             PROVE  HandlerSound(g)'
  BY DEF HandlerSound
<1>1. HandlerSound(g) /\ Conn(g) \in Conns /\ Conn(g)' = Conn(g)
  BY HandlerConn DEF Arrivals, Conn
<1>2. number'[Conn(g)] # None
  BY <1>1, StepGrows DEF HandlerSound, Grows
<1>3. ASSUME Broken(Conn(g))
      PROVE  Broken(Conn(g))'
  <2> DEFINE c == Conn(g)
  <2>1. freed[c] > 0 \/ peer[c] = "left"
    BY <1>3 DEF Broken
  <2>2. freed'[c] > 0 \/ peer'[c] = "left"
    BY <1>1, <2>1, StepGrows DEF Grows
  <2>3. QED
    BY <1>1, <2>2 DEF Broken
<1>4. QED
  BY <1>1, <1>2, <1>3 DEF HandlerSound

LEMMA SoundStep ==
  ASSUME Typed, Arrivals, [Next]_vars
  PROVE  \A h \in Handlers : HandlerSound(h)'
<1> USE DEF network, tables, handler
<1>1. CASE UNCHANGED vars
  BY <1>1, SoundElse DEF vars
<1>2. ASSUME NEW c \in Conns, PeerLeaves(c)
      PROVE  \A g \in Handlers : HandlerSound(g)'
  BY <1>2, SoundElse DEF PeerLeaves
<1>3. ASSUME NEW c \in Conns, RecvCompletes(c)
      PROVE  \A g \in Handlers : HandlerSound(g)'
  BY <1>3, SoundElse DEF RecvCompletes
<1>4. ASSUME NEW c \in Conns, SendCompletes(c)
      PROVE  \A g \in Handlers : HandlerSound(g)'
  BY <1>4, SoundElse DEF SendCompletes
<1>5. ASSUME NEW c \in Conns, Accept(c)
      PROVE  \A g \in Handlers : HandlerSound(g)'
  BY <1>5, SoundElse DEF Accept
<1>6. ASSUME NEW c \in Conns, AddLinkNetObj(c)
      PROVE  \A g \in Handlers : HandlerSound(g)'
  BY <1>6, SoundElse DEF AddLinkNetObj, RunTask
<1>7. ASSUME NEW c \in Conns, LeaveList(c)
      PROVE  \A g \in Handlers : HandlerSound(g)'
  BY <1>7, SoundElse DEF LeaveList, RunTask
<1>8. ASSUME NEW c \in Conns, SendBuildConnectAck(c)
      PROVE  \A g \in Handlers : HandlerSound(g)'
  BY <1>8, SoundElse DEF SendBuildConnectAck, RunTask
<1>9. ASSUME NEW c \in Conns, EndBuild(c)
      PROVE  \A g \in Handlers : HandlerSound(g)'
  BY <1>9, SoundElse DEF EndBuild, RunTask
<1>10. CASE EnterList \/ DropAccepted
  BY <1>10, SoundElse DEF EnterList, DropAccepted
<1>11. ASSUME NEW h \in Handlers, Dequeue(h)
      PROVE  \A g \in Handlers : HandlerSound(g)'
  <2>1. \A g \in Handlers : g # h => pc'[g] = pc[g] /\ job'[g] = job[g]
    BY <1>11 DEF Dequeue, Typed
  <2>2. PICK j \in port : /\ job' = [job EXCEPT ![h] = j]
                          /\ pc' = [pc EXCEPT ![h] = IF j.kind \in {"lost", "unsent"} THEN "error"
                                                     ELSE "taken"]
    BY <1>11 DEF Dequeue
  <2>3. j \in Jobs /\ j.kind \in Kinds /\ j.conn \in Conns /\ job'[h] = j /\ Conn(h)' = j.conn
        /\ pc'[h] = IF j.kind \in {"lost", "unsent"} THEN "error" ELSE "taken"
    BY <2>2, JobParts DEF Typed, Conn
  <2>4. number'[j.conn] # None /\ (j.kind \in Ends => Broken(j.conn)')
    BY <2>3, StepGrows, BrokenStays DEF Arrivals, Grows
  <2>5. HandlerSound(h)'
    BY <2>3, <2>4 DEF HandlerSound, Ends, Ending, Removing, Kinds
  <2>6. QED
    BY <2>1, <2>5, SoundElse
<1>12. ASSUME NEW h \in Handlers, BeginCompletion(h)
      PROVE  \A g \in Handlers : HandlerSound(g)'
  <2>1. \A g \in Handlers : g # h => pc'[g] = pc[g] /\ job'[g] = job[g]
    BY <1>12 DEF BeginCompletion, Goto, Aside, Counts, Typed
  <2>2. job'[h] = job[h] /\ pc[h] # "wait"
    BY <1>12 DEF BeginCompletion, Goto, Aside, Counts, Releases, LastTests
  <2>3. Conn(h)' = Conn(h) /\ Conn(h) \in Conns /\ number'[Conn(h)] = number[Conn(h)]
        /\ number[Conn(h)] # None /\ job[h] \in Jobs
    BY <2>2, HandlerConn, StepGrows DEF Conn, Grows
  <2>4. ASSUME Broken(Conn(h))
        PROVE  Broken(Conn(h))'
    BY <2>3, <2>4, StepGrows DEF Broken, Grows
  <2>5. HandlerSound(h)
    BY DEF Arrivals
  <2>6. HandlerSound(h)'
    BY <1>12, <2>2, <2>3, <2>4, <2>5
    DEF BeginCompletion, Goto, Aside, Counts, HandlerSound, Ending, Removing,
        Places, Counting, Releases, LastTests, Typed
  <2>7. QED
    BY <2>1, <2>6, SoundElse
<1>13. ASSUME NEW h \in Handlers, RePostRecv(h)
      PROVE  \A g \in Handlers : HandlerSound(g)'
  <2>1. \A g \in Handlers : g # h => pc'[g] = pc[g] /\ job'[g] = job[g]
    BY <1>13 DEF RePostRecv, Goto, Aside, Counts, Typed
  <2>2. job'[h] = job[h] /\ pc[h] # "wait"
    BY <1>13 DEF RePostRecv, Goto, Aside, Counts, Releases, LastTests
  <2>3. Conn(h)' = Conn(h) /\ Conn(h) \in Conns /\ number'[Conn(h)] = number[Conn(h)]
        /\ number[Conn(h)] # None /\ job[h] \in Jobs
    BY <2>2, HandlerConn, StepGrows DEF Conn, Grows
  <2>4. ASSUME Broken(Conn(h))
        PROVE  Broken(Conn(h))'
    BY <2>3, <2>4, StepGrows DEF Broken, Grows
  <2>5. HandlerSound(h)
    BY DEF Arrivals
  <2>6. HandlerSound(h)'
    BY <1>13, <2>2, <2>3, <2>4, <2>5
    DEF RePostRecv, Goto, Aside, Counts, Broken, HandlerSound, Ending, Removing,
        Places, Counting, Releases, LastTests, Typed
  <2>7. QED
    BY <2>1, <2>6, SoundElse
<1>14. ASSUME NEW h \in Handlers, HandleError(h)
      PROVE  \A g \in Handlers : HandlerSound(g)'
  <2>1. \A g \in Handlers : g # h => pc'[g] = pc[g] /\ job'[g] = job[g]
    BY <1>14 DEF HandleError, Goto, Aside, Counts, Typed
  <2>2. job'[h] = job[h] /\ pc[h] # "wait"
    BY <1>14 DEF HandleError, Goto, Aside, Counts, Releases, LastTests
  <2>3. Conn(h)' = Conn(h) /\ Conn(h) \in Conns /\ number'[Conn(h)] = number[Conn(h)]
        /\ number[Conn(h)] # None /\ job[h] \in Jobs
    BY <2>2, HandlerConn, StepGrows DEF Conn, Grows
  <2>4. ASSUME Broken(Conn(h))
        PROVE  Broken(Conn(h))'
    BY <2>3, <2>4, StepGrows DEF Broken, Grows
  <2>5. HandlerSound(h)
    BY DEF Arrivals
  <2>6. HandlerSound(h)'
    BY <1>14, <2>2, <2>3, <2>4, <2>5
    DEF HandleError, Goto, Aside, Counts, HandlerSound, Ending, Removing,
        Places, Counting, Releases, LastTests, Typed
  <2>7. QED
    BY <2>1, <2>6, SoundElse
<1>15. ASSUME NEW h \in Handlers, NEW from, NEW to, Release(h, from, to),
             <<from, to>> \in Releases
      PROVE  \A g \in Handlers : HandlerSound(g)'
  <2>1. \A g \in Handlers : g # h => pc'[g] = pc[g] /\ job'[g] = job[g]
    BY <1>15 DEF Release, Goto, Aside, Counts, Typed
  <2>2. job'[h] = job[h] /\ pc[h] # "wait"
    BY <1>15 DEF Release, Goto, Aside, Counts, Releases, LastTests
  <2>3. Conn(h)' = Conn(h) /\ Conn(h) \in Conns /\ number'[Conn(h)] = number[Conn(h)]
        /\ number[Conn(h)] # None /\ job[h] \in Jobs
    BY <2>2, HandlerConn, StepGrows DEF Conn, Grows
  <2>4. ASSUME Broken(Conn(h))
        PROVE  Broken(Conn(h))'
    BY <2>3, <2>4, StepGrows DEF Broken, Grows
  <2>5. HandlerSound(h)
    BY DEF Arrivals
  <2>6. HandlerSound(h)'
    BY <1>15, <2>2, <2>3, <2>4, <2>5
    DEF Release, Goto, Aside, Counts, HandlerSound, Ending, Removing, Places, Counting,
        Releases, LastTests, Typed
  <2>7. QED
    BY <2>1, <2>6, SoundElse
<1>16. ASSUME NEW h \in Handlers, NEW from, NEW to, LastTest(h, from, to),
             <<from, to>> \in LastTests
      PROVE  \A g \in Handlers : HandlerSound(g)'
  <2>1. \A g \in Handlers : g # h => pc'[g] = pc[g] /\ job'[g] = job[g]
    BY <1>16 DEF LastTest, Goto, Aside, Typed
  <2>2. job'[h] = job[h] /\ pc[h] # "wait"
    BY <1>16 DEF LastTest, Goto, Aside, Releases, LastTests
  <2>3. Conn(h)' = Conn(h) /\ Conn(h) \in Conns /\ number'[Conn(h)] = number[Conn(h)]
        /\ number[Conn(h)] # None /\ job[h] \in Jobs
    BY <2>2, HandlerConn, StepGrows DEF Conn, Grows
  <2>4. ASSUME Broken(Conn(h))
        PROVE  Broken(Conn(h))'
    BY <2>3, <2>4, StepGrows DEF Broken, Grows
  <2>5. HandlerSound(h)
    BY DEF Arrivals
  <2>6. HandlerSound(h)'
    BY <1>16, <2>2, <2>3, <2>4, <2>5
    DEF LastTest, Goto, Aside, HandlerSound, Ending, Removing, Places, Counting,
        Releases, LastTests, Typed
  <2>7. QED
    BY <2>1, <2>6, SoundElse
<1>17. ASSUME NEW h \in Handlers, GetLink(h)
      PROVE  \A g \in Handlers : HandlerSound(g)'
  <2>1. \A g \in Handlers : g # h => pc'[g] = pc[g] /\ job'[g] = job[g]
    BY <1>17 DEF GetLink, Goto, Elsewhere, Removed, Typed
  <2>2. job'[h] = job[h] /\ pc[h] # "wait"
    BY <1>17 DEF GetLink, Goto, Elsewhere, Removed, Releases, LastTests
  <2>3. Conn(h)' = Conn(h) /\ Conn(h) \in Conns /\ number'[Conn(h)] = number[Conn(h)]
        /\ number[Conn(h)] # None /\ job[h] \in Jobs
    BY <2>2, HandlerConn, StepGrows DEF Conn, Grows
  <2>4. ASSUME Broken(Conn(h))
        PROVE  Broken(Conn(h))'
    BY <2>3, <2>4, StepGrows DEF Broken, Grows
  <2>5. HandlerSound(h)
    BY DEF Arrivals
  <2>6. HandlerSound(h)'
    BY <1>17, <2>2, <2>3, <2>4, <2>5
    DEF GetLink, Goto, Elsewhere, Removed, HandlerSound, Ending, Removing,
        Places, Counting, Releases, LastTests, Typed
  <2>7. QED
    BY <2>1, <2>6, SoundElse
<1>18. ASSUME NEW h \in Handlers, Unlink(h)
      PROVE  \A g \in Handlers : HandlerSound(g)'
  <2>1. \A g \in Handlers : g # h => pc'[g] = pc[g] /\ job'[g] = job[g]
    BY <1>18 DEF Unlink, Goto, Elsewhere, Removed, Typed
  <2>2. job'[h] = job[h] /\ pc[h] # "wait"
    BY <1>18 DEF Unlink, Goto, Elsewhere, Removed, Releases, LastTests
  <2>3. Conn(h)' = Conn(h) /\ Conn(h) \in Conns /\ number'[Conn(h)] = number[Conn(h)]
        /\ number[Conn(h)] # None /\ job[h] \in Jobs
    BY <2>2, HandlerConn, StepGrows DEF Conn, Grows
  <2>4. ASSUME Broken(Conn(h))
        PROVE  Broken(Conn(h))'
    BY <2>3, <2>4, StepGrows DEF Broken, Grows
  <2>5. HandlerSound(h)
    BY DEF Arrivals
  <2>6. HandlerSound(h)'
    BY <1>18, <2>2, <2>3, <2>4, <2>5
    DEF Unlink, Goto, Elsewhere, Removed, HandlerSound, Ending, Removing,
        Places, Counting, Releases, LastTests, Typed
  <2>7. QED
    BY <2>1, <2>6, SoundElse
<1>19. ASSUME NEW h \in Handlers, Unmap(h)
      PROVE  \A g \in Handlers : HandlerSound(g)'
  <2>1. \A g \in Handlers : g # h => pc'[g] = pc[g] /\ job'[g] = job[g]
    BY <1>19 DEF Unmap, Goto, Elsewhere, Removed, Typed
  <2>2. job'[h] = job[h] /\ pc[h] # "wait"
    BY <1>19 DEF Unmap, Goto, Elsewhere, Removed, Releases, LastTests
  <2>3. Conn(h)' = Conn(h) /\ Conn(h) \in Conns /\ number'[Conn(h)] = number[Conn(h)]
        /\ number[Conn(h)] # None /\ job[h] \in Jobs
    BY <2>2, HandlerConn, StepGrows DEF Conn, Grows
  <2>4. ASSUME Broken(Conn(h))
        PROVE  Broken(Conn(h))'
    BY <2>3, <2>4, StepGrows DEF Broken, Grows
  <2>5. HandlerSound(h)
    BY DEF Arrivals
  <2>6. HandlerSound(h)'
    BY <1>19, <2>2, <2>3, <2>4, <2>5
    DEF Unmap, Goto, Elsewhere, Removed, HandlerSound, Ending, Removing,
        Places, Counting, Releases, LastTests, Typed
  <2>7. QED
    BY <2>1, <2>6, SoundElse
<1>20. ASSUME NEW h \in Handlers, DisConnected(h)
      PROVE  \A g \in Handlers : HandlerSound(g)'
  <2>1. \A g \in Handlers : g # h => pc'[g] = pc[g] /\ job'[g] = job[g]
    BY <1>20 DEF DisConnected, Goto, Elsewhere, Removed, Typed
  <2>2. job'[h] = job[h] /\ pc[h] # "wait"
    BY <1>20 DEF DisConnected, Goto, Elsewhere, Removed, Releases, LastTests
  <2>3. Conn(h)' = Conn(h) /\ Conn(h) \in Conns /\ number'[Conn(h)] = number[Conn(h)]
        /\ number[Conn(h)] # None /\ job[h] \in Jobs
    BY <2>2, HandlerConn, StepGrows DEF Conn, Grows
  <2>4. ASSUME Broken(Conn(h))
        PROVE  Broken(Conn(h))'
    BY <2>3, <2>4, StepGrows DEF Broken, Grows
  <2>5. HandlerSound(h)
    BY DEF Arrivals
  <2>6. HandlerSound(h)'
    BY <1>20, <2>2, <2>3, <2>4, <2>5
    DEF DisConnected, Goto, Elsewhere, Removed, HandlerSound, Ending, Removing,
        Places, Counting, Releases, LastTests, Typed
  <2>7. QED
    BY <2>1, <2>6, SoundElse
<1>21. ASSUME NEW h \in Handlers, DeleteSocketContext(h)
      PROVE  \A g \in Handlers : HandlerSound(g)'
  <2>1. \A g \in Handlers : g # h => pc'[g] = pc[g] /\ job'[g] = job[g]
    BY <1>21 DEF DeleteSocketContext, Goto, Elsewhere, Removed, Typed
  <2>2. job'[h] = job[h] /\ pc[h] # "wait"
    BY <1>21 DEF DeleteSocketContext, Goto, Elsewhere, Removed, Releases,
                 LastTests
  <2>3. Conn(h)' = Conn(h) /\ Conn(h) \in Conns /\ number'[Conn(h)] = number[Conn(h)]
        /\ number[Conn(h)] # None /\ job[h] \in Jobs
    BY <2>2, HandlerConn, StepGrows DEF Conn, Grows
  <2>4. ASSUME Broken(Conn(h))
        PROVE  Broken(Conn(h))'
    BY <2>3, <2>4, StepGrows DEF Broken, Grows
  <2>5. HandlerSound(h)
    BY DEF Arrivals
  <2>6. HandlerSound(h)'
    BY <1>21, <2>2, <2>3, <2>4, <2>5
    DEF DeleteSocketContext, Goto, Elsewhere, Removed, HandlerSound, Ending,
        Removing, Places, Counting, Releases, LastTests, Typed
  <2>7. QED
    BY <2>1, <2>6, SoundElse
<1>22. CASE Fault
  BY <1>22, SoundElse DEF Fault
<1>23. QED
  BY <1>1, <1>2, <1>3, <1>4, <1>5, <1>6, <1>7, <1>8, <1>9, <1>10, <1>11, <1>12, <1>13,
     <1>14, <1>15, <1>16, <1>17, <1>18, <1>19, <1>20, <1>21, <1>22
  DEF Next, OnAsyncMsg, RemoveSocketContext, Execute, CountDown, Releases, LastTests

LEMMA PortOld ==
  ASSUME Typed, Arrivals, [Next]_vars, NEW j \in port
  PROVE  number'[j.conn] # None /\ (j.kind \in Ends => Broken(j.conn)')
<1>1. j.conn \in Conns
  BY JobParts DEF Typed
<1>2. QED
  BY <1>1, StepGrows, BrokenStays DEF Arrivals, Grows

PortSound == \A j \in port : number[j.conn] # None /\ (j.kind \in Ends => Broken(j.conn))

LEMMA PortSame ==
  ASSUME Typed, Arrivals, [Next]_vars, port' \subseteq port
  PROVE  PortSound'
BY PortOld DEF PortSound

LEMMA PortGains ==
  ASSUME Typed, Arrivals, [Next]_vars, NEW c \in Conns, NEW kind, Completed(c, kind),
         number'[c] # None, kind \in Ends => Broken(c)'
  PROVE  PortSound'
<1>1. \A j \in port' : j \in port \/ (j.conn = c /\ j.kind = kind)
  BY DEF Completed
<1>2. QED
  BY <1>1, PortOld DEF PortSound

LEMMA PortStep ==
  ASSUME Typed, Arrivals, [Next]_vars
  PROVE  PortSound'
<1> USE DEF network, tables, handler
<1>1. CASE UNCHANGED vars
  BY <1>1, PortSame DEF vars
<1>2. ASSUME NEW c \in Conns, PeerLeaves(c)
      PROVE  PortSound'
  BY <1>2, PortSame DEF PeerLeaves
<1>3. ASSUME NEW c \in Conns, RecvCompletes(c)
      PROVE  PortSound'
  <2>1. PICK kind : Completed(c, kind) /\ (kind \in Ends => Broken(c))
    BY <1>3 DEF RecvCompletes, Ends, Broken
  <2>2. number'[c] # None
    BY <1>3, StepGrows DEF RecvCompletes, Arrivals, Unborn, Grows
  <2>3. QED
    BY <2>1, <2>2, PortGains, BrokenStays
<1>4. ASSUME NEW c \in Conns, SendCompletes(c)
      PROVE  PortSound'
  <2>1. PICK kind : Completed(c, kind) /\ (kind \in Ends => Broken(c))
    BY <1>4 DEF SendCompletes, Ends, Broken
  <2>2. number'[c] # None
    BY <1>4, StepGrows DEF SendCompletes, Arrivals, Unborn, Grows
  <2>3. QED
    BY <2>1, <2>2, PortGains, BrokenStays
<1>5. ASSUME NEW c \in Conns, Accept(c)
      PROVE  PortSound'
  <2>1. port' = port \/ (Completed(c, "end") /\ number'[c] # None /\ Broken(c)')
    BY <1>5, NamesAssumption DEF Accept, Broken, Typed
  <2>2. QED
    BY <2>1, PortSame, PortGains
<1>6. ASSUME NEW c \in Conns, AddLinkNetObj(c)
      PROVE  PortSound'
  BY <1>6, PortSame DEF AddLinkNetObj, RunTask
<1>7. ASSUME NEW c \in Conns, LeaveList(c)
      PROVE  PortSound'
  BY <1>7, PortSame DEF LeaveList, RunTask
<1>8. ASSUME NEW c \in Conns, SendBuildConnectAck(c)
      PROVE  PortSound'
  BY <1>8, PortSame DEF SendBuildConnectAck, RunTask
<1>9. ASSUME NEW c \in Conns, EndBuild(c)
      PROVE  PortSound'
  BY <1>9, PortSame DEF EndBuild, RunTask
<1>10. CASE EnterList \/ DropAccepted
  BY <1>10, PortSame DEF EnterList, DropAccepted
<1>11. ASSUME NEW h \in Handlers, Execute(h)
      PROVE  PortSound'
  <2>1. CASE port' \subseteq port
    BY <2>1, PortSame
  <2>2. CASE RePostRecv(h) /\ port' # port
    <3>1. pc[h] = "repost" /\ Completed(Conn(h), "end") /\ Broken(Conn(h))
      BY <2>2 DEF RePostRecv, Goto, Broken
    <3>2. PICK c \in Conns : c = Conn(h) /\ number[c] # None
      BY <3>1, HandlerConn
    <3>3. number'[c] # None /\ Broken(c)'
      BY <3>1, <3>2, StepGrows, BrokenStays DEF Grows
    <3>4. QED
      BY <3>1, <3>2, <3>3, PortGains
  <2>3. QED
    BY <1>11, <2>1, <2>2 DEF Execute, CountDown, Dequeue, BeginCompletion,
                             HandleError, Release, LastTest, Aside
<1>12. ASSUME NEW h \in Handlers, GetLink(h)
      PROVE  PortSound'
  BY <1>12, PortSame DEF GetLink, Elsewhere
<1>13. ASSUME NEW h \in Handlers, Unlink(h)
      PROVE  PortSound'
  BY <1>13, PortSame DEF Unlink, Elsewhere
<1>14. ASSUME NEW h \in Handlers, Unmap(h)
      PROVE  PortSound'
  BY <1>14, PortSame DEF Unmap, Elsewhere
<1>15. ASSUME NEW h \in Handlers, DisConnected(h)
      PROVE  PortSound'
  BY <1>15, PortSame DEF DisConnected, Elsewhere
<1>16. ASSUME NEW h \in Handlers, DeleteSocketContext(h)
      PROVE  PortSound'
  BY <1>16, PortSame DEF DeleteSocketContext, Elsewhere
<1>17. CASE Fault
  BY <1>17, PortSame DEF Fault
<1>18. QED
  BY <1>1, <1>2, <1>3, <1>4, <1>5, <1>6, <1>7, <1>8, <1>9, <1>10, <1>11, <1>12, <1>13,
     <1>14, <1>15, <1>16, <1>17
  DEF Next, OnAsyncMsg, RemoveSocketContext

Born ==
  /\ \A c \in Conns : number[c] = None => Unborn(c)
  /\ \A c \in Conns : peer[c] = "none" => number[c] = None

LEMMA BornStep ==
  ASSUME Typed, Arrivals, Entries, [Next]_vars
  PROVE  Born'
<1>1. Born
  BY DEF Born, Arrivals
<1> USE <1>1 DEF network, tables, handler
<1>2. CASE UNCHANGED vars
  BY <1>2 DEF vars, Born, Unborn
<1>3. ASSUME NEW c \in Conns, PeerLeaves(c)
      PROVE  Born'
  BY <1>3 DEF PeerLeaves, Born, Unborn, Typed
<1>4. ASSUME NEW c \in Conns, RecvCompletes(c)
      PROVE  Born'
  BY <1>4 DEF RecvCompletes, Born, Unborn, Typed
<1>5. ASSUME NEW c \in Conns, SendCompletes(c)
      PROVE  Born'
  BY <1>5 DEF SendCompletes, Born, Unborn, Typed
<1>6. ASSUME NEW c \in Conns, Accept(c)
      PROVE  Born'
  BY <1>6, NamesAssumption DEF Accept, Born, Unborn, Typed
<1>7. ASSUME NEW c \in Conns, AddLinkNetObj(c)
      PROVE  Born'
  BY <1>7 DEF AddLinkNetObj, RunTask, Born, Unborn, Typed
<1>8. ASSUME NEW c \in Conns, LeaveList(c)
      PROVE  Born'
  BY <1>8 DEF LeaveList, RunTask, Born, Unborn, Typed
<1>9. ASSUME NEW c \in Conns, SendBuildConnectAck(c)
      PROVE  Born'
  BY <1>9 DEF SendBuildConnectAck, RunTask, Born, Unborn, Typed
<1>10. ASSUME NEW c \in Conns, EndBuild(c)
      PROVE  Born'
  <2>1. number[c] # None /\ DropLink(c, "task")
    BY <1>10 DEF EndBuild, RunTask, Born, Unborn
  <2>2. \A d \in Conns : number[d] = None => freed'[d] = freed[d] /\ holders'[d] = holders[d]
    BY <2>1, DropGrows
  <2>3. QED
    BY <1>10, <2>1, <2>2 DEF EndBuild, RunTask, Born, Unborn, Typed
<1>11. CASE EnterList \/ DropAccepted
  BY <1>11, NamesAssumption DEF EnterList, DropAccepted, Born, Unborn, Typed
<1>12. ASSUME NEW h \in Handlers, Execute(h)
      PROVE  Born'
  <2>1. pc[h] # "wait" => Conn(h) \in Conns /\ number[Conn(h)] # None
    BY HandlerConn
  <2>2. UNCHANGED <<peer, send, accepted, number, tables, begun, spoiled>>
    BY <1>12 DEF Execute, CountDown, Dequeue, BeginCompletion, RePostRecv, HandleError,
                 Release, LastTest, Aside
  <2>3. recv' = recv \/ (pc[h] # "wait" /\ recv' = recv \cup {Conn(h)})
    BY <1>12 DEF Execute, CountDown, Dequeue, BeginCompletion, RePostRecv, HandleError,
                 Release, LastTest, Goto
  <2>4. task' = task \/ (pc[h] # "wait" /\ task' = [task EXCEPT ![Conn(h)] = "queued"])
    BY <1>12 DEF Execute, CountDown, Dequeue, BeginCompletion, RePostRecv, HandleError,
                 Release, LastTest, Goto
  <2>5. QED
    BY <2>1, <2>2, <2>3, <2>4 DEF Born, Unborn, Typed
<1>13. ASSUME NEW h \in Handlers, GetLink(h)
      PROVE  Born'
  <2>1. pc[h] # "wait" /\ Conn(h) \in Conns /\ number[Conn(h)] # None
    BY <1>13, HandlerConn DEF GetLink, Goto, Removed
  <2>2. \A c \in Conns : number[c] = None => freed'[c] = freed[c] /\ holders'[c] = {}
    <3>1. \A n \in Fds : linkMap[n] # None => number[linkMap[n]] # None
      BY NamesAssumption DEF Entries, Typed
    <3>2. Socket(Conn(h)) \in Fds \cup {None}
      BY <2>1, SocketTyped
    <3>3. QED
      BY <1>13, <3>1, <3>2 DEF GetLink, Born, Unborn, Typed
  <2>3. UNCHANGED <<peer, recv, send, task, accepted, number>>
    BY <1>13 DEF GetLink, Elsewhere
  <2>4. begun' \subseteq begun \cup {Conn(h)} /\ spoiled' \subseteq spoiled \cup {Conn(h)}
    BY <1>13 DEF GetLink
  <2>5. QED
    BY <2>1, <2>2, <2>3, <2>4 DEF Born, Unborn
<1>14. ASSUME NEW h \in Handlers, Unlink(h)
      PROVE  Born'
  <2>1. pc[h] # "wait" /\ Conn(h) \in Conns /\ number[Conn(h)] # None
    BY <1>14, HandlerConn DEF Unlink, Goto, Removed
  <2>2. \A c \in Conns : number[c] = None => freed'[c] = freed[c] /\ holders'[c] = {}
    <3>1. \A c \in Conns : number[c] = None => holders[c] = {}
      BY <1>1 DEF Born, Unborn
    <3>2. DropLink(Conn(h), "context")
      BY <1>14 DEF Unlink
    <3>3. QED
      BY <3>1, <3>2, DropOfNone
  <2>3. UNCHANGED <<peer, recv, send, task, accepted, number>>
    BY <1>14 DEF Unlink, Elsewhere
  <2>4. begun' \subseteq begun \cup {Conn(h)} /\ spoiled' \subseteq spoiled \cup {Conn(h)}
    BY <1>14 DEF Unlink
  <2>5. QED
    BY <2>1, <2>2, <2>3, <2>4 DEF Born, Unborn
<1>15. ASSUME NEW h \in Handlers, Unmap(h)
      PROVE  Born'
  <2>1. pc[h] # "wait" /\ Conn(h) \in Conns /\ number[Conn(h)] # None
    <3>1. pc[h] # "wait"
      BY <1>15 DEF Unmap, Goto
    <3>2. QED
      BY <3>1, HandlerConn
  <2>2. \A c \in Conns : number[c] = None => freed'[c] = freed[c] /\ holders'[c] = {}
    <3>1. key[h] # None /\ linkMap[key[h]] # None => number[linkMap[key[h]]] # None
      BY NamesAssumption DEF Entries, Typed
    <3>2. \/ UNCHANGED <<freed, holders>>
          \/ key[h] # None /\ linkMap[key[h]] # None /\ DropLink(linkMap[key[h]], "map")
      BY <1>15 DEF Unmap
    <3>3. \A c \in Conns : number[c] = None => holders[c] = {}
      BY <1>1 DEF Born, Unborn
    <3>4. QED
      BY <3>1, <3>2, <3>3, DropOfNone
  <2>3. UNCHANGED <<peer, recv, send, task, accepted, number>>
    <3>1. Elsewhere
      BY <1>15 DEF Unmap
    <3>2. QED
      BY <3>1 DEF Elsewhere
  <2>4. begun' \subseteq begun \cup {Conn(h)} /\ spoiled' \subseteq spoiled \cup {Conn(h)}
    BY <1>15 DEF Unmap
  <2>5. QED
    BY <2>1, <2>2, <2>3, <2>4 DEF Born, Unborn
<1>16. ASSUME NEW h \in Handlers, DisConnected(h)
      PROVE  Born'
  <2>1. pc[h] # "wait" /\ Conn(h) \in Conns /\ number[Conn(h)] # None
    <3>1. pc[h] # "wait"
      BY <1>16 DEF DisConnected, Goto, Removed
    <3>2. QED
      BY <3>1, HandlerConn
  <2>2. \A c \in Conns : number[c] = None => freed'[c] = freed[c] /\ holders'[c] = {}
    <3>1. \A c \in Conns : number[c] = None => holders[c] = {}
      BY <1>1 DEF Born, Unborn
    <3>2. DropLink(link[h], h)
      BY <1>16 DEF DisConnected
    <3>3. QED
      BY <3>1, <3>2, DropOfNone
  <2>3. UNCHANGED <<peer, recv, send, task, accepted, number>>
    <3>1. Elsewhere
      BY <1>16 DEF DisConnected
    <3>2. QED
      BY <3>1 DEF Elsewhere
  <2>4. begun' \subseteq begun \cup {Conn(h)} /\ spoiled' \subseteq spoiled \cup {Conn(h)}
    BY <1>16 DEF DisConnected
  <2>5. QED
    BY <2>1, <2>2, <2>3, <2>4 DEF Born, Unborn
<1>17. ASSUME NEW h \in Handlers, DeleteSocketContext(h)
      PROVE  Born'
  <2>1. pc[h] # "wait" /\ Conn(h) \in Conns /\ number[Conn(h)] # None
    BY <1>17, HandlerConn DEF DeleteSocketContext, Goto, Removed
  <2>2. \A c \in Conns : number[c] = None => freed'[c] = freed[c] /\ holders'[c] = {}
    <3>1. key[h] # None /\ list[key[h]] # None => key[h] \in Fds /\ number[list[key[h]]] # None
      BY NamesAssumption DEF Entries, Typed
    <3>2. QED
      BY <1>17, <3>1 DEF DeleteSocketContext, Born, Unborn, Typed
  <2>3. UNCHANGED <<peer, recv, send, task, accepted, number>>
    BY <1>17 DEF DeleteSocketContext, Elsewhere
  <2>4. begun' \subseteq begun \cup {Conn(h)} /\ spoiled' \subseteq spoiled \cup {Conn(h)}
    BY <1>17 DEF DeleteSocketContext
  <2>5. QED
    BY <2>1, <2>2, <2>3, <2>4 DEF Born, Unborn
<1>18. CASE Fault
  BY <1>18 DEF Fault, Born, Unborn, Typed
<1>19. QED
  BY <1>2, <1>3, <1>4, <1>5, <1>6, <1>7, <1>8, <1>9, <1>10, <1>11, <1>12, <1>13, <1>14,
     <1>15, <1>16, <1>17, <1>18
  DEF Next, OnAsyncMsg, RemoveSocketContext

LEMMA ArrivalsStep ==
  ASSUME Typed, Arrivals, Entries, [Next]_vars
  PROVE  Arrivals'
BY BornStep, PortStep, SoundStep DEF Born, PortSound, Arrivals


\* No completion, receive or task begins.
LEMMA QuietRequests ==
  ASSUME Typed, Arrivals, Requests, recv' \subseteq recv, job' = job,
         \A j \in port' : j.kind = "build" => j \in port,
         \A c \in Conns : task[c] = "none" <=> task'[c] = "none",
         \A g \in Handlers : Requesting(g)' => Requesting(g),
         \A g \in Handlers : pc'[g] = "repost" => pc[g] = "repost"
  PROVE  Requests'
<1>1. \A j \in port : j.conn \in Conns
  BY JobParts DEF Typed
<1>2. \A g \in Handlers : pc[g] # "wait" => Conn(g) \in Conns
  BY HandlerConn
<1>3. \A g \in Handlers : Requesting(g) => Conn(g) \in Conns
  BY <1>2 DEF Requesting
<1>4. \A g \in Handlers : pc'[g] = "repost" => task'[Conn(g)] # "none"
  BY <1>2 DEF Requests
<1>5. QED
  BY <1>1, <1>3, <1>4 DEF Requests, Conn

LEMMA RequestsStep ==
  ASSUME Typed, Arrivals, Requests, [Next]_vars
  PROVE  Requests'
<1> USE DEF network, tables, handler
<1>1. CASE UNCHANGED vars
  BY <1>1, QuietRequests DEF vars, Requesting
<1>2. ASSUME NEW c \in Conns, PeerLeaves(c)
      PROVE  Requests'
  BY <1>2, QuietRequests DEF PeerLeaves, Requesting, Typed
<1>3. ASSUME NEW c \in Conns, RecvCompletes(c)
      PROVE  Requests'
  <2>1. PICK kind : port' = port \cup {[conn |-> c, kind |-> kind]} /\ (kind = "build" => task[c] = "none")
    BY <1>3 DEF RecvCompletes, Completed
  <2>2. c \in recv /\ recv' = recv \ {c} /\ UNCHANGED <<task, pc, job>>
    BY <1>3 DEF RecvCompletes
  <2>3. \A j \in port' : j \in port \/ (j.conn = c /\ j.kind = kind)
    BY <2>1
  <2>4. \A g \in Handlers : Requesting(g) => Conn(g) # c
    BY <2>2 DEF Requests
  <2>5. \A j \in port' : j.kind = "build" => task'[j.conn] = "none" /\ j.conn \notin recv'
    BY <2>1, <2>2, <2>3 DEF Requests
  <2>6. \A g \in Handlers : Requesting(g) =>
          \A j \in port' : j.kind = "build" => j.conn # Conn(g)
    BY <2>3, <2>4 DEF Requests
  <2>7. QED
    BY <2>2, <2>5, <2>6 DEF Requests, Requesting, Conn
<1>4. ASSUME NEW c \in Conns, SendCompletes(c)
      PROVE  Requests'
  <2>1. PICK kind \in {"sent", "unsent"} : port' = port \cup {[conn |-> c, kind |-> kind]}
    BY <1>4 DEF SendCompletes, Completed
  <2>2. \A j \in port' : j.kind = "build" => j \in port
    BY <2>1
  <2>3. QED
    BY <1>4, <2>2, QuietRequests DEF SendCompletes, Requesting
<1>5. ASSUME NEW c \in Conns, Accept(c)
      PROVE  Requests'
  <2>1. /\ number[c] = None /\ recv' \subseteq recv \cup {c} /\ UNCHANGED <<task, pc, job>>
        /\ \A j \in port' : j.kind = "build" => j \in port
    BY <1>5 DEF Accept, Completed, Arrivals
  <2>2. \A j \in port : j.conn # c
    BY <2>1 DEF Arrivals
  <2>3. \A g \in Handlers : pc[g] # "wait" => Conn(g) # c
    BY <2>1, HandlerConn
  <2>4. QED
    BY <2>1, <2>2, <2>3 DEF Requests, Requesting, Conn
<1>6. ASSUME NEW c \in Conns, AddLinkNetObj(c)
      PROVE  Requests'
  BY <1>6, QuietRequests DEF AddLinkNetObj, RunTask, Requesting, Typed
<1>7. ASSUME NEW c \in Conns, LeaveList(c)
      PROVE  Requests'
  BY <1>7, QuietRequests DEF LeaveList, RunTask, Requesting, Typed
<1>8. ASSUME NEW c \in Conns, SendBuildConnectAck(c)
      PROVE  Requests'
  BY <1>8, QuietRequests DEF SendBuildConnectAck, RunTask, Requesting, Typed
<1>9. ASSUME NEW c \in Conns, EndBuild(c)
      PROVE  Requests'
  BY <1>9, QuietRequests DEF EndBuild, RunTask, Requesting, Typed
<1>10. CASE EnterList \/ DropAccepted
  BY <1>10, QuietRequests DEF EnterList, DropAccepted, Requesting
<1>11. ASSUME NEW h \in Handlers, Dequeue(h)
      PROVE  Requests'
  <2>1. PICK j \in port : /\ port' = port \ {j} /\ job' = [job EXCEPT ![h] = j]
                          /\ pc' = [pc EXCEPT ![h] = IF j.kind \in {"lost", "unsent"} THEN "error"
                                                     ELSE "taken"]
    BY <1>11 DEF Dequeue
  <2>2. /\ UNCHANGED <<recv, task>> /\ job'[h] = j /\ Conn(h)' = j.conn /\ pc'[h] \in {"error", "taken"}
        /\ \A g \in Handlers : g # h => pc'[g] = pc[g] /\ job'[g] = job[g]
    BY <1>11, <2>1 DEF Dequeue, Conn, Typed
  <2>3. \A k \in port' : k.kind = "build" /\ j.kind = "build" => k.conn # j.conn
    BY <2>1 DEF Jobs, Typed
  <2>4. \A g \in Handlers : g # h => (Requesting(g)' <=> Requesting(g)) /\ Conn(g)' = Conn(g)
    BY <2>2 DEF Requesting, Conn
  <2>5. Requesting(h)' => j.kind = "build"
    BY <2>2 DEF Requesting
  <2>6. \A g \in Handlers : g # h /\ Requesting(g) /\ j.kind = "build" => Conn(g) # j.conn
    BY <2>1 DEF Requests
  <2>7. \A g, k \in Handlers : g # k /\ Requesting(g)' /\ Requesting(k)' => Conn(g)' # Conn(k)'
    BY <2>2, <2>4, <2>5, <2>6 DEF Requests
  <2>8. \A g \in Handlers : Requesting(g)' =>
          /\ task'[Conn(g)'] = "none" /\ Conn(g)' \notin recv'
          /\ \A k \in port' : k.kind = "build" => k.conn # Conn(g)'
    BY <2>1, <2>2, <2>3, <2>4, <2>5 DEF Requests
  <2>9. \A g \in Handlers : pc'[g] = "repost" => task'[Conn(g)'] # "none"
    BY <2>2, <2>4 DEF Requests
  <2>10. QED
    BY <2>1, <2>2, <2>7, <2>8, <2>9 DEF Requests
<1>12. ASSUME NEW h \in Handlers, BeginCompletion(h)
      PROVE  Requests'
  <2>1. /\ pc[h] = "taken" /\ pc'[h] \in {"repost", "zero", "release"} /\ UNCHANGED <<recv, port, job>>
        /\ \A g \in Handlers : g # h => pc'[g] = pc[g]
        /\ pc'[h] = "repost" => job[h].kind = "build"
    BY <1>12 DEF BeginCompletion, Goto, Arrivals, HandlerSound, Typed
  <2>2. Conn(h) \in Conns
    BY <2>1, HandlerConn
  <2>3. CASE job[h].kind = "build"
    <3>1. task' = [task EXCEPT ![Conn(h)] = "queued"] /\ Requesting(h)
      BY <1>12, <2>1, <2>3 DEF BeginCompletion, Requesting
    <3>2. \A c \in Conns : task'[c] = IF c = Conn(h) THEN "queued" ELSE task[c]
      BY <2>2, <3>1 DEF Typed
    <3>3. \A g \in Handlers : g # h /\ Requesting(g) => Conn(g) # Conn(h)
      BY <3>1 DEF Requests
    <3>4. \A j \in port : j.kind = "build" => j.conn # Conn(h)
      BY <3>1 DEF Requests
    <3>5. \A j \in port : j.conn \in Conns
      BY JobParts DEF Typed
    <3>6. \A g \in Handlers : pc[g] # "wait" => Conn(g) \in Conns
      BY HandlerConn
    <3>7. \A g \in Handlers : Requesting(g)' => Requesting(g) /\ g # h
      BY <2>1 DEF Requesting
    <3>8. \A g \in Handlers : Requesting(g) => task[Conn(g)] = "none" /\ Conn(g) \in Conns
      BY <3>6 DEF Requests, Requesting
    <3>9. \A g \in Handlers : pc'[g] = "repost" => task'[Conn(g)] # "none"
      BY <2>1, <3>2, <3>6 DEF Requests
    <3>10. QED
      BY <2>1, <3>2, <3>3, <3>4, <3>5, <3>7, <3>8, <3>9 DEF Requests, Conn
  <2>4. CASE job[h].kind # "build"
    BY <1>12, <2>1, <2>4, QuietRequests DEF BeginCompletion, Requesting
  <2>5. QED
    BY <2>3, <2>4
<1>13. ASSUME NEW h \in Handlers, RePostRecv(h)
      PROVE  Requests'
  <2>1. /\ pc[h] = "repost" /\ pc'[h] \in {"reposted", "dead"} /\ UNCHANGED <<job, task>>
        /\ \A j \in port' : j.kind = "build" => j \in port
        /\ \A g \in Handlers : g # h => pc'[g] = pc[g]
        /\ recv' \subseteq recv \cup {Conn(h)}
    BY <1>13 DEF RePostRecv, Goto, Completed, Typed
  <2>2. task[Conn(h)] # "none"
    BY <2>1 DEF Requests
  <2>3. \A g \in Handlers : Requesting(g)' => Requesting(g) /\ g # h
    BY <2>1 DEF Requesting
  <2>4. QED
    BY <2>1, <2>2, <2>3 DEF Requests, Conn
<1>14. ASSUME NEW h \in Handlers, HandleError(h)
      PROVE  Requests'
  <2>1. /\ UNCHANGED <<port, recv, task, job>> /\ pc'[h] \notin {"taken", "repost"}
        /\ \A g \in Handlers : g # h => pc'[g] = pc[g]
    BY <1>14 DEF HandleError, Goto, Aside, Releases, LastTests, Typed
  <2>2. QED
    BY <2>1, QuietRequests DEF Requesting
<1>15. ASSUME NEW h \in Handlers, NEW from, NEW to, Release(h, from, to),
             <<from, to>> \in Releases
      PROVE  Requests'
  <2>1. /\ UNCHANGED <<port, recv, task, job>> /\ pc'[h] \notin {"taken", "repost"}
        /\ \A g \in Handlers : g # h => pc'[g] = pc[g]
    BY <1>15 DEF Release, Goto, Aside, Releases, LastTests, Typed
  <2>2. QED
    BY <2>1, QuietRequests DEF Requesting
<1>16. ASSUME NEW h \in Handlers, NEW from, NEW to, LastTest(h, from, to),
             <<from, to>> \in LastTests
      PROVE  Requests'
  <2>1. /\ UNCHANGED <<port, recv, task, job>> /\ pc'[h] \notin {"taken", "repost"}
        /\ \A g \in Handlers : g # h => pc'[g] = pc[g]
    BY <1>16 DEF LastTest, Goto, Aside, Releases, LastTests, Typed
  <2>2. QED
    BY <2>1, QuietRequests DEF Requesting
<1>17. ASSUME NEW h \in Handlers, GetLink(h)
      PROVE  Requests'
  <2>1. /\ UNCHANGED <<port, recv, task, job>> /\ pc'[h] \notin {"taken", "repost"}
        /\ \A g \in Handlers : g # h => pc'[g] = pc[g]
    BY <1>17 DEF GetLink, Goto, Elsewhere, Removed, Releases, LastTests, Typed
  <2>2. QED
    BY <2>1, QuietRequests DEF Requesting
<1>18. ASSUME NEW h \in Handlers, Unlink(h)
      PROVE  Requests'
  <2>1. /\ UNCHANGED <<port, recv, task, job>> /\ pc'[h] \notin {"taken", "repost"}
        /\ \A g \in Handlers : g # h => pc'[g] = pc[g]
    BY <1>18 DEF Unlink, Goto, Elsewhere, Removed, Releases, LastTests, Typed
  <2>2. QED
    BY <2>1, QuietRequests DEF Requesting
<1>19. ASSUME NEW h \in Handlers, Unmap(h)
      PROVE  Requests'
  <2>1. /\ UNCHANGED <<port, recv, task, job>> /\ pc'[h] \notin {"taken", "repost"}
        /\ \A g \in Handlers : g # h => pc'[g] = pc[g]
    BY <1>19 DEF Unmap, Goto, Elsewhere, Removed, Releases, LastTests, Typed
  <2>2. QED
    BY <2>1, QuietRequests DEF Requesting
<1>20. ASSUME NEW h \in Handlers, DisConnected(h)
      PROVE  Requests'
  <2>1. /\ UNCHANGED <<port, recv, task, job>> /\ pc'[h] \notin {"taken", "repost"}
        /\ \A g \in Handlers : g # h => pc'[g] = pc[g]
    BY <1>20 DEF DisConnected, Goto, Elsewhere, Removed, Releases, LastTests,
                 Typed
  <2>2. QED
    BY <2>1, QuietRequests DEF Requesting
<1>21. ASSUME NEW h \in Handlers, DeleteSocketContext(h)
      PROVE  Requests'
  <2>1. /\ UNCHANGED <<port, recv, task, job>> /\ pc'[h] \notin {"taken", "repost"}
        /\ \A g \in Handlers : g # h => pc'[g] = pc[g]
    BY <1>21 DEF DeleteSocketContext, Goto, Elsewhere, Removed, Releases,
                 LastTests, Typed
  <2>2. QED
    BY <2>1, QuietRequests DEF Requesting
<1>22. CASE Fault
  BY <1>22, QuietRequests DEF Fault, Requesting
<1>23. QED
  BY <1>1, <1>2, <1>3, <1>4, <1>5, <1>6, <1>7, <1>8, <1>9, <1>10, <1>11, <1>12, <1>13,
     <1>14, <1>15, <1>16, <1>17, <1>18, <1>19, <1>20, <1>21, <1>22
  DEF Next, OnAsyncMsg, RemoveSocketContext, Execute, CountDown, Releases, LastTests

\* What Execute does, but for the removal.
LEMMA EarlyStep ==
  ASSUME Typed, Arrivals, Requests, NEW h \in Handlers, Execute(h)
  PROVE  /\ pc[h] \notin Removing /\ pc'[h] \notin Removing \ {"getLink"} /\ pc'[h] \in Places
         /\ \A g \in Handlers : g # h => pc'[g] = pc[g] /\ job'[g] = job[g]
         /\ pc[h] # "wait" => job'[h] = job[h]
         /\ UNCHANGED <<peer, number, freed, list, linkMap, holders, key, link, begun, spoiled,
                        accepted>>
         /\ \A c \in Conns : task'[c] = task[c] \/ (task[c] = "none" /\ task'[c] = "queued")
<1> USE DEF tables
<1>1. CASE Dequeue(h)
  BY <1>1 DEF Dequeue, Aside, Removing, Places, Counting, Typed
<1>2. CASE BeginCompletion(h)
  <2>1. job[h].kind = "build" => task[Conn(h)] = "none"
    BY <1>2 DEF BeginCompletion, Goto, Requests, Requesting
  <2>2. pc[h] = "taken" /\ pc'[h] \in {"repost", "zero", "release"}
    BY <1>2 DEF BeginCompletion, Goto, Arrivals, HandlerSound, Typed
  <2>3. QED
    BY <1>2, <2>1, <2>2 DEF BeginCompletion, Goto, Aside, Removing, Places, Counting,
                            Typed
<1>3. CASE RePostRecv(h)
  BY <1>3 DEF RePostRecv, Goto, Aside, Removing, Places, Counting, Typed
<1>4. CASE HandleError(h)
  BY <1>4 DEF HandleError, Goto, Aside, Removing, Places, Counting, Typed
<1>5. ASSUME NEW from, NEW to, Release(h, from, to), <<from, to>> \in Releases
      PROVE  /\ pc[h] \notin Removing /\ pc'[h] \notin Removing /\ pc'[h] \in Places
             /\ UNCHANGED <<job, task>> /\ Aside /\ \A g \in Handlers : g # h => pc'[g] = pc[g]
  BY <1>5 DEF Release, Goto, Releases, Removing, Places, Counting, Typed
<1>6. ASSUME NEW from, NEW to, LastTest(h, from, to), <<from, to>> \in LastTests
      PROVE  /\ pc[h] \notin Removing /\ pc'[h] \notin Removing \ {"getLink"} /\ pc'[h] \in Places
             /\ UNCHANGED <<job, task>> /\ Aside /\ \A g \in Handlers : g # h => pc'[g] = pc[g]
  BY <1>6 DEF LastTest, Goto, LastTests, Removing, Places, Counting, Typed
<1>7. \/ Dequeue(h) \/ BeginCompletion(h) \/ RePostRecv(h) \/ HandleError(h)
      \/ \E r \in Releases : Release(h, r[1], r[2])
      \/ \E r \in LastTests : LastTest(h, r[1], r[2])
  BY DEF Execute, CountDown, Releases, LastTests
<1>8. QED
  BY <1>1, <1>2, <1>3, <1>4, <1>5, <1>6, <1>7 DEF Aside, Releases, LastTests


-------------------------------------------------------------------------------
(* What the steps do to the tables, one entry at a time.                   *)

\* A step that leaves the maps, the owners and the locals of removals alone.
Quiet ==
  /\ UNCHANGED <<number, freed, list, linkMap, holders, key, link, begun, spoiled>>
  /\ \A h \in Handlers :
       \/ pc'[h] = pc[h] /\ job'[h] = job[h]
       \/ /\ pc[h] \notin Removing /\ pc'[h] \notin Removing \ {"getLink"}
          /\ pc[h] # "wait" => job'[h] = job[h]
  /\ \A c \in Conns : \/ task'[c] = task[c]
                      \/ task[c] = "none" /\ task'[c] = "queued"
                      \/ task[c] = "ack" /\ task'[c] = "dropLink"
  /\ \A c \in Conns : peer'[c] = "open" => peer[c] = "open"

TableStep ==
  \/ \E c \in Conns : Accept(c) \/ AddLinkNetObj(c) \/ LeaveList(c) \/ EndBuild(c)
  \/ EnterList
  \/ \E h \in Handlers : RemoveSocketContext(h)

LEMMA QuietOrTable ==
  ASSUME Typed, Arrivals, Requests, [Next]_vars
  PROVE  Quiet \/ TableStep
<1> USE DEF network, tables, handler
<1>1. CASE UNCHANGED vars
  BY <1>1 DEF vars, Quiet
<1>2. ASSUME NEW c \in Conns, PeerLeaves(c)
      PROVE  Quiet
  BY <1>2 DEF PeerLeaves, Quiet, Typed
<1>3. ASSUME NEW c \in Conns, RecvCompletes(c)
      PROVE  Quiet
  BY <1>3 DEF RecvCompletes, Quiet
<1>4. ASSUME NEW c \in Conns, SendCompletes(c)
      PROVE  Quiet
  BY <1>4 DEF SendCompletes, Quiet
<1>5. ASSUME NEW c \in Conns, SendBuildConnectAck(c)
      PROVE  Quiet
  BY <1>5 DEF SendBuildConnectAck, RunTask, Quiet, Typed
<1>6. ASSUME NEW h \in Handlers, Execute(h)
      PROVE  Quiet
  BY <1>6, EarlyStep DEF Quiet
<1>7. CASE Fault \/ DropAccepted
  BY <1>7 DEF Fault, DropAccepted, Quiet
<1>8. QED
  BY <1>1, <1>2, <1>3, <1>4, <1>5, <1>6, <1>7 DEF Next, OnAsyncMsg, TableStep

\* Handler h goes on from one place to another.
Moves(h, from, to) ==
  /\ pc[h] = from /\ pc'[h] = to /\ UNCHANGED <<job, number, peer, task>>
  /\ \A g \in Handlers : g # h => pc'[g] = pc[g] /\ key'[g] = key[g] /\ link'[g] = link[g]

Unowned(d, holder) ==
  \A c \in Conns : holders'[c] = IF c = d THEN holders[c] \ {holder} ELSE holders[c]

LEMMA DropUnowns ==
  ASSUME Typed, NEW d, NEW holder, DropLink(d, holder)
  PROVE  /\ Unowned(d, holder)
         /\ \A c \in Conns : freed'[c] # freed[c] => c = d /\ holders[c] = {holder}
BY DropGrows DEF Unowned

LEMMA AcceptStep ==
  ASSUME Typed, Arrivals, NEW c \in Conns, Accept(c)
  PROVE  /\ Unborn(c) /\ number[c] = None
         /\ number'[c] \in Fds /\ \A d \in Conns : number'[c] # Socket(d)
         /\ \A d \in Conns \ {c} : number'[d] = number[d] /\ peer'[d] = peer[d]
         /\ UNCHANGED <<freed, list, linkMap, holders, task, pc, job, key, link, begun, spoiled>>
BY DEF Accept, Arrivals, tables, handler, Typed

LEMMA EnterListStep ==
  ASSUME Typed, EnterList
  PROVE  /\ accepted \in Conns
         /\ \A n \in Fds : \/ list'[n] = list[n]
                           \/ /\ list'[n] = accepted /\ list[n] = None /\ n = number[accepted]
                              /\ freed[accepted] = 0
                              /\ ListedLate(accepted) => accepted \in spoiled'
         /\ UNCHANGED <<peer, number, freed, linkMap, holders, task, pc, job, key, link, begun>>
<1>1. accepted \in Conns
  BY DEF EnterList, Typed
<1>2. Socket(accepted) # None => freed[accepted] = 0 /\ Socket(accepted) = number[accepted]
  BY <1>1 DEF Socket, Typed
<1>3. QED
  BY <1>1, <1>2 DEF EnterList, network, handler, Typed

LEMMA AddLinkStep ==
  ASSUME Typed, Arrivals, NEW c \in Conns, AddLinkNetObj(c)
  PROVE  /\ task[c] = "queued" /\ freed[c] = 0 /\ number[c] \in Fds
         /\ UNCHANGED <<peer, number, list, pc, job, key, link, begun, spoiled>>
         /\ \A d \in Conns \ {c} : task'[d] = task[d] /\ freed'[d] = freed[d] /\ holders'[d] = holders[d]
         /\ \/ /\ linkMap[number[c]] = None /\ linkMap'[number[c]] = c
               /\ \A n \in Fds \ {number[c]} : linkMap'[n] = linkMap[n]
               /\ task'[c] = "linked" /\ holders'[c] = Owners /\ freed'[c] = 0
            \/ /\ linkMap[number[c]] # None /\ task'[c] = "done" /\ freed'[c] > 0
               /\ UNCHANGED <<linkMap, holders>>
            \/ task'[c] = "unlinked" /\ UNCHANGED <<linkMap, holders, freed>>
<1>1. task[c] = "queued" /\ freed[c] = 0
  BY DEF AddLinkNetObj, RunTask
<1>2. number[c] \in Fds
  BY <1>1 DEF Arrivals, Unborn, Typed
<1>3. QED
  BY <1>1, <1>2 DEF AddLinkNetObj, RunTask, handler, Typed

LEMMA LeaveListStep ==
  ASSUME Typed, Arrivals, NEW c \in Conns, LeaveList(c)
  PROVE  /\ task[c] = "linked" /\ task'[c] = "ack" /\ number[c] \in Fds
         /\ UNCHANGED <<peer, number, freed, linkMap, holders, pc, job, key, link, begun, spoiled>>
         /\ \A d \in Conns \ {c} : task'[d] = task[d]
         /\ list'[number[c]] = None /\ \A n \in Fds \ {number[c]} : list'[n] = list[n]
<1>1. task[c] = "linked"
  BY DEF LeaveList, RunTask
<1>2. number[c] \in Fds
  BY <1>1 DEF Arrivals, Unborn, Typed
<1>3. QED
  BY <1>1, <1>2 DEF LeaveList, RunTask, handler, Typed

LEMMA EndBuildStep ==
  ASSUME Typed, NEW c \in Conns, EndBuild(c)
  PROVE  /\ task[c] = "dropLink" /\ task'[c] = "done" /\ Unowned(c, "task")
         /\ UNCHANGED <<peer, number, list, linkMap, pc, job, key, link, begun, spoiled>>
         /\ \A d \in Conns \ {c} : task'[d] = task[d]
         /\ \A d \in Conns : freed'[d] # freed[d] => d = c /\ holders[d] = {"task"}
<1>1. DropLink(c, "task")
  BY DEF EndBuild
<1>2. Unowned(c, "task") /\ \A d \in Conns : freed'[d] # freed[d] => d = c /\ holders[d] = {"task"}
  BY <1>1, DropUnowns
<1>3. QED
  BY <1>2 DEF EndBuild, RunTask, handler, Typed

LEMMA GetLinkStep ==
  ASSUME Typed, Arrivals, NEW h \in Handlers, GetLink(h)
  PROVE  /\ Conn(h) \in Conns /\ UNCHANGED <<freed, list, linkMap>>
         /\ \A c \in Conns : \/ holders'[c] = holders[c]
                             \/ /\ holders'[c] = holders[c] \cup {h}
                                /\ \E n \in Fds : linkMap[n] = c
         /\ \/ /\ Moves(h, "getLink", "unlink") /\ key'[h] = key[h] /\ number[Conn(h)] \in Fds
               /\ linkMap[number[Conn(h)]] # None /\ link'[h] = linkMap[number[Conn(h)]]
               /\ h \in holders'[link'[h]]
               /\ freed[Conn(h)] = 0
            \/ /\ Moves(h, "getLink", "delete") /\ link'[h] = link[h] /\ holders' = holders
               /\ key'[h] # None => /\ key'[h] = number[Conn(h)] /\ linkMap[number[Conn(h)]] = None
                                    /\ freed[Conn(h)] = 0
         /\ begun' = begun \cup {Conn(h)} /\ spoiled' = spoiled \cup ({Conn(h)} \cap begun)
<1>1. pc[h] = "getLink"
  BY DEF GetLink
<1>2. Conn(h) \in Conns /\ number[Conn(h)] \in Fds
  BY <1>1, HandlerConn
<1>3. freed[Conn(h)] \in Nat
  BY <1>2 DEF Typed
<1>4. Socket(Conn(h)) # None => freed[Conn(h)] = 0 /\ Socket(Conn(h)) = number[Conn(h)]
  BY <1>3 DEF Socket
<1>5. CASE Socket(Conn(h)) # None /\ linkMap[Socket(Conn(h))] # None
  BY <1>1, <1>2, <1>4, <1>5 DEF GetLink, Goto, Elsewhere, Moves, network, Typed
<1>6. CASE ~(Socket(Conn(h)) # None /\ linkMap[Socket(Conn(h))] # None)
  <2>1. Moves(h, "getLink", "delete") /\ key'[h] = Socket(Conn(h)) /\ link' = link /\ holders' = holders
    BY <1>1, <1>6 DEF GetLink, Goto, Elsewhere, Moves, network, Typed
  <2>2. QED
    BY <1>2, <1>4, <1>6, <2>1 DEF GetLink
<1>7. QED
  BY <1>5, <1>6

LEMMA UnlinkStep ==
  ASSUME Typed, Arrivals, NEW h \in Handlers, Unlink(h)
  PROVE  /\ Conn(h) \in Conns /\ Moves(h, "unlink", "unmap") /\ Unowned(Conn(h), "context")
         /\ UNCHANGED <<list, linkMap, link, begun, spoiled>>
         /\ key'[h] \in {number[Conn(h)], None}
         /\ \A d \in Conns : freed'[d] # freed[d] => d = Conn(h) /\ holders[d] = {"context"}
<1>1. pc[h] = "unlink" /\ Conn(h) \in Conns
  BY HandlerConn DEF Unlink, Goto
<1>2. DropLink(Conn(h), "context")
  BY DEF Unlink
<1>3. /\ Unowned(Conn(h), "context")
      /\ \A d \in Conns : freed'[d] # freed[d] => d = Conn(h) /\ holders[d] = {"context"}
  BY <1>2, DropUnowns
<1>4. QED
  BY <1>1, <1>3 DEF Unlink, Goto, Elsewhere, Moves, Socket, network, Typed

LEMMA UnmapStep ==
  ASSUME Typed, Arrivals, NEW h \in Handlers, Unmap(h)
  PROVE  /\ Conn(h) \in Conns /\ Moves(h, "unmap", "dropLink")
         /\ UNCHANGED <<list, key, link, begun, spoiled>>
         /\ \/ /\ key[h] \in Fds /\ linkMap[key[h]] \in Conns /\ Unowned(linkMap[key[h]], "map")
               /\ linkMap'[key[h]] = None /\ \A n \in Fds \ {key[h]} : linkMap'[n] = linkMap[n]
               /\ \A d \in Conns : freed'[d] # freed[d] => d = linkMap[key[h]] /\ holders[d] = {"map"}
            \/ UNCHANGED <<freed, holders, linkMap>>
<1>1. pc[h] = "unmap" /\ Conn(h) \in Conns
  BY HandlerConn DEF Unmap, Goto
<1>2. Moves(h, "unmap", "dropLink") /\ UNCHANGED <<list, key, link, begun, spoiled>>
  BY DEF Unmap, Goto, Elsewhere, Moves, network, Typed
<1>3. CASE key[h] # None /\ linkMap[key[h]] # None
  <2>1. key[h] \in Fds /\ linkMap[key[h]] \in Conns
    BY <1>3 DEF Typed
  <2>2. DropLink(linkMap[key[h]], "map") /\ linkMap' = [linkMap EXCEPT ![key[h]] = None]
    BY <1>3 DEF Unmap
  <2>3. /\ Unowned(linkMap[key[h]], "map")
        /\ \A d \in Conns : freed'[d] # freed[d] => d = linkMap[key[h]] /\ holders[d] = {"map"}
    BY <2>2, DropUnowns
  <2>4. QED
    BY <1>1, <1>2, <2>1, <2>2, <2>3 DEF Typed
<1>4. CASE ~(key[h] # None /\ linkMap[key[h]] # None)
  BY <1>1, <1>2, <1>4 DEF Unmap
<1>5. QED
  BY <1>3, <1>4

LEMMA DisConnectedStep ==
  ASSUME Typed, Arrivals, NEW h \in Handlers, DisConnected(h)
  PROVE  /\ Conn(h) \in Conns /\ key'[h] = None /\ link'[h] = None /\ Unowned(link[h], h)
         /\ \E to \in {"release", "wait"} : Moves(h, "dropLink", to)
         /\ UNCHANGED <<list, linkMap, begun, spoiled>>
         /\ \A d \in Conns : freed'[d] # freed[d] => d = link[h] /\ holders[d] = {h}
<1>1. pc[h] = "dropLink" /\ Conn(h) \in Conns
  BY HandlerConn DEF DisConnected, Removed, Goto
<1>2. DropLink(link[h], h)
  BY DEF DisConnected
<1>3. Unowned(link[h], h) /\ \A d \in Conns : freed'[d] # freed[d] => d = link[h] /\ holders[d] = {h}
  BY <1>2, DropUnowns
<1>4. QED
  BY <1>1, <1>3 DEF DisConnected, Removed, Goto, Elsewhere, Moves, network,
                    Typed

LEMMA DeleteStep ==
  ASSUME Typed, Arrivals, NEW h \in Handlers, DeleteSocketContext(h)
  PROVE  /\ Conn(h) \in Conns /\ key'[h] = None /\ link'[h] = None
         /\ \E to \in {"release", "wait"} : Moves(h, "delete", to)
         /\ UNCHANGED <<linkMap, begun>>
         /\ spoiled' = IF holders[Conn(h)] # {} THEN spoiled \cup {Conn(h)} ELSE spoiled
         /\ \/ /\ key[h] \in Fds /\ list[key[h]] \in Conns /\ Unowned(list[key[h]], "context")
               /\ list'[key[h]] = None /\ \A n \in Fds \ {key[h]} : list'[n] = list[n]
               /\ \A d \in Conns : freed'[d] # freed[d] => d = list[key[h]]
            \/ UNCHANGED <<freed, holders, list>>
<1>1. pc[h] = "delete" /\ Conn(h) \in Conns
  BY HandlerConn DEF DeleteSocketContext, Removed, Goto
<1>2. /\ key'[h] = None /\ link'[h] = None /\ UNCHANGED <<linkMap, begun>>
      /\ \E to \in {"release", "wait"} : Moves(h, "delete", to)
      /\ spoiled' = IF holders[Conn(h)] # {} THEN spoiled \cup {Conn(h)} ELSE spoiled
  BY <1>1 DEF DeleteSocketContext, LinkedSince, Removed, Goto, Elsewhere,
              Moves, network, Typed
<1>3. CASE key[h] # None /\ list[key[h]] # None
  <2>1. key[h] \in Fds /\ list[key[h]] \in Conns
    BY <1>3 DEF Typed
  <2>2. Unowned(list[key[h]], "context") /\ \A d \in Conns : freed'[d] # freed[d] => d = list[key[h]]
    BY <1>3, <2>1 DEF DeleteSocketContext, Unowned, Typed
  <2>3. list'[key[h]] = None /\ \A n \in Fds \ {key[h]} : list'[n] = list[n]
    BY <1>3, <2>1 DEF DeleteSocketContext, Typed
  <2>4. QED
    BY <1>1, <1>2, <2>1, <2>2, <2>3
<1>4. CASE ~(key[h] # None /\ list[key[h]] # None)
  BY <1>1, <1>2, <1>4 DEF DeleteSocketContext
<1>5. QED
  BY <1>3, <1>4


-------------------------------------------------------------------------------
(* The entries, and the locals of the removals.                            *)

LEMMA EntriesStep ==
  ASSUME Typed, Arrivals, Requests, Entries, [Next]_vars
  PROVE  Entries'
<1>1. CASE Quiet
  BY <1>1, NamesAssumption DEF Quiet, Entries, Typed
<1>2. ASSUME NEW c \in Conns, Accept(c)
      PROVE  Entries'
  <2>1. \A n \in Fds : list[n] # c /\ linkMap[n] # c
    BY <1>2, AcceptStep, NamesAssumption DEF Entries
  <2>2. QED
    BY <1>2, <2>1, AcceptStep DEF Entries, Typed
<1>3. ASSUME NEW c \in Conns, AddLinkNetObj(c)
      PROVE  Entries'
  <2>1. \A n \in Fds \ {number[c]} : linkMap[n] # c
    BY <1>3, AddLinkStep, NamesAssumption DEF Entries
  <2>2. QED
    BY <1>3, <2>1, AddLinkStep, NamesAssumption DEF Entries, Owners, Typed
<1>4. ASSUME NEW c \in Conns, LeaveList(c)
      PROVE  Entries'
  BY <1>4, LeaveListStep, NamesAssumption DEF Entries, Typed
<1>5. ASSUME NEW c \in Conns, EndBuild(c)
      PROVE  Entries'
  <2>1. UNCHANGED <<number, linkMap>>
    BY <1>5, EndBuildStep DEF Moves
  <2>2. \A n \in Fds : list'[n] # None => list'[n] = list[n]
    BY <1>5, EndBuildStep
  <2>3. \A d \in Conns : holders[d] = {} => holders'[d] = {}
    BY <1>5, EndBuildStep DEF Unowned
  <2>4. \A d \in Conns : "map" \in holders[d] => "map" \in holders'[d]
    BY <1>5, EndBuildStep, NamesAssumption DEF Unowned, Owners
  <2>5. \A d \in Conns : task'[d] \in {"none", "queued", "unlinked"} => task'[d] = task[d]
    BY <1>5, EndBuildStep DEF Moves
  <2>6. \A d \in Conns : task'[d] \in {"linked", "ack", "dropLink"} =>
          task'[d] = task[d] /\ ("task" \in holders[d] => "task" \in holders'[d])
    BY <1>5, EndBuildStep, NamesAssumption DEF Unowned, Moves, Owners
  <2>7. QED
    BY <2>1, <2>2, <2>3, <2>4, <2>5, <2>6 DEF Entries, Typed
<1>6. CASE EnterList
  BY <1>6, EnterListStep, NamesAssumption DEF Entries, Typed
<1>7. ASSUME NEW h \in Handlers, GetLink(h)
      PROVE  Entries'
  <2>1. \A d \in Conns : holders'[d] # holders[d] => "map" \in holders[d]
    BY <1>7, GetLinkStep, NamesAssumption DEF Entries
  <2>2. \A d \in Conns : holders[d] \subseteq holders'[d]
    BY <1>7, GetLinkStep
  <2>3. UNCHANGED <<number, task, list, linkMap>>
    BY <1>7, GetLinkStep DEF Moves
  <2>4. QED
    BY <2>1, <2>2, <2>3 DEF Entries, Typed
<1>8. ASSUME NEW h \in Handlers, Unlink(h)
      PROVE  Entries'
  <2>1. UNCHANGED <<number, linkMap>>
    BY <1>8, UnlinkStep DEF Moves
  <2>2. \A n \in Fds : list'[n] # None => list'[n] = list[n]
    BY <1>8, UnlinkStep
  <2>3. \A d \in Conns : holders[d] = {} => holders'[d] = {}
    BY <1>8, UnlinkStep DEF Unowned
  <2>4. \A d \in Conns : "map" \in holders[d] => "map" \in holders'[d]
    BY <1>8, UnlinkStep, NamesAssumption DEF Unowned, Owners
  <2>5. \A d \in Conns : task'[d] \in {"none", "queued", "unlinked"} => task'[d] = task[d]
    BY <1>8, UnlinkStep DEF Moves
  <2>6. \A d \in Conns : task'[d] \in {"linked", "ack", "dropLink"} =>
          task'[d] = task[d] /\ ("task" \in holders[d] => "task" \in holders'[d])
    BY <1>8, UnlinkStep, NamesAssumption DEF Unowned, Moves, Owners
  <2>7. QED
    BY <2>1, <2>2, <2>3, <2>4, <2>5, <2>6 DEF Entries, Typed
<1>9. ASSUME NEW h \in Handlers, Unmap(h)
      PROVE  Entries'
  <2>1. CASE UNCHANGED <<freed, holders, linkMap>>
    BY <1>9, <2>1, UnmapStep DEF Entries, Moves
  <2>2. CASE /\ key[h] \in Fds /\ linkMap[key[h]] \in Conns /\ Unowned(linkMap[key[h]], "map")
             /\ linkMap'[key[h]] = None /\ \A n \in Fds \ {key[h]} : linkMap'[n] = linkMap[n]
    <3>1. \A n \in Fds : linkMap'[n] # None =>
            n # key[h] /\ linkMap'[n] = linkMap[n] /\ linkMap[n] # linkMap[key[h]]
      BY <2>2, NamesAssumption DEF Entries
    <3>2. UNCHANGED <<number, task, list>>
      BY <1>9, UnmapStep DEF Moves
    <3>3. \A n \in Fds : linkMap'[n] # None => holders'[linkMap[n]] = holders[linkMap[n]]
      <4>1. \A n \in Fds : linkMap'[n] # None => linkMap[n] \in Conns
        BY <3>1 DEF Typed
      <4>2. QED
        BY <2>2, <3>1, <4>1 DEF Unowned
    <3>4. \A n \in Fds : linkMap'[n] # None =>
            number[linkMap'[n]] = n /\ "map" \in holders'[linkMap'[n]]
      BY <3>1, <3>3 DEF Entries
    <3>5. \A d \in Conns : holders[d] = {} => holders'[d] = {}
      BY <2>2 DEF Unowned
    <3>6. \A d \in Conns : "task" \in holders[d] => "task" \in holders'[d]
      BY <2>2 DEF Unowned
    <3>7. /\ \A d \in Conns : task'[d] \in {"none", "queued", "unlinked"} => holders'[d] = {}
          /\ \A d \in Conns : task'[d] \in {"linked", "ack", "dropLink"} => "task" \in holders'[d]
      BY <3>2, <3>5, <3>6 DEF Entries
    <3>8. QED
      BY <3>2, <3>4, <3>7 DEF Entries
  <2>3. QED
    BY <1>9, <2>1, <2>2, UnmapStep
<1>10. ASSUME NEW h \in Handlers, DisConnected(h)
      PROVE  Entries'
  <2>1. UNCHANGED <<number, linkMap>>
    BY <1>10, DisConnectedStep DEF Moves
  <2>2. \A n \in Fds : list'[n] # None => list'[n] = list[n]
    BY <1>10, DisConnectedStep
  <2>3. \A d \in Conns : holders[d] = {} => holders'[d] = {}
    BY <1>10, DisConnectedStep DEF Unowned
  <2>4. h \notin {"map", "task"} /\ Unowned(link[h], h)
    BY <1>10, DisConnectedStep, NamesAssumption
  <2>5. \A d \in Conns : "map" \in holders[d] => "map" \in holders'[d]
    BY <2>4 DEF Unowned
  <2>6. task' = task
    BY <1>10 DEF DisConnected, Elsewhere
  <2>7. \A d \in Conns : "task" \in holders[d] => "task" \in holders'[d]
    BY <2>4 DEF Unowned
  <2>8. QED
    BY <2>1, <2>2, <2>3, <2>5, <2>6, <2>7 DEF Entries, Typed
<1>11. ASSUME NEW h \in Handlers, DeleteSocketContext(h)
      PROVE  Entries'
  <2>1. UNCHANGED <<number, linkMap>>
    BY <1>11, DeleteStep DEF Moves
  <2>2. \A n \in Fds : list'[n] # None => list'[n] = list[n]
    BY <1>11, DeleteStep
  <2>3. holders' = holders \/ Unowned(list[key[h]], "context")
    BY <1>11, DeleteStep
  <2>4. task' = task
    BY <1>11, DeleteStep DEF Moves
  <2>5. \A d \in Conns : holders[d] = {} => holders'[d] = {}
    BY <2>3 DEF Unowned
  <2>6. \A d \in Conns : "map" \in holders[d] => "map" \in holders'[d]
    BY <2>3 DEF Unowned
  <2>7. \A d \in Conns : task'[d] \in {"none", "queued", "unlinked"} => task'[d] = task[d]
    BY <1>11, DeleteStep DEF Moves
  <2>8. \A d \in Conns : task'[d] \in {"linked", "ack", "dropLink"} =>
          task'[d] = task[d] /\ ("task" \in holders[d] => "task" \in holders'[d])
    BY <2>3, <2>4 DEF Unowned
  <2>9. QED
    BY <2>1, <2>2, <2>5, <2>6, <2>7, <2>8 DEF Entries, Typed
<1>12. QED
  BY QuietOrTable, <1>1, <1>2, <1>3, <1>4, <1>5, <1>6, <1>7, <1>8, <1>9, <1>10, <1>11
  DEF TableStep, RemoveSocketContext


\* An owner of a LinkNetObj that is no handler gives it up.
LEMMA HoldersKept ==
  ASSUME Typed, Locals, NEW d, NEW owner \in Owners, Unowned(d, owner)
  PROVE  \A g \in Handlers : link[g] # None => g \in holders'[link[g]]
<1>1. \A g \in Handlers : g # owner
  BY NamesAssumption DEF Owners
<1>2. \A g \in Handlers : link[g] # None => link[g] \in Conns /\ g \in holders[link[g]]
  BY DEF Locals, Typed
<1>3. QED
  BY <1>1, <1>2 DEF Unowned

LEMMA LocalsKept ==
  ASSUME Typed, Arrivals, Locals, UNCHANGED <<pc, job, key, link>>,
         begun \subseteq begun', spoiled \subseteq spoiled',
         \A d \in Conns : number[d] # None => number'[d] = number[d],
         \A g \in Handlers : link[g] # None => g \in holders'[link[g]]
  PROVE  Locals'
<1>1. \A g \in Handlers : pc[g] # "wait" => number'[Conn(g)] = number[Conn(g)]
  BY HandlerConn
<1>2. \A g \in Handlers : key[g] # None \/ link[g] # None => pc[g] # "wait"
  BY DEF Locals, Linked
<1>3. \A g \in Handlers : link[g] # None => number'[link[g]] = number[link[g]]
  <2>1. \A g \in Handlers : link[g] # None => link[g] \in Conns /\ number[link[g]] # None
    BY <1>2, HandlerConn DEF Locals, Typed
  <2>2. QED
    BY <2>1
<1>4. QED
  BY <1>1, <1>2, <1>3 DEF Locals, Conn

LEMMA LocalsMoved ==
  ASSUME Typed, Arrivals, Locals, NEW h \in Handlers, NEW from, NEW to, Moves(h, from, to),
         begun \subseteq begun', spoiled \subseteq spoiled',
         \A g \in Handlers \ {h} : link[g] # None => g \in holders'[link[g]],
         to \notin {"unmap", "dropLink", "delete"} => key'[h] = None,
         key'[h] \in {None, number[Conn(h)]},
         link'[h] # None <=> to \in Linked,
         link'[h] # None => h \in holders'[link'[h]] /\ number[link'[h]] = number[Conn(h)],
         to \in Linked \cup {"delete"} => Conn(h) \in begun',
         from \in Linked \cup {"delete"} \/ to \notin Linked \cup {"delete"}
           \/ (Conn(h) \in begun => Conn(h) \in spoiled')
  PROVE  Locals'
<1>1. /\ pc[h] = from /\ pc'[h] = to /\ UNCHANGED <<job, number>>
      /\ \A g \in Handlers \ {h} : pc'[g] = pc[g] /\ key'[g] = key[g] /\ link'[g] = link[g]
      /\ \A g \in Handlers : Conn(g)' = Conn(g)
  BY DEF Moves, Conn
<1>2. \A g \in Handlers :
        /\ pc'[g] \notin {"unmap", "dropLink", "delete"} => key'[g] = None
        /\ key'[g] # None => key'[g] = number'[Conn(g)']
        /\ link'[g] # None <=> pc'[g] \in Linked
        /\ link'[g] # None => g \in holders'[link'[g]] /\ number'[link'[g]] = number'[Conn(g)']
        /\ pc'[g] \in Linked \cup {"delete"} => Conn(g)' \in begun'
  <2>1. TAKE g \in Handlers
  <2>2. CASE g = h
    BY <1>1, <2>2
  <2>3. CASE g # h
    BY <1>1, <2>3 DEF Locals
  <2>4. QED
    BY <2>2, <2>3
<1>3. \A g, k \in Handlers :
        g # k /\ pc'[g] \in Linked \cup {"delete"} /\ pc'[k] \in Linked \cup {"delete"}
          /\ Conn(g) = Conn(k) => Conn(g) \in spoiled'
  <2>1. SUFFICES ASSUME NEW g \in Handlers, NEW k \in Handlers,
                        g # k, pc'[g] \in Linked \cup {"delete"}, pc'[k] \in Linked \cup {"delete"},
                        Conn(g) = Conn(k)
                 PROVE  Conn(g) \in spoiled'
    OBVIOUS
  <2>2. CASE g # h /\ k # h
    BY <1>1, <2>1, <2>2 DEF Locals
  <2>3. CASE g = h
    BY <1>1, <2>1, <2>3 DEF Locals
  <2>4. CASE k = h
    BY <1>1, <2>1, <2>4 DEF Locals
  <2>5. QED
    BY <2>2, <2>3, <2>4
<1>4. QED
  BY <1>1, <1>2, <1>3 DEF Locals

LEMMA LocalsStep ==
  ASSUME Typed, Arrivals, Requests, Locals, Entries, [Next]_vars
  PROVE  Locals'
<1>1. CASE Quiet
  <2>1. \A g \in Handlers : pc[g] \notin Removing => key[g] = None /\ link[g] = None
    BY DEF Locals, Linked, Removing
  <2>2. \A g \in Handlers : pc[g] \in Removing => pc'[g] = pc[g] /\ Conn(g)' = Conn(g)
    BY <1>1 DEF Quiet, Conn
  <2>3. \A g \in Handlers : pc'[g] \in Linked \cup {"delete"} => pc'[g] = pc[g] /\ pc[g] \in Removing
    BY <1>1 DEF Quiet, Linked, Removing
  <2>4. UNCHANGED <<number, holders, key, link, begun, spoiled>>
    BY <1>1 DEF Quiet
  <2>5. \A g \in Handlers :
          /\ pc'[g] \notin {"unmap", "dropLink", "delete"} => key[g] = None
          /\ link[g] # None <=> pc'[g] \in Linked
    <3>1. TAKE g \in Handlers
    <3>2. CASE pc[g] \in Removing
      BY <2>2, <3>2 DEF Locals
    <3>3. CASE pc[g] \notin Removing
      BY <2>1, <2>3, <3>3 DEF Linked
    <3>4. QED
      BY <3>2, <3>3
  <2>6. \A g \in Handlers : key[g] # None \/ link[g] # None => pc[g] \in Removing
    BY <2>1
  <2>7. QED
    BY <2>2, <2>3, <2>4, <2>5, <2>6 DEF Locals
<1>2. ASSUME NEW c \in Conns, Accept(c)
      PROVE  Locals'
  <2>1. /\ UNCHANGED <<pc, job, key, link, begun, spoiled, holders>>
        /\ \A d \in Conns : number[d] # None => number'[d] = number[d]
    BY <1>2, AcceptStep
  <2>2. QED
    BY <2>1, LocalsKept DEF Locals
<1>3. ASSUME NEW c \in Conns, AddLinkNetObj(c)
      PROVE  Locals'
  <2>1. \A g \in Handlers : link[g] # c
    <3>1. holders[c] = {}
      BY <1>3, AddLinkStep DEF Entries
    <3>2. QED
      BY <3>1, NamesAssumption DEF Locals
  <2>2. \A g \in Handlers : link[g] # None => g \in holders'[link[g]]
    BY <1>3, <2>1, AddLinkStep DEF Locals, Typed
  <2>3. UNCHANGED <<number, pc, job, key, link, begun, spoiled>>
    BY <1>3, AddLinkStep
  <2>4. QED
    BY <2>2, <2>3, LocalsKept
<1>4. ASSUME NEW c \in Conns, LeaveList(c)
      PROVE  Locals'
  <2>1. UNCHANGED <<number, pc, job, key, link, begun, spoiled, holders>>
    BY <1>4, LeaveListStep
  <2>2. QED
    BY <2>1, LocalsKept DEF Locals
<1>5. ASSUME NEW c \in Conns, EndBuild(c)
      PROVE  Locals'
  <2>1. UNCHANGED <<number, pc, job, key, link, begun, spoiled>> /\ Unowned(c, "task")
    BY <1>5, EndBuildStep
  <2>2. \A g \in Handlers : link[g] # None => g \in holders'[link[g]]
    BY <2>1, HoldersKept DEF Owners
  <2>3. QED
    BY <2>1, <2>2, LocalsKept
<1>6. CASE EnterList
  <2>1. UNCHANGED <<number, pc, job, key, link, begun, holders>> /\ spoiled \subseteq spoiled'
    BY <1>6, EnterListStep DEF EnterList
  <2>2. QED
    BY <2>1, LocalsKept DEF Locals
<1>7. ASSUME NEW h \in Handlers, GetLink(h)
      PROVE  Locals'
  <2>1. Conn(h) \in Conns /\ begun' = begun \cup {Conn(h)} /\ spoiled' = spoiled \cup ({Conn(h)} \cap begun)
    BY <1>7, GetLinkStep
  <2>2. \A d \in Conns : holders[d] \subseteq holders'[d]
    BY <1>7, GetLinkStep
  <2>3. \A g \in Handlers \ {h} : link[g] # None => g \in holders'[link[g]]
    BY <2>2 DEF Locals, Typed
  <2>4. pc[h] = "getLink" /\ key[h] = None /\ link[h] = None
    BY <1>7 DEF GetLink, Locals, Linked
  <2>5. CASE /\ Moves(h, "getLink", "unlink") /\ key'[h] = key[h] /\ number[Conn(h)] \in Fds
             /\ linkMap[number[Conn(h)]] # None /\ link'[h] = linkMap[number[Conn(h)]]
             /\ h \in holders'[link'[h]]
    <3>1. number[link'[h]] = number[Conn(h)]
      BY <2>5 DEF Entries
    <3>2. QED
      BY <2>1, <2>3, <2>4, <2>5, <3>1, LocalsMoved DEF Linked
  <2>6. CASE /\ Moves(h, "getLink", "delete") /\ link'[h] = link[h]
             /\ key'[h] # None => key'[h] = number[Conn(h)]
    BY <2>1, <2>3, <2>4, <2>6, LocalsMoved DEF Linked
  <2>7. QED
    BY <1>7, <2>5, <2>6, GetLinkStep
<1>8. ASSUME NEW h \in Handlers, Unlink(h)
      PROVE  Locals'
  <2>1. /\ Conn(h) \in Conns /\ Moves(h, "unlink", "unmap") /\ Unowned(Conn(h), "context")
        /\ UNCHANGED <<link, begun, spoiled>> /\ key'[h] \in {number[Conn(h)], None}
    BY <1>8, UnlinkStep
  <2>2. \A g \in Handlers : link[g] # None => g \in holders'[link[g]]
    BY <2>1, HoldersKept DEF Owners
  <2>3. pc[h] = "unlink"
    BY <2>1 DEF Moves
  <2>4. /\ link[h] # None /\ number[link[h]] = number[Conn(h)] /\ Conn(h) \in begun
    BY <2>3 DEF Locals, Linked
  <2>5. QED
    BY <2>1, <2>2, <2>3, <2>4, LocalsMoved DEF Linked
<1>9. ASSUME NEW h \in Handlers, Unmap(h)
      PROVE  Locals'
  <2>1. /\ Conn(h) \in Conns /\ Moves(h, "unmap", "dropLink")
        /\ UNCHANGED <<key, link, begun, spoiled>>
        /\ holders' = holders \/ Unowned(linkMap[key[h]], "map")
    BY <1>9, UnmapStep
  <2>2. \A g \in Handlers : link[g] # None => g \in holders'[link[g]]
    BY <2>1, HoldersKept DEF Owners, Locals
  <2>3. pc[h] = "unmap"
    BY <2>1 DEF Moves
  <2>4. /\ link[h] # None /\ number[link[h]] = number[Conn(h)] /\ Conn(h) \in begun
        /\ key[h] \in {None, number[Conn(h)]}
    BY <2>3 DEF Locals, Linked
  <2>5. QED
    BY <2>1, <2>2, <2>3, <2>4, LocalsMoved DEF Linked
<1>10. ASSUME NEW h \in Handlers, DisConnected(h)
      PROVE  Locals'
  <2>1. /\ Conn(h) \in Conns /\ key'[h] = None /\ link'[h] = None /\ Unowned(link[h], h)
        /\ UNCHANGED <<begun, spoiled>>
    BY <1>10, DisConnectedStep
  <2>2. PICK to \in {"release", "wait"} : Moves(h, "dropLink", to)
    BY <1>10, DisConnectedStep
  <2>3. \A g \in Handlers \ {h} : link[g] # None => g \in holders'[link[g]]
    <3>1. \A g \in Handlers : link[g] # None => link[g] \in Conns /\ g \in holders[link[g]]
      BY DEF Locals, Typed
    <3>2. QED
      BY <2>1, <3>1 DEF Unowned
  <2>4. /\ to \notin Linked \cup {"delete"}
        /\ link'[h] # None <=> to \in Linked
        /\ link'[h] # None => h \in holders'[link'[h]] /\ number[link'[h]] = number[Conn(h)]
    BY <2>1, <2>2 DEF Linked
  <2>5. QED
    BY <2>1, <2>2, <2>3, <2>4, LocalsMoved DEF Linked
<1>11. ASSUME NEW h \in Handlers, DeleteSocketContext(h)
      PROVE  Locals'
  <2>1. /\ Conn(h) \in Conns /\ key'[h] = None /\ link'[h] = None
        /\ begun' = begun /\ spoiled \subseteq spoiled'
        /\ holders' = holders \/ Unowned(list[key[h]], "context")
    BY <1>11, DeleteStep
  <2>2. PICK to \in {"release", "wait"} : Moves(h, "delete", to)
    BY <1>11, DeleteStep
  <2>3. \A g \in Handlers : link[g] # None => g \in holders'[link[g]]
    BY <2>1, HoldersKept DEF Owners, Locals
  <2>4. QED
    BY <2>1, <2>2, <2>3, LocalsMoved DEF Linked
<1>12. QED
  BY QuietOrTable, <1>1, <1>2, <1>3, <1>4, <1>5, <1>6, <1>7, <1>8, <1>9, <1>10, <1>11
  DEF TableStep, RemoveSocketContext


-------------------------------------------------------------------------------
(* A number in the hands of its latest connection.                         *)

LEMMA GoneStays ==
  ASSUME Typed, Arrivals, Requests, Locals, [Next]_vars, NEW d \in Conns, freed[d] > 0, Gone(d)
  PROVE  Gone(d)'
<1>1. CASE Quiet
  <2>1. \A g \in Handlers : pc[g] \notin Removing => key[g] = None /\ link[g] = None
    BY DEF Locals, Linked, Removing
  <2>2. \A g \in Handlers : \/ pc'[g] = pc[g] /\ Conn(g)' = Conn(g)
                            \/ pc[g] \notin Removing
    BY <1>1 DEF Quiet, Conn
  <2>3. UNCHANGED <<list, linkMap, key, link>>
    BY <1>1 DEF Quiet
  <2>4. QED
    BY <2>1, <2>2, <2>3 DEF Gone
<1>2. ASSUME NEW c \in Conns, Accept(c)
      PROVE  Gone(d)'
  <2>1. UNCHANGED <<list, linkMap, pc, job, key, link>>
    BY <1>2, AcceptStep
  <2>2. QED
    BY <2>1 DEF Gone, Conn
<1>3. ASSUME NEW c \in Conns, AddLinkNetObj(c)
      PROVE  Gone(d)'
  <2>1. c # d /\ UNCHANGED <<list, pc, job, key, link>>
    BY <1>3, AddLinkStep
  <2>2. \A n \in Fds : linkMap'[n] # d
    BY <1>3, <2>1, AddLinkStep DEF Gone
  <2>3. QED
    BY <2>1, <2>2 DEF Gone, Conn
<1>4. ASSUME NEW c \in Conns, LeaveList(c)
      PROVE  Gone(d)'
  <2>1. UNCHANGED <<linkMap, pc, job, key, link>>
    BY <1>4, LeaveListStep
  <2>2. \A n \in Fds : list'[n] # d
    BY <1>4, LeaveListStep, NamesAssumption DEF Gone
  <2>3. QED
    BY <2>1, <2>2 DEF Gone, Conn
<1>5. ASSUME NEW c \in Conns, EndBuild(c)
      PROVE  Gone(d)'
  <2>1. UNCHANGED <<list, linkMap, pc, job, key, link>>
    BY <1>5, EndBuildStep
  <2>2. QED
    BY <2>1 DEF Gone, Conn
<1>6. CASE EnterList
  <2>1. UNCHANGED <<linkMap, pc, job, key, link>>
    BY <1>6, EnterListStep
  <2>2. \A n \in Fds : list'[n] # d
    BY <1>6, EnterListStep DEF Gone
  <2>3. QED
    BY <2>1, <2>2 DEF Gone, Conn
<1>7. ASSUME NEW h \in Handlers, GetLink(h)
      PROVE  Gone(d)'
  <2>1. UNCHANGED job /\ \A g \in Handlers \ {h} : pc'[g] = pc[g] /\ key'[g] = key[g] /\ link'[g] = link[g]
    BY <1>7, GetLinkStep DEF Moves
  <2>2. \A n \in Fds : list'[n] # d /\ linkMap'[n] # d
    BY <1>7, GetLinkStep DEF Gone
  <2>3. link'[h] # d
    BY <1>7, GetLinkStep DEF Gone
  <2>4. Conn(h) = d => key'[h] = None /\ link'[h] = None
    <3>1. pc[h] # "wait"
      BY <1>7 DEF GetLink
    <3>2. QED
      BY <1>7, <3>1, GetLinkStep DEF Gone
  <2>5. QED
    BY <2>1, <2>2, <2>3, <2>4 DEF Gone, Conn
<1>8. ASSUME NEW h \in Handlers, Unlink(h)
      PROVE  Gone(d)'
  <2>1. UNCHANGED job /\ \A g \in Handlers \ {h} : pc'[g] = pc[g] /\ key'[g] = key[g] /\ link'[g] = link[g]
    BY <1>8, UnlinkStep DEF Moves
  <2>2. \A n \in Fds : list'[n] # d /\ linkMap'[n] # d
    BY <1>8, UnlinkStep DEF Gone
  <2>3. link'[h] # d
    BY <1>8, UnlinkStep DEF Gone
  <2>4. Conn(h) # d
    <3>1. pc[h] = "unlink"
      BY <1>8, UnlinkStep DEF Moves
    <3>2. QED
      BY <3>1 DEF Gone, Locals, Linked
  <2>5. QED
    BY <2>1, <2>2, <2>3, <2>4 DEF Gone, Conn
<1>9. ASSUME NEW h \in Handlers, Unmap(h)
      PROVE  Gone(d)'
  <2>1. UNCHANGED job /\ \A g \in Handlers \ {h} : pc'[g] = pc[g] /\ key'[g] = key[g] /\ link'[g] = link[g]
    BY <1>9, UnmapStep DEF Moves
  <2>2. \A n \in Fds : list'[n] # d /\ linkMap'[n] # d
    BY <1>9, UnmapStep, NamesAssumption DEF Gone
  <2>3. link'[h] # d
    BY <1>9, UnmapStep DEF Gone
  <2>4. Conn(h) # d
    <3>1. pc[h] = "unmap"
      BY <1>9, UnmapStep DEF Moves
    <3>2. QED
      BY <3>1 DEF Gone, Locals, Linked
  <2>5. QED
    BY <2>1, <2>2, <2>3, <2>4 DEF Gone, Conn
<1>10. ASSUME NEW h \in Handlers, DisConnected(h)
      PROVE  Gone(d)'
  <2>1. UNCHANGED job /\ \A g \in Handlers \ {h} : pc'[g] = pc[g] /\ key'[g] = key[g] /\ link'[g] = link[g]
    BY <1>10, DisConnectedStep DEF Moves
  <2>2. \A n \in Fds : list'[n] # d /\ linkMap'[n] # d
    BY <1>10, DisConnectedStep DEF Gone
  <2>3. link'[h] # d
    BY <1>10, DisConnectedStep, NamesAssumption
  <2>4. key'[h] = None /\ link'[h] = None
    BY <1>10, DisConnectedStep
  <2>5. QED
    BY <2>1, <2>2, <2>3, <2>4 DEF Gone, Conn
<1>11. ASSUME NEW h \in Handlers, DeleteSocketContext(h)
      PROVE  Gone(d)'
  <2>1. UNCHANGED job /\ \A g \in Handlers \ {h} : pc'[g] = pc[g] /\ key'[g] = key[g] /\ link'[g] = link[g]
    BY <1>11, DeleteStep DEF Moves
  <2>2. \A n \in Fds : list'[n] # d /\ linkMap'[n] # d
    BY <1>11, DeleteStep, NamesAssumption DEF Gone
  <2>3. link'[h] # d
    BY <1>11, DeleteStep, NamesAssumption
  <2>4. key'[h] = None /\ link'[h] = None
    BY <1>11, DeleteStep
  <2>5. QED
    BY <2>1, <2>2, <2>3, <2>4 DEF Gone, Conn
<1>12. QED
  BY QuietOrTable, <1>1, <1>2, <1>3, <1>4, <1>5, <1>6, <1>7, <1>8, <1>9, <1>10, <1>11
  DEF TableStep, RemoveSocketContext

LEMMA NumbersStay ==
  ASSUME Typed, Arrivals, [Next]_vars
  PROVE  /\ \A c \in Conns : number[c] # None => number'[c] = number[c] /\ number[c] \in Fds
         /\ \A n \in Fds : (\A d \in spoiled' : number'[d] # n) => Clean(n)
         /\ \A c \in Conns : number[c] # None /\ (\A d \in spoiled' \ {c} : number'[d] # number[c])
              => Undisturbed(c)
<1>1. \A c \in Conns : number[c] # None => number'[c] = number[c] /\ number[c] \in Fds
  BY StepGrows DEF Grows, Typed
<1>2. \A d \in spoiled : d \in spoiled' /\ number'[d] = number[d]
  BY <1>1, StepGrows DEF Grows, Arrivals, Unborn, Typed
<1>3. QED
  BY <1>1, <1>2 DEF Clean, Undisturbed

\* While nothing was spoiled, only the connection that has the number is met.
LEMMA Owns ==
  ASSUME Typed, Arrivals, Locals, Entries, Numbers,
         NEW c \in Conns, number[c] # None, freed[c] = 0, Undisturbed(c)
  PROVE  /\ \A h \in Handlers : key[h] = number[c] \/ link[h] = c => Conn(h) = c
         /\ \A h \in Handlers : pc[h] \in Linked /\ Conn(h) = c => link[h] = c
         /\ linkMap[number[c]] \in {None, c} /\ list[number[c]] \in {None, c}
<1>1. number[c] \in Fds
  BY DEF Typed
<1>2. \A d \in Conns : d # c /\ number[d] = number[c] => Gone(d)
  BY DEF Numbers
<1>3. \A h \in Handlers : key[h] # None \/ link[h] # None =>
        pc[h] # "wait" /\ Conn(h) \in Conns
  BY HandlerConn DEF Locals, Linked
<1>4. \A h \in Handlers : key[h] = number[c] \/ link[h] = c => Conn(h) = c
  <2>1. SUFFICES ASSUME NEW h \in Handlers, key[h] = number[c] \/ link[h] = c, Conn(h) # c
                 PROVE  FALSE
    OBVIOUS
  <2>2. c # None
    BY NamesAssumption
  <2>3. (key[h] # None \/ link[h] # None) /\ number[Conn(h)] = number[c]
    BY <2>1, <2>2 DEF Locals
  <2>4. Gone(Conn(h)) /\ pc[h] # "wait"
    BY <1>2, <1>3, <2>1, <2>3
  <2>5. QED
    BY <2>3, <2>4 DEF Gone
<1>5. \A h \in Handlers : pc[h] \in Linked /\ Conn(h) = c => link[h] = c
  <2>1. SUFFICES ASSUME NEW h \in Handlers, pc[h] \in Linked, Conn(h) = c, link[h] # c
                 PROVE  FALSE
    OBVIOUS
  <2>2. link[h] \in Conns /\ number[link[h]] = number[c]
    BY <2>1 DEF Locals, Typed
  <2>3. Gone(link[h])
    BY <1>2, <2>1, <2>2
  <2>4. QED
    BY <2>3 DEF Gone
<1>6. linkMap[number[c]] \in {None, c} /\ list[number[c]] \in {None, c}
  <2>1. \A d \in Conns \ {c} : linkMap[number[c]] # d /\ list[number[c]] # d
    BY <1>1, <1>2, NamesAssumption DEF Gone, Entries
  <2>2. QED
    BY <1>1, <2>1 DEF Typed
<1>7. QED
  BY <1>4, <1>5, <1>6

\* A handler that removes a connection which has its context has seen it broken.
LEMMA OwnLeft ==
  ASSUME Typed, Arrivals, NEW c \in Conns, freed[c] = 0,
         NEW h \in Handlers, Conn(h) = c, pc[h] \in Linked \cup {"delete"}
  PROVE  peer[c] = "left"
<1>1. pc[h] # "wait" /\ pc[h] \in Ending
  BY DEF Linked, Ending, Removing
<1>2. Broken(c)
  BY <1>1 DEF Arrivals, HandlerSound
<1>3. QED
  BY <1>2 DEF Broken

LEMMA FreedStep ==
  ASSUME Typed, Arrivals, Requests, [Next]_vars, NEW c \in Conns, freed[c] = 0, freed'[c] > 0
  PROVE  \/ task[c] = "queued" /\ linkMap[number[c]] # None
         \/ EndBuild(c) /\ holders[c] = {"task"}
         \/ \E h \in Handlers :
              \/ Unlink(h) /\ Conn(h) = c /\ holders[c] = {"context"}
              \/ Unmap(h) /\ key[h] \in Fds /\ linkMap[key[h]] = c /\ holders[c] = {"map"}
              \/ DisConnected(h) /\ link[h] = c /\ holders[c] = {h}
              \/ DeleteSocketContext(h) /\ key[h] \in Fds /\ list[key[h]] = c
<1>1. freed'[c] # freed[c]
  OBVIOUS
<1>2. ~Quiet /\ ~EnterList
  BY <1>1, EnterListStep DEF Quiet
<1>3. \A d \in Conns : ~Accept(d) /\ ~LeaveList(d)
  BY <1>1, AcceptStep, LeaveListStep
<1>4. \A h \in Handlers : ~GetLink(h)
  BY <1>1, GetLinkStep
<1>5. \A d \in Conns : AddLinkNetObj(d) => d = c /\ task[c] = "queued" /\ linkMap[number[c]] # None
  BY <1>1, AddLinkStep
<1>6. \A d \in Conns : EndBuild(d) => d = c /\ holders[c] = {"task"}
  BY <1>1, EndBuildStep
<1>7. \A h \in Handlers : Unlink(h) => Conn(h) = c /\ holders[c] = {"context"}
  BY <1>1, UnlinkStep
<1>8. \A h \in Handlers : Unmap(h) => key[h] \in Fds /\ linkMap[key[h]] = c /\ holders[c] = {"map"}
  BY <1>1, UnmapStep
<1>9. \A h \in Handlers : DisConnected(h) => link[h] = c /\ holders[c] = {h}
  BY <1>1, DisConnectedStep
<1>10. \A h \in Handlers : DeleteSocketContext(h) => key[h] \in Fds /\ list[key[h]] = c
  BY <1>1, DeleteStep
<1>11. QED
  BY <1>2, <1>3, <1>4, <1>5, <1>6, <1>7, <1>8, <1>9, <1>10, QuietOrTable
  DEF TableStep, RemoveSocketContext

\* Who takes the shares of the context and of the map.
LEMMA UnkeptStep ==
  ASSUME Typed, Arrivals, Requests, Locals, [Next]_vars, NEW c \in Conns, Kept(c), ~Kept(c)',
         task[c] # "queued"
  PROVE  \E h \in Handlers :
           \/ Unlink(h) /\ Conn(h) = c
           \/ Unmap(h) /\ key[h] \in Fds /\ linkMap[key[h]] = c
           \/ DeleteSocketContext(h) /\ key[h] \in Fds /\ list[key[h]] = c
<1>1. \E o \in {"map", "context"} : o \in holders[c] /\ o \notin holders'[c]
  BY DEF Kept
<1>2. holders'[c] # holders[c]
  BY <1>1
<1>3. ~Quiet /\ ~EnterList
  BY <1>2, EnterListStep DEF Quiet
<1>4. \A d \in Conns : ~Accept(d) /\ ~LeaveList(d) /\ ~AddLinkNetObj(d)
  BY <1>2, AcceptStep, LeaveListStep, AddLinkStep
<1>5. \A h \in Handlers : ~GetLink(h)
  BY <1>1, GetLinkStep
<1>6. \A d \in Conns : ~EndBuild(d)
  BY <1>1, EndBuildStep DEF Unowned
<1>7. \A h \in Handlers : ~DisConnected(h)
  <2>1. SUFFICES ASSUME NEW h \in Handlers, DisConnected(h)
                 PROVE  FALSE
    OBVIOUS
  <2>2. Unowned(link[h], h) /\ h \notin {"map", "context"}
    BY <2>1, DisConnectedStep, NamesAssumption
  <2>3. QED
    BY <1>1, <2>2 DEF Unowned
<1>8. \A h \in Handlers : Unlink(h) => Conn(h) = c
  BY <1>2, UnlinkStep DEF Unowned
<1>9. \A h \in Handlers : Unmap(h) => key[h] \in Fds /\ linkMap[key[h]] = c
  BY <1>2, UnmapStep DEF Unowned
<1>10. \A h \in Handlers : DeleteSocketContext(h) => key[h] \in Fds /\ list[key[h]] = c
  BY <1>2, DeleteStep DEF Unowned
<1>11. QED
  BY <1>3, <1>4, <1>5, <1>6, <1>7, <1>8, <1>9, <1>10, QuietOrTable DEF TableStep,
                                                                       RemoveSocketContext


LEMMA FreedBorn ==
  ASSUME Typed, Arrivals, Requests, Entries, [Next]_vars, NEW c \in Conns, freed[c] = 0, freed'[c] > 0
  PROVE  number[c] # None
<1>1. SUFFICES ASSUME number[c] = None
               PROVE  FALSE
  OBVIOUS
<1>2. holders[c] = {} /\ task[c] = "none"
  BY <1>1 DEF Arrivals, Unborn
<1>3. \A n \in Fds : list[n] # c
  BY <1>1, NamesAssumption DEF Entries
<1>4. QED
  BY <1>2, <1>3, FreedStep

\* A context that goes while its number is sound has no trace left.
LEMMA FreedGone ==
  ASSUME Typed, Arrivals, Requests, Locals, Entries, Numbers, Order, [Next]_vars,
         NEW c \in Conns, freed[c] = 0, freed'[c] > 0, \A d \in spoiled' : number'[d] # number[c]
  PROVE  Gone(c)'
<1>1. number[c] # None /\ number[c] \in Fds
  BY FreedBorn DEF Typed
<1>2. Clean(number[c]) /\ Undisturbed(c)
  <2>1. Clean(number[c])
    BY <1>1, NumbersStay
  <2>2. QED
    BY <2>1 DEF Clean, Undisturbed
<1>3. /\ \A h \in Handlers : key[h] = number[c] \/ link[h] = c => Conn(h) = c
      /\ \A h \in Handlers : pc[h] \in Linked /\ Conn(h) = c => link[h] = c
      /\ linkMap[number[c]] \in {None, c} /\ list[number[c]] \in {None, c}
  BY <1>1, <1>2, Owns
<1>4. \A n \in Fds : /\ list[n] = c => n = number[c]
                     /\ linkMap[n] = c => n = number[c] /\ "map" \in holders[c]
  BY NamesAssumption DEF Entries
<1>5. \A g \in Handlers : link[g] = c => g \in holders[c]
  BY NamesAssumption DEF Locals
<1>6. c \notin spoiled
  BY <1>2 DEF Clean
<1>7. \A g \in Handlers : Conn(g) = c /\ link[g] # c => link[g] = None /\ pc[g] \notin Linked
  BY <1>3 DEF Locals
<1>8. \A g \in Handlers : Conn(g) = c /\ link[g] # c /\ key[g] # None => pc[g] = "delete" /\ key[g] = number[c]
  BY <1>7 DEF Locals, Linked
<1>9. ASSUME holders[c] # {}, ~Kept(c)
      PROVE  \A g \in Handlers : Conn(g) = c /\ link[g] # c => key[g] = None /\ link[g] = None
  BY <1>2, <1>7, <1>8, <1>9 DEF Order
<1>10. CASE task[c] = "queued" /\ linkMap[number[c]] # None
  <2>1. "map" \in holders[c]
    BY <1>1, <1>3, <1>4, <1>10
  <2>2. QED
    BY <1>10, <2>1 DEF Entries
<1>11. CASE EndBuild(c) /\ holders[c] = {"task"}
  <2>1. task[c] = "dropLink" /\ UNCHANGED <<list, linkMap, pc, job, key, link>>
    BY <1>11, EndBuildStep
  <2>2. \A n \in Fds : list[n] # c /\ linkMap[n] # c
    BY <1>2, <1>4, <1>11, <2>1 DEF Order
  <2>3. \A g \in Handlers : link[g] # c
    BY <1>5, <1>11, NamesAssumption
  <2>4. \A g \in Handlers : Conn(g) = c => key[g] = None /\ link[g] = None
    BY <1>9, <1>11, <2>3 DEF Kept
  <2>5. QED
    BY <2>1, <2>2, <2>3, <2>4 DEF Gone, Conn
<1>12. ASSUME NEW h \in Handlers, Unlink(h), Conn(h) = c, holders[c] = {"context"}
       PROVE  FALSE
  <2>1. link[h] = c
    BY <1>3, <1>12, UnlinkStep DEF Moves, Linked
  <2>2. QED
    BY <1>5, <1>12, <2>1, NamesAssumption
<1>13. ASSUME NEW h \in Handlers, Unmap(h), key[h] \in Fds, linkMap[key[h]] = c, holders[c] = {"map"}
       PROVE  FALSE
  <2>1. key[h] = number[c] /\ Conn(h) = c
    BY <1>3, <1>4, <1>13
  <2>2. link[h] = c
    BY <1>3, <1>13, <2>1, UnmapStep DEF Moves, Linked
  <2>3. QED
    BY <1>5, <1>13, <2>2, NamesAssumption
<1>14. ASSUME NEW h \in Handlers, DisConnected(h), link[h] = c, holders[c] = {h}
       PROVE  Gone(c)'
  <2>1. /\ UNCHANGED <<list, linkMap, job>> /\ key'[h] = None /\ link'[h] = None
        /\ \A g \in Handlers \ {h} : pc'[g] = pc[g] /\ key'[g] = key[g] /\ link'[g] = link[g]
    BY <1>14, DisConnectedStep DEF Moves
  <2>2. h \notin Owners
    BY NamesAssumption DEF Owners
  <2>3. task[c] = "done"
    <3>1. holders[c] # {} /\ "task" \notin holders[c]
      BY <1>14, <2>2 DEF Owners
    <3>2. QED
      BY <3>1 DEF Entries, Typed
  <2>4. \A n \in Fds : list[n] # c /\ linkMap[n] # c
    BY <1>2, <1>4, <1>14, <2>2, <2>3 DEF Order, Owners
  <2>5. \A g \in Handlers \ {h} : link[g] # c
    BY <1>5, <1>14
  <2>6. \A g \in Handlers \ {h} : Conn(g) = c => key[g] = None /\ link[g] = None
    BY <1>9, <1>14, <2>2, <2>5 DEF Kept, Owners
  <2>7. c # None
    BY NamesAssumption
  <2>8. QED
    BY <2>1, <2>4, <2>5, <2>6, <2>7 DEF Gone, Conn
<1>15. ASSUME NEW h \in Handlers, DeleteSocketContext(h), key[h] \in Fds, list[key[h]] = c
       PROVE  Gone(c)'
  <2>1. /\ UNCHANGED <<linkMap, job, number>> /\ key'[h] = None /\ link'[h] = None /\ pc[h] = "delete"
        /\ \A g \in Handlers \ {h} : pc'[g] = pc[g] /\ key'[g] = key[g] /\ link'[g] = link[g]
        /\ holders[Conn(h)] # {} => Conn(h) \in spoiled'
    BY <1>15, DeleteStep DEF Moves
  <2>2. key[h] = number[c] /\ Conn(h) = c
    BY <1>3, <1>4, <1>15
  <2>3. c # None /\ c \notin spoiled'
    BY <2>1, NamesAssumption
  <2>4. holders[c] = {}
    BY <2>1, <2>2, <2>3
  <2>5. list'[number[c]] # c /\ \A n \in Fds \ {number[c]} : list'[n] = list[n]
    BY <1>15, <2>2, <2>3, DeleteStep
  <2>6. \A n \in Fds : list'[n] # c /\ linkMap[n] # c
    BY <1>4, <2>4, <2>5
  <2>7. \A g \in Handlers : link[g] # c
    BY <1>5, <2>4
  <2>8. \A g \in Handlers \ {h} : Conn(g) = c => pc[g] # "delete"
    BY <1>6, <2>1, <2>2 DEF Locals
  <2>9. \A g \in Handlers \ {h} : Conn(g) = c => key[g] = None /\ link[g] = None
    BY <1>7, <1>8, <2>7, <2>8
  <2>10. QED
    BY <2>1, <2>3, <2>6, <2>7, <2>9 DEF Gone, Conn
<1>16. QED
  BY <1>10, <1>11, <1>12, <1>13, <1>14, <1>15, FreedStep

LEMMA NumbersStep ==
  ASSUME Typed, Arrivals, Requests, Locals, Entries, Numbers, Order, [Next]_vars
  PROVE  Numbers'
<1>1. \A c \in Conns : freed[c] \in Nat /\ freed'[c] \in Nat
  BY TypedStep DEF Typed
<1>2. \A c \in Conns : freed[c] > 0 => freed'[c] > 0
  BY StepGrows DEF Grows
<1>3. \A c \in Conns : freed[c] > 0 => number[c] # None
  BY DEF Arrivals, Unborn
<1>4. \A c \in Conns : number[c] # None => number'[c] = number[c] /\ number[c] \in Fds
  BY NumbersStay
<1>5. \A c \in Conns : number'[c] # number[c] =>
        /\ Unborn(c) /\ UNCHANGED <<freed, spoiled>> /\ number'[c] \in Fds
        /\ \A d \in Conns \ {c} : number'[d] = number[d]
        /\ \A d \in Conns : number'[c] # Socket(d)
  <2>1. SUFFICES ASSUME NEW c \in Conns, number'[c] # number[c]
                 PROVE  Accept(c)
    BY AcceptStep
  <2>2. ~Quiet /\ ~EnterList
    BY <2>1, EnterListStep DEF Quiet
  <2>3. \A d \in Conns : ~AddLinkNetObj(d) /\ ~LeaveList(d) /\ ~EndBuild(d)
    BY <2>1, AddLinkStep, LeaveListStep, EndBuildStep
  <2>4. \A h \in Handlers : ~GetLink(h) /\ ~Unlink(h) /\ ~Unmap(h)
    BY <2>1, GetLinkStep, UnlinkStep, UnmapStep DEF Moves
  <2>5. \A h \in Handlers : ~DisConnected(h) /\ ~DeleteSocketContext(h)
    BY <2>1, DisConnectedStep, DeleteStep DEF Moves
  <2>6. \A d \in Conns : Accept(d) => d = c
    BY <2>1, AcceptStep
  <2>7. QED
    BY <2>2, <2>3, <2>4, <2>5, <2>6, QuietOrTable DEF TableStep,
                                                      RemoveSocketContext
<1>6. \A c, d \in Conns : c # d /\ number'[c] # None /\ number'[c] = number'[d] =>
        freed'[c] > 0 \/ freed'[d] > 0
  <2>1. SUFFICES ASSUME NEW c \in Conns, NEW d \in Conns, c # d, number'[c] # None,
                        number'[c] = number'[d], number'[d] = number[d]
                 PROVE  freed'[c] > 0 \/ freed'[d] > 0
    BY <1>5
  <2>2. CASE number'[c] = number[c]
    BY <1>2, <2>1, <2>2 DEF Numbers
  <2>3. CASE number'[c] # number[c]
    <3>1. number[d] # Socket(d)
      BY <1>5, <2>1, <2>3
    <3>2. QED
      BY <1>2, <3>1 DEF Socket
  <2>4. QED
    BY <2>2, <2>3
<1>7. \A d \in Conns : freed'[d] > 0 /\ (\A e \in spoiled' : number'[e] # number'[d]) => Gone(d)'
  <2>1. SUFFICES ASSUME NEW d \in Conns, freed'[d] > 0, \A e \in spoiled' : number'[e] # number'[d]
                 PROVE  Gone(d)'
    OBVIOUS
  <2>2. CASE freed[d] > 0
    <3>1. number'[d] = number[d] /\ number[d] \in Fds
      BY <1>3, <1>4, <2>2
    <3>2. Clean(number[d])
      BY <2>1, <3>1, NumbersStay
    <3>3. Gone(d)
      BY <2>2, <3>2 DEF Numbers
    <3>4. QED
      BY <2>2, <3>3, GoneStays
  <2>3. CASE freed[d] = 0
    <3>1. number'[d] = number[d]
      BY <1>4, <2>1, <2>3, FreedBorn
    <3>2. QED
      BY <2>1, <2>3, <3>1, FreedGone
  <2>4. QED
    BY <1>1, <2>2, <2>3
<1>8. \A c, d \in Conns :
        c # d /\ number'[c] # None /\ number'[c] = number'[d] /\ freed'[c] = 0
          /\ (\A e \in spoiled' \ {c} : number'[e] # number'[c]) => Gone(d)'
  <2>1. SUFFICES ASSUME NEW c \in Conns, NEW d \in Conns, c # d, number'[c] # None,
                        number'[c] = number'[d], freed'[c] = 0,
                        \A e \in spoiled' \ {c} : number'[e] # number'[c]
                 PROVE  Gone(d)'
    OBVIOUS
  <2>2. freed[c] = 0
    BY <1>1, <1>2, <2>1
  <2>3. CASE number[c] # None /\ number[d] # None
    <3>1. number[c] = number[d] /\ Undisturbed(c)
      BY <1>4, <2>1, <2>3, NumbersStay
    <3>2. Gone(d)
      BY <2>1, <2>2, <2>3, <3>1 DEF Numbers
    <3>3. freed[d] > 0
      BY <1>1, <2>1, <2>2, <2>3, <3>1 DEF Numbers
    <3>4. QED
      BY <3>2, <3>3, GoneStays
  <2>4. CASE number[c] = None
    <3>1. /\ Unborn(c) /\ number'[c] \in Fds /\ number'[d] = number[d] /\ number'[c] # Socket(d)
          /\ freed' = freed
      BY <1>5, <2>1, <2>4
    <3>2. freed[d] > 0
      BY <1>1, <2>1, <3>1 DEF Socket
    <3>3. c \notin spoiled'
      BY <1>5, <2>1, <2>4 DEF Unborn
    <3>4. \A e \in spoiled' : number'[e] # number'[d]
      BY <2>1, <3>3
    <3>5. QED
      BY <1>2, <1>7, <3>2, <3>4
  <2>5. CASE number[d] = None
    <3>1. /\ number'[d] # Socket(c) /\ number'[c] = number[c] /\ freed' = freed
      BY <1>5, <2>1, <2>5
    <3>2. QED
      BY <2>1, <2>2, <3>1 DEF Socket
  <2>6. QED
    BY <2>3, <2>4, <2>5
<1>9. QED
  BY <1>6, <1>7, <1>8 DEF Numbers, Clean, Undisturbed


\* How the build request of a connection goes on.
LEMMA TaskStep ==
  ASSUME Typed, Arrivals, Requests, [Next]_vars, NEW c \in Conns, task'[c] # task[c]
  PROVE  \/ task[c] = "none" /\ task'[c] = "queued"
         \/ AddLinkNetObj(c) \/ LeaveList(c) \/ EndBuild(c)
         \/ task[c] = "ack" /\ task'[c] = "dropLink" /\ Quiet
<1>1. \A d \in Conns : ~Accept(d)
  BY AcceptStep
<1>2. \A d \in Conns : AddLinkNetObj(d) \/ LeaveList(d) \/ EndBuild(d) => d = c
  BY AddLinkStep, LeaveListStep, EndBuildStep
<1>3. ~EnterList
  BY EnterListStep
<1>4. \A h \in Handlers : ~GetLink(h) /\ ~Unlink(h) /\ ~Unmap(h)
  BY GetLinkStep, UnlinkStep, UnmapStep DEF Moves
<1>5. \A h \in Handlers : ~DisConnected(h) /\ ~DeleteSocketContext(h)
  BY DisConnectedStep, DeleteStep DEF Moves
<1>6. Quiet => (task[c] = "none" /\ task'[c] = "queued") \/ (task[c] = "ack" /\ task'[c] = "dropLink")
  BY DEF Quiet
<1>7. QED
  BY <1>1, <1>2, <1>3, <1>4, <1>5, <1>6, QuietOrTable DEF TableStep,
                                                          RemoveSocketContext

LEMMA LivesStep ==
  ASSUME Typed, Arrivals, Requests, Locals, Entries, Numbers, Lives, [Next]_vars
  PROVE  Lives'
<1>1. \A c \in Conns : /\ freed[c] \in Nat /\ freed'[c] \in Nat
                       /\ freed[c] > 0 => freed'[c] > 0
                       /\ freed[c] > 0 \/ task[c] # "none" => number[c] # None
                       /\ number[c] # None /\ peer'[c] = "open" => peer[c] = "open"
  BY TypedStep, StepGrows DEF Grows, Arrivals, Unborn, Typed
<1>2. \A c \in Conns :
        number[c] # None /\ (\A e \in spoiled' \ {c} : number'[e] # number'[c]) =>
          Undisturbed(c) /\ number[c] \in Fds
  BY NumbersStay
<1>3. ASSUME NEW c \in Conns, number[c] # None, freed[c] = 0, Undisturbed(c),
             NEW h \in Handlers, pc[h] \in Linked \cup {"delete"},
             Conn(h) = c \/ link[h] = c \/ key[h] = number[c]
      PROVE  peer[c] # "open"
  BY <1>3, Owns, OwnLeft
<1>4. ASSUME NEW c \in Conns, number[c] # None, freed[c] = 0, Undisturbed(c),
             NEW h \in Handlers,
             \/ Unlink(h) /\ Conn(h) = c
             \/ Unmap(h) /\ key[h] \in Fds /\ linkMap[key[h]] = c
             \/ DisConnected(h) /\ link[h] = c
             \/ DeleteSocketContext(h) /\ key[h] \in Fds /\ list[key[h]] = c
      PROVE  peer[c] # "open"
  <2>1. pc[h] \in Linked \cup {"delete"}
    BY <1>4, UnlinkStep, UnmapStep, DisConnectedStep, DeleteStep DEF Moves,
                                                                     Linked
  <2>2. Conn(h) = c \/ link[h] = c \/ key[h] = number[c]
    BY <1>4, NamesAssumption DEF Entries
  <2>3. QED
    BY <1>3, <1>4, <2>1, <2>2
<1>5. \A c \in Conns :
        freed'[c] > 0 /\ (\A e \in spoiled' \ {c} : number'[e] # number'[c]) => peer'[c] # "open"
  <2>1. SUFFICES ASSUME NEW c \in Conns, freed'[c] > 0,
                        \A e \in spoiled' \ {c} : number'[e] # number'[c]
                 PROVE  peer'[c] # "open"
    OBVIOUS
  <2>2. CASE freed[c] > 0
    BY <1>1, <1>2, <2>1, <2>2 DEF Lives
  <2>3. CASE freed[c] = 0
    <3>1. number[c] # None /\ Undisturbed(c)
      BY <1>2, <2>1, <2>3, FreedBorn
    <3>2. SUFFICES peer[c] # "open"
      BY <1>1, <3>1
    <3>3. CASE task[c] = "queued" /\ linkMap[number[c]] # None
      <4>1. holders[c] = {} /\ linkMap[number[c]] = c /\ number[c] \in Fds
        BY <2>3, <3>1, <3>3, Owns DEF Entries, Typed
      <4>2. QED
        BY <4>1, NamesAssumption DEF Entries
    <3>4. CASE EndBuild(c) /\ holders[c] = {"task"}
      <4>1. ~Kept(c) /\ task[c] = "dropLink"
        BY <3>4, EndBuildStep DEF Kept
      <4>2. QED
        BY <2>3, <3>1, <4>1 DEF Lives
    <3>5. QED
      BY <1>4, <2>1, <2>3, <3>1, <3>3, <3>4, FreedStep
  <2>4. QED
    BY <1>1, <2>2, <2>3
<1>6. \A c \in Conns :
        freed'[c] = 0 /\ (\A e \in spoiled' \ {c} : number'[e] # number'[c])
          /\ task'[c] \notin {"none", "queued", "unlinked"} /\ ~Kept(c)' => peer'[c] # "open"
  <2>1. SUFFICES ASSUME NEW c \in Conns, freed'[c] = 0,
                        \A e \in spoiled' \ {c} : number'[e] # number'[c],
                        task'[c] \notin {"none", "queued", "unlinked"}, ~Kept(c)'
                 PROVE  peer'[c] # "open"
    OBVIOUS
  <2>2. task[c] \notin {"none", "queued", "unlinked"}
    <3>1. ~AddLinkNetObj(c)
      BY <2>1, AddLinkStep DEF Kept, Owners
    <3>2. QED
      BY <2>1, <3>1, TaskStep, LeaveListStep, EndBuildStep
  <2>3. freed[c] = 0 /\ number[c] # None /\ Undisturbed(c)
    BY <1>1, <1>2, <2>1, <2>2
  <2>4. SUFFICES peer[c] # "open"
    BY <1>1, <2>3
  <2>5. CASE Kept(c)
    BY <1>4, <2>1, <2>2, <2>3, <2>5, UnkeptStep
  <2>6. CASE ~Kept(c)
    BY <2>2, <2>3, <2>6 DEF Lives
  <2>7. QED
    BY <2>5, <2>6
<1>7. QED
  BY <1>5, <1>6 DEF Lives, Undisturbed

\* A LinkNetObj gets its first owners from AddLinkNetObj.
LEMMA OwnersBefore ==
  ASSUME Typed, Arrivals, Requests, Entries, [Next]_vars, NEW c \in Conns, holders'[c] # {},
         ~AddLinkNetObj(c)
  PROVE  holders[c] # {}
<1>1. SUFFICES ASSUME holders[c] = {}
               PROVE  FALSE
  OBVIOUS
<1>2. ~Quiet /\ ~EnterList
  BY <1>1, EnterListStep DEF Quiet
<1>3. \A d \in Conns : ~Accept(d) /\ ~LeaveList(d) /\ ~AddLinkNetObj(d)
  BY <1>1, AcceptStep, LeaveListStep, AddLinkStep
<1>4. \A d \in Conns : ~EndBuild(d)
  BY <1>1, EndBuildStep DEF Unowned
<1>5. \A h \in Handlers : ~GetLink(h)
  <2>1. \A n \in Fds : linkMap[n] # c
    BY <1>1, NamesAssumption DEF Entries
  <2>2. QED
    BY <1>1, <2>1, GetLinkStep
<1>6. \A h \in Handlers : ~Unlink(h) /\ ~Unmap(h)
  BY <1>1, UnlinkStep, UnmapStep DEF Unowned
<1>7. \A h \in Handlers : ~DisConnected(h) /\ ~DeleteSocketContext(h)
  BY <1>1, DisConnectedStep, DeleteStep DEF Unowned
<1>8. QED
  BY <1>2, <1>3, <1>4, <1>5, <1>6, <1>7, QuietOrTable DEF TableStep,
                                                          RemoveSocketContext

\* GetLink sends a handler to DeleteSocketContext, with the number it has read.
LEMMA DeleteBefore ==
  ASSUME Typed, Arrivals, Requests, [Next]_vars, NEW h \in Handlers, pc'[h] = "delete", ~GetLink(h)
  PROVE  pc[h] = "delete" /\ key'[h] = key[h] /\ job'[h] = job[h]
<1>1. CASE Quiet
  BY <1>1 DEF Quiet, Removing
<1>2. ASSUME NEW g \in Handlers, NEW from, NEW to, Moves(g, from, to), to # "delete"
      PROVE  pc[h] = "delete" /\ key'[h] = key[h] /\ job'[h] = job[h]
  <2>1. g # h
    BY <1>2 DEF Moves
  <2>2. QED
    BY <1>2, <2>1 DEF Moves
<1>3. ASSUME NEW g \in Handlers, NEW from, NEW to, Moves(g, from, to), g # h
      PROVE  pc[h] = "delete" /\ key'[h] = key[h] /\ job'[h] = job[h]
  BY <1>3 DEF Moves
<1>4. ASSUME NEW c \in Conns, Accept(c) \/ AddLinkNetObj(c) \/ LeaveList(c) \/ EndBuild(c)
      PROVE  pc' = pc /\ key' = key /\ job' = job
  BY <1>4, AcceptStep, AddLinkStep, LeaveListStep, EndBuildStep
<1>5. CASE EnterList
  BY <1>5, EnterListStep
<1>6. ASSUME NEW g \in Handlers, GetLink(g)
      PROVE  pc[h] = "delete" /\ key'[h] = key[h] /\ job'[h] = job[h]
  BY <1>3, <1>6, GetLinkStep
<1>7. ASSUME NEW g \in Handlers, Unlink(g) \/ Unmap(g)
      PROVE  pc[h] = "delete" /\ key'[h] = key[h] /\ job'[h] = job[h]
  BY <1>2, <1>7, UnlinkStep, UnmapStep
<1>8. ASSUME NEW g \in Handlers, DisConnected(g) \/ DeleteSocketContext(g)
      PROVE  pc[h] = "delete" /\ key'[h] = key[h] /\ job'[h] = job[h]
  <2>1. PICK from \in {"dropLink", "delete"}, to \in {"release", "wait"} : Moves(g, from, to)
    BY <1>8, DisConnectedStep, DeleteStep
  <2>2. QED
    BY <1>2, <2>1
<1>9. QED
  BY <1>1, <1>4, <1>5, <1>6, <1>7, <1>8, QuietOrTable DEF TableStep,
                                                          RemoveSocketContext

LEMMA OrderStep ==
  ASSUME Typed, Arrivals, Requests, Locals, Entries, Numbers, Order, [Next]_vars
  PROVE  Order'
<1>1. \A c \in Conns : /\ freed[c] \in Nat /\ freed'[c] \in Nat
                       /\ freed[c] > 0 => freed'[c] > 0
                       /\ task[c] # "none" \/ holders[c] # {} => number[c] # None
  BY TypedStep, StepGrows DEF Grows, Arrivals, Unborn, Typed
<1>2. \A c \in Conns :
        number[c] # None /\ (\A e \in spoiled' : number'[e] # number'[c]) =>
          Clean(number[c]) /\ Undisturbed(c) /\ number'[c] = number[c] /\ number[c] \in Fds /\ c \notin spoiled'
  <2>1. \A c \in Conns : Clean(number[c]) => Undisturbed(c)
    BY DEF Clean, Undisturbed
  <2>2. QED
    BY <2>1, NumbersStay
<1>3. \A c \in Conns : freed'[c] = 0 => freed[c] = 0
  BY <1>1
<1>4. ASSUME NEW c \in Conns, number[c] # None, freed[c] = 0, Undisturbed(c),
             NEW h \in Handlers,
             \/ Unlink(h) /\ Conn(h) = c
             \/ Unmap(h) /\ key[h] \in Fds /\ (linkMap[key[h]] = c \/ key[h] = number[c])
             \/ DeleteSocketContext(h) /\ key[h] \in Fds /\ list[key[h]] = c
      PROVE  Conn(h) = c /\ pc[h] \in Linked \cup {"delete"} /\ c \in begun
  <2>1. pc[h] \in Linked \cup {"delete"}
    BY <1>4, UnlinkStep, UnmapStep, DeleteStep DEF Moves, Linked
  <2>2. Conn(h) = c \/ link[h] = c \/ key[h] = number[c]
    BY <1>4, NamesAssumption DEF Entries
  <2>3. Conn(h) = c
    BY <1>4, <2>2, Owns
  <2>4. QED
    BY <2>1, <2>3 DEF Locals
<1>5. \A c \in Conns :
        freed'[c] = 0 /\ (\A e \in spoiled' : number'[e] # number'[c])
          /\ task'[c] \in {"ack", "dropLink", "done"} => \A n \in Fds : list'[n] # c
  <2>1. SUFFICES ASSUME NEW c \in Conns, freed'[c] = 0, \A e \in spoiled' : number'[e] # number'[c],
                        task'[c] \in {"ack", "dropLink", "done"}
                 PROVE  \A n \in Fds : list'[n] # c
    OBVIOUS
  <2>2. CASE task[c] \in {"ack", "dropLink", "done"}
    <3>1. freed[c] = 0 /\ Clean(number[c]) /\ c \notin spoiled'
      BY <1>1, <1>2, <1>3, <2>1, <2>2
    <3>2. \A n \in Fds : list[n] # c
      BY <2>2, <3>1 DEF Order
    <3>3. SUFFICES ASSUME NEW n \in Fds, list'[n] = c, list'[n] # list[n]
                   PROVE  FALSE
      BY <3>2
    <3>4. c # None
      BY NamesAssumption
    <3>5. ~Quiet /\ \A d \in Conns : ~Accept(d) /\ ~AddLinkNetObj(d) /\ ~LeaveList(d) /\ ~EndBuild(d)
      BY <3>3, <3>4, AcceptStep, AddLinkStep, LeaveListStep, EndBuildStep DEF Quiet
    <3>6. \A h \in Handlers : ~GetLink(h) /\ ~Unlink(h) /\ ~Unmap(h) /\ ~DisConnected(h)
      BY <3>3, GetLinkStep, UnlinkStep, UnmapStep, DisConnectedStep
    <3>7. \A h \in Handlers : ~DeleteSocketContext(h)
      BY <3>3, <3>4, DeleteStep
    <3>8. EnterList => ListedLate(c) /\ c \in spoiled'
      BY <2>2, <3>3, EnterListStep DEF ListedLate
    <3>9. QED
      BY <3>1, <3>5, <3>6, <3>7, <3>8, QuietOrTable DEF TableStep,
                                                        RemoveSocketContext
  <2>3. CASE task[c] \notin {"ack", "dropLink", "done"}
    <3>1. ~AddLinkNetObj(c)
      BY <2>1, <2>3, AddLinkStep
    <3>2. LeaveList(c)
      BY <2>1, <2>3, <3>1, TaskStep, EndBuildStep
    <3>3. \A n \in Fds \ {number[c]} : list[n] # c
      BY NamesAssumption DEF Entries
    <3>4. QED
      BY <3>2, <3>3, LeaveListStep, NamesAssumption
  <2>4. QED
    BY <2>2, <2>3
<1>6. \A c \in Conns :
        freed'[c] = 0 /\ (\A e \in spoiled' : number'[e] # number'[c])
          /\ holders'[c] # {} /\ c \notin begun' => Kept(c)' /\ linkMap'[number'[c]] = c
  <2>1. SUFFICES ASSUME NEW c \in Conns, freed'[c] = 0, \A e \in spoiled' : number'[e] # number'[c],
                        holders'[c] # {}, c \notin begun'
                 PROVE  Kept(c)' /\ linkMap'[number'[c]] = c
    OBVIOUS
  <2>2. CASE AddLinkNetObj(c)
    BY <2>1, <2>2, AddLinkStep DEF Kept, Owners, Entries
  <2>3. CASE ~AddLinkNetObj(c)
    <3>1. holders[c] # {}
      BY <2>1, <2>3, OwnersBefore
    <3>2. /\ freed[c] = 0 /\ Clean(number[c]) /\ Undisturbed(c) /\ number'[c] = number[c]
          /\ number[c] \in Fds /\ number[c] # None /\ c \notin begun
      BY <1>1, <1>2, <1>3, <2>1, <3>1, StepGrows DEF Grows
    <3>3. Kept(c) /\ linkMap[number[c]] = c
      BY <3>1, <3>2 DEF Order
    <3>4. task[c] # "queued"
      BY <3>1 DEF Entries
    <3>5. Kept(c)'
      BY <1>4, <3>2, <3>3, <3>4, UnkeptStep
    <3>6. linkMap'[number[c]] = c
      <4>1. SUFFICES ASSUME linkMap'[number[c]] # linkMap[number[c]]
                     PROVE  FALSE
        BY <3>3
      <4>2. \A h \in Handlers : Unmap(h) => key[h] = number[c] /\ key[h] \in Fds
        BY <3>2, <4>1, UnmapStep
      <4>3. \A h \in Handlers : ~Unmap(h)
        BY <1>4, <3>2, <4>2
      <4>4. c # None
        BY NamesAssumption
      <4>5. \A d \in Conns : ~AddLinkNetObj(d)
        BY <3>2, <3>3, <4>1, <4>4, AddLinkStep
      <4>6. ~Quiet /\ ~EnterList /\ \A d \in Conns : ~Accept(d) /\ ~LeaveList(d) /\ ~EndBuild(d)
        BY <4>1, AcceptStep, LeaveListStep, EndBuildStep, EnterListStep DEF Quiet
      <4>7. \A h \in Handlers : ~GetLink(h) /\ ~Unlink(h) /\ ~DisConnected(h) /\ ~DeleteSocketContext(h)
        BY <4>1, GetLinkStep, UnlinkStep, DisConnectedStep, DeleteStep
      <4>8. QED
        BY <4>3, <4>5, <4>6, <4>7, QuietOrTable DEF TableStep,
                                                    RemoveSocketContext
    <3>7. QED
      BY <3>2, <3>5, <3>6
  <2>4. QED
    BY <2>2, <2>3
<1>7. \A h \in Handlers :
        pc'[h] = "delete" /\ key'[h] # None /\ (\A e \in spoiled' : number'[e] # key'[h])
          /\ holders'[Conn(h)'] # {} => Kept(Conn(h))'
  <2>1. SUFFICES ASSUME NEW h \in Handlers, pc'[h] = "delete", key'[h] # None,
                        \A e \in spoiled' : number'[e] # key'[h], holders'[Conn(h)'] # {},
                        NEW c \in Conns, Conn(h)' = c
                 PROVE  Kept(c)'
    <3>1. \A g \in Handlers : pc'[g] # "wait" => Conn(g)' \in Conns
      BY ArrivalsStep, JobParts DEF Arrivals, HandlerSound, Conn
    <3>2. QED
      BY <3>1 DEF Kept
  <2>2. key'[h] = number'[c]
    BY <2>1, LocalsStep DEF Locals
  <2>3. CASE GetLink(h)
    <3>1. /\ Conn(h) = c /\ freed[c] = 0 /\ linkMap[number[c]] = None /\ holders' = holders
          /\ spoiled' = spoiled \cup ({c} \cap begun)
      BY <2>1, <2>3, GetLinkStep DEF Moves, Conn
    <3>2. number[c] # None /\ Clean(number[c]) /\ c \notin spoiled'
      BY <1>1, <1>2, <2>1, <2>2, <3>1
    <3>3. c \notin begun /\ c # None
      BY <3>1, <3>2, NamesAssumption
    <3>4. QED
      BY <2>1, <3>1, <3>2, <3>3 DEF Order
  <2>4. CASE ~GetLink(h)
    <3>1. pc[h] = "delete" /\ key'[h] = key[h] /\ Conn(h) = c
      BY <2>1, <2>4, DeleteBefore DEF Conn
    <3>2. CASE AddLinkNetObj(c)
      <4>1. holders[c] = {}
        BY <3>2, AddLinkStep DEF Entries
      <4>2. QED
        BY <2>1, <3>2, <4>1, AddLinkStep DEF Kept, Owners
    <3>3. CASE ~AddLinkNetObj(c)
      <4>1. holders[c] # {}
        BY <2>1, <3>3, OwnersBefore
      <4>2. /\ Clean(number[c]) /\ Undisturbed(c) /\ number'[c] = number[c] /\ number[c] # None
            /\ c \notin spoiled'
        BY <1>1, <1>2, <2>1, <2>2, <4>1
      <4>3. Kept(c)
        BY <2>1, <2>2, <3>1, <4>1, <4>2 DEF Order
      <4>4. freed[c] = 0
        <5>1. ~Gone(c)
          BY <2>1, <3>1 DEF Gone
        <5>2. QED
          BY <1>1, <4>2, <5>1 DEF Numbers
      <4>5. task[c] # "queued"
        BY <4>1 DEF Entries
      <4>6. \A g \in Handlers \ {h} : ~(Conn(g) = c /\ pc[g] \in Linked \cup {"delete"})
        <5>1. c \notin spoiled
          BY <4>2, StepGrows DEF Grows
        <5>2. QED
          BY <3>1, <5>1 DEF Locals
      <4>7. ~Unlink(h) /\ ~Unmap(h) /\ ~DeleteSocketContext(h)
        BY <2>1, <3>1, UnlinkStep, UnmapStep, DeleteStep DEF Moves
      <4>8. QED
        BY <1>4, <4>2, <4>3, <4>4, <4>5, <4>6, <4>7, UnkeptStep
    <3>4. QED
      BY <3>2, <3>3
  <2>5. QED
    BY <2>3, <2>4
<1>8. QED
  BY <1>5, <1>6, <1>7 DEF Order, Clean

-------------------------------------------------------------------------------
(* The theorems.                                                           *)

LEMMA TableInit ==
  ASSUME Init
  PROVE  TableInv
<1>1. Typed
  BY DEF Init, Typed, Places, Counting
<1>2. Arrivals
  BY NamesAssumption DEF Init, Arrivals, Unborn, HandlerSound
<1>3. Requests
  BY DEF Init, Requests, Requesting
<1>4. Locals
  BY DEF Init, Locals, Linked
<1>5. Entries
  BY DEF Init, Entries
<1>6. Numbers /\ Lives /\ Order
  BY DEF Init, Numbers, Lives, Order
<1>7. QED
  BY <1>1, <1>2, <1>3, <1>4, <1>5, <1>6 DEF TableInv

\* The inductive invariant of the two maps and the removals that use them.
THEOREM TableStays == Spec => []TableInv
<1>1. Init => TableInv
  BY TableInit
<1>2. TableInv /\ [Next]_vars => TableInv'
  BY TypedStep, ArrivalsStep, RequestsStep, LocalsStep, EntriesStep, NumbersStep, LivesStep, OrderStep
  DEF TableInv
<1>3. QED
  BY <1>1, <1>2, PTL DEF Spec

\* A context is deleted while its peer is there (TcpThreadServer.cpp:190-227,
\* SocketHandler.cpp:58-68) only after one of the races of another connection
\* with the same socket number.
THEOREM LostOnlyToReuse == Spec => []OpenLostToReuse
<1>1. TableInv => OpenLostToReuse
  BY DEF TableInv, Lives, Undisturbed, OpenLostToReuse, SameNumber, Typed
<1>2. QED
  BY <1>1, TableStays, PTL

\* Neither m_socketList nor m_linkNetMap keeps a context that is gone
\* (TcpThreadServer.cpp:190-332), unless one of the races came first.
THEOREM EntriesAreLive == Spec => []NoStaleEntry
<1>1. ASSUME TableInv
      PROVE  NoStaleEntry
  <2>1. SUFFICES ASSUME NEW n \in Fds, NEW c \in {list[n], linkMap[n]} \ {None}, freed[c] > 0
                 PROVE  \E d \in spoiled : number[c] = number[d]
    BY DEF NoStaleEntry, SameNumber
  <2>2. c \in Conns /\ ~Gone(c)
    BY <1>1, <2>1 DEF TableInv, Typed, Gone
  <2>3. ~Clean(number[c])
    BY <1>1, <2>1, <2>2 DEF TableInv, Numbers
  <2>4. QED
    BY <2>3 DEF Clean
<1>2. QED
  BY <1>1, TableStays, PTL

\* After OnAsyncMsg has taken the context out of m_socketList
\* (TcpThreadServer.cpp:242), only the LinkNetObj owns it.
THEOREM LinkIsOwner == Spec => []OneOwner
<1>1. ASSUME TableInv
      PROVE  OneOwner
  <2>1. SUFFICES ASSUME NEW c \in Conns, task[c] \in {"ack", "dropLink", "done"}, Clean(number[c]),
                        NEW n \in Fds
                 PROVE  list[n] # c
    BY DEF OneOwner, SameNumber, Clean
  <2>2. CASE freed[c] = 0
    BY <1>1, <2>1, <2>2 DEF TableInv, Order
  <2>3. CASE freed[c] > 0
    BY <1>1, <2>1, <2>3 DEF TableInv, Numbers, Gone
  <2>4. QED
    BY <1>1, <2>2, <2>3 DEF TableInv, Typed
<1>2. QED
  BY <1>1, TableStays, PTL

-------------------------------------------------------------------------------
(* How far m_Ref can go, and how often a context is deleted.               *)

\* What a connection has under way: a receive or a send in the kernel or in the
\* port, or a handler that works on a completion.  A receive that is under way
\* counts as what it may bring at most.
NetKind(c) == IF task[c] = "none" THEN "build" ELSE "end"
AtWork(h)  == <<h, job[h].kind, pc[h]>>

Busy(c)  == {h \in Handlers : pc[h] # "wait" /\ Conn(h) = c}
InPort(c) == {<<"port", j.kind, "port">> : j \in {i \in port : i.conn = c}}
Posted(c) == (IF c \in recv THEN {<<"net", NetKind(c), "port">>} ELSE {})
               \cup (IF c \in send THEN {<<"net", "sent", "port">>} ELSE {})
Items(c) == {AtWork(h) : h \in Busy(c)} \cup InPort(c) \cup Posted(c)
NoItem   == <<"no", "item", "none">>

\* A receive is under way until its completion has been handled or the next one
\* is posted; its handler then has only to release its reference.
Class(i) == CASE i[2] \in {"sent", "unsent"} -> "send"
              [] i[2] = "build" /\ i[3] \notin {"port", "taken", "repost"} -> "release"
              [] OTHER -> "recv"
OfClass(c, class) == {i \in Items(c) : Class(i) = class} \cup {NoItem}

\* The references that an item may still give back beyond those that it takes,
\* and those it may still take.
Owes(i) ==
  CASE i[3] \in {"repost", "dead"} -> 3
    [] i[3] \in {"deadTest", "reposted", "zero"} -> 2
    [] i[3] \in {"release", "zeroTest", "errorRelease"} -> 1
    [] i[3] \in {"port", "taken"} /\ i[2] = "build" -> 2
    [] i[3] \in {"port", "taken"} /\ i[2] = "end" -> 1
    [] i[3] \in Removing /\ i[2] = "build" -> 1
    [] OTHER -> 0
Adds(i) ==
  CASE i[3] \in {"port", "taken", "error"} -> IF i[2] = "build" THEN 3 ELSE 1
    [] i[3] = "repost" -> 2
    [] OTHER -> 0

\* What a handler in each place has taken from the port.
KindsAt(place) ==
  CASE place = "taken" -> {"build", "end", "sent"}
    [] place \in {"repost", "dead", "deadTest", "reposted"} -> {"build"}
    [] place \in {"zero", "zeroTest"} -> {"end"}
    [] place \in {"error", "errorRelease", "errorTest"} -> {"lost", "unsent"}
    [] place = "release" -> {"build", "end", "sent"}
    [] OTHER -> {"build", "end", "lost", "unsent"}

Unsent(c) == task[c] \in {"none", "queued", "linked", "ack"}

RightKind(h) == pc[h] # "wait" =>
  /\ job[h].kind \in KindsAt(pc[h])
  /\ job[h].kind = "build" /\ pc[h] # "taken" => task[Conn(h)] # "none"

PlacesFit == \A h \in Handlers : RightKind(h)

\* There is one of each class, one build request, and no send before its time.
OneOfEach(c) ==
  /\ \A i, j \in Items(c) :
       Class(i) = Class(j) \/ (i[2] = "build" /\ j[2] = "build") => i = j
  /\ Unsent(c) => \A i \in Items(c) : Class(i) # "send"

ToSend(c) == IF Unsent(c) THEN 1 ELSE 0
ToList(c) == IF accepted = c THEN 1 ELSE 0

Counted(c) ==
  /\ number[c] = None => ref[c] = 0
  /\ \A r \in OfClass(c, "recv"), b \in OfClass(c, "release"), s \in OfClass(c, "send") :
       /\ Owes(r) + Owes(b) + Owes(s) <= ref[c] + 2
       /\ ref[c] + Adds(r) + Adds(b) + Adds(s) + ToSend(c) + ToList(c) <= 5

\* The list deletes a context once at most, and so does its LinkNetObj.
ListMay(c) == IF accepted = c \/ \E n \in Fds : list[n] = c THEN 1 ELSE 0
LinkMay(c) == IF task[c] \in {"none", "queued"} \/ holders[c] # {} THEN 1 ELSE 0

FreedTwice(c) == freed[c] + ListMay(c) + LinkMay(c) <= 2

\* A connection is not in the list before it is entered there.
EntersOnce == accepted # None => \A n \in Fds : list[n] # accepted

CountInv ==
  /\ PlacesFit /\ EntersOnce
  /\ \A c \in Conns : OneOfEach(c) /\ Counted(c) /\ FreedTwice(c)

LEMMA ItemForms ==
  ASSUME NEW c
  PROVE  /\ \A i \in Items(c) :
              \/ \E h \in Handlers : pc[h] # "wait" /\ Conn(h) = c /\ i = AtWork(h)
              \/ \E j \in port : j.conn = c /\ i = <<"port", j.kind, "port">>
              \/ c \in recv /\ i = <<"net", NetKind(c), "port">>
              \/ c \in send /\ i = <<"net", "sent", "port">>
         /\ \A h \in Handlers : pc[h] # "wait" /\ Conn(h) = c => AtWork(h) \in Items(c)
         /\ \A j \in port : j.conn = c => <<"port", j.kind, "port">> \in Items(c)
         /\ c \in recv => <<"net", NetKind(c), "port">> \in Items(c)
         /\ c \in send => <<"net", "sent", "port">> \in Items(c)
BY DEF Items, Busy, InPort, Posted

LEMMA Weights ==
  ASSUME NEW i
  PROVE  /\ Owes(i) \in 0 .. 3 /\ Adds(i) \in 0 .. 3
         /\ Class(i) \in {"recv", "release", "send"}
         /\ Class(i) = "release" => i[2] = "build"
BY DEF Owes, Adds, Class

LEMMA NoWeight == Owes(NoItem) = 0 /\ Adds(NoItem) = 0
BY DEF Owes, Adds, NoItem, Removing

\* An item that takes the place of another is of its class, or the release that
\* a build request ends with.
Inherits(i, new) ==
  /\ Class(new) = Class(i) \/ (Class(new) = "release" /\ i[2] = "build")
  /\ new[2] = "build" => i[2] = "build"

LEMMA OneReplaced ==
  ASSUME NEW c \in Conns, OneOfEach(c), NEW i \in Items(c), NEW new, NEW S \in SUBSET {new},
         Items(c)' = (Items(c) \ {i}) \cup S,
         S = {} \/ Inherits(i, new),
         Unsent(c)' => Unsent(c)
  PROVE  OneOfEach(c)'
<1>1. ASSUME NEW x \in Items(c)', NEW y \in Items(c)',
             Class(x) = Class(y) \/ (x[2] = "build" /\ y[2] = "build")
      PROVE  x = y
  <2>1. ASSUME NEW z \in Items(c), z # i,
               Class(new) = Class(z) \/ (new[2] = "build" /\ z[2] = "build"),
               Inherits(i, new)
        PROVE  FALSE
    <3>1. Class(i) = Class(z) \/ (i[2] = "build" /\ z[2] = "build")
      BY <2>1, Weights DEF Inherits
    <3>2. QED
      BY <2>1, <3>1 DEF OneOfEach
  <2>2. CASE x \in Items(c) \ {i} /\ y \in Items(c) \ {i}
    BY <1>1, <2>2 DEF OneOfEach
  <2>3. QED
    BY <1>1, <2>1, <2>2
<1>2. ASSUME Unsent(c)', NEW x \in Items(c)'
      PROVE  Class(x) # "send"
  <2>1. \A z \in Items(c) : Class(z) # "send"
    BY <1>2 DEF OneOfEach
  <2>2. CASE x \in Items(c)
    BY <2>1, <2>2
  <2>3. CASE x = new /\ Inherits(i, new)
    BY <2>1, <2>3 DEF Inherits
  <2>4. QED
    BY <1>2, <2>2, <2>3
<1>3. QED
  BY <1>1, <1>2 DEF OneOfEach

\* Nothing is counted for an item that is replaced by one that owes no more, with
\* the references that were taken.
LEMMA CountReplaced ==
  ASSUME Typed, NEW c \in Conns, OneOfEach(c), Counted(c),
         NEW i \in Items(c), NEW new, NEW S \in SUBSET {new}, NEW n \in Int,
         Items(c)' = (Items(c) \ {i}) \cup S,
         S = {} \/ Inherits(i, new),
         Owes(new) <= Owes(i) + n, Adds(new) + n <= Adds(i),
         ref'[c] = ref[c] + n, number[c] # None, number'[c] = number[c],
         ToSend(c)' = ToSend(c), ToList(c)' = ToList(c)
  PROVE  Counted(c)'
<1>1. ref[c] \in Int /\ ToSend(c) \in 0 .. 1 /\ ToList(c) \in 0 .. 1
  BY DEF Typed, ToSend, ToList
<1>2. SUFFICES ASSUME NEW r \in OfClass(c, "recv")', NEW b \in OfClass(c, "release")',
                      NEW s \in OfClass(c, "send")'
               PROVE  /\ Owes(r) + Owes(b) + Owes(s) <= ref'[c] + 2
                      /\ ref'[c] + Adds(r) + Adds(b) + Adds(s) + ToSend(c)' + ToList(c)' <= 5
  BY DEF Counted
<1>3. /\ Owes(r) \in 0 .. 3 /\ Owes(b) \in 0 .. 3 /\ Owes(s) \in 0 .. 3
      /\ Adds(r) \in 0 .. 3 /\ Adds(b) \in 0 .. 3 /\ Adds(s) \in 0 .. 3
      /\ Owes(i) \in 0 .. 3 /\ Adds(i) \in 0 .. 3 /\ Owes(new) \in 0 .. 3 /\ Adds(new) \in 0 .. 3
  BY Weights
<1>4. \A k, x : x \in OfClass(c, k)' =>
        \/ x = NoItem
        \/ x \in Items(c) /\ x # i /\ Class(x) = k
        \/ x = new /\ Class(new) = k /\ Inherits(i, new)
  BY DEF OfClass
<1>5. \A k : \A x \in OfClass(c, k)' : Class(i) = k \/ (i[2] = "build" /\ k = "release") =>
        x = NoItem \/ (x = new /\ Class(new) = k)
  BY <1>4, Weights DEF OneOfEach
<1>6. \A k : NoItem \in OfClass(c, k) /\ (Class(i) = k => i \in OfClass(c, k))
  BY DEF OfClass
<1>7. ASSUME NEW x, x = NoItem \/ x = new
      PROVE  Owes(x) <= Owes(i) + n /\ Adds(x) + n <= Adds(i)
  BY <1>3, <1>7, NoWeight
<1>8. \A k : \A x \in OfClass(c, k)' : Class(i) # k =>
        x \in OfClass(c, k) \/ (x = new /\ Inherits(i, new) /\ Class(new) = k)
  BY <1>4 DEF OfClass
<1>9. \A x \in OfClass(c, "recv"), y \in OfClass(c, "release"), z \in OfClass(c, "send") :
        /\ Owes(x) + Owes(y) + Owes(z) <= ref[c] + 2
        /\ ref[c] + Adds(x) + Adds(y) + Adds(z) + ToSend(c) + ToList(c) <= 5
  BY DEF Counted
<1>10. CASE Class(i) = "send"
  <2>1. r \in OfClass(c, "recv") /\ b \in OfClass(c, "release")
    <3>1. i[2] # "build"
      BY <1>10 DEF Class
    <3>2. QED
      BY <1>8, <1>10, <3>1 DEF Inherits
  <2>2. s = NoItem \/ s = new
    BY <1>5, <1>10
  <2>3. /\ Owes(r) + Owes(b) + Owes(i) <= ref[c] + 2
        /\ ref[c] + Adds(r) + Adds(b) + Adds(i) + ToSend(c) + ToList(c) <= 5
    BY <1>6, <1>9, <1>10, <2>1
  <2>4. Owes(s) <= Owes(i) + n /\ Adds(s) + n <= Adds(i)
    BY <1>7, <2>2
  <2>5. Owes(r) + Owes(b) + Owes(s) <= ref'[c] + 2
    BY <1>1, <1>3, <2>3, <2>4
  <2>6. ref'[c] + Adds(r) + Adds(b) + Adds(s) + ToSend(c)' + ToList(c)' <= 5
    BY <1>1, <1>3, <2>3, <2>4
  <2>7. QED
    BY <2>5, <2>6
<1>11. CASE Class(i) = "release"
  <2>1. r \in OfClass(c, "recv") /\ s \in OfClass(c, "send")
    BY <1>8, <1>11 DEF Inherits
  <2>2. b = NoItem \/ b = new
    BY <1>5, <1>11
  <2>3. /\ Owes(r) + Owes(i) + Owes(s) <= ref[c] + 2
        /\ ref[c] + Adds(r) + Adds(i) + Adds(s) + ToSend(c) + ToList(c) <= 5
    BY <1>6, <1>9, <1>11, <2>1
  <2>4. Owes(b) <= Owes(i) + n /\ Adds(b) + n <= Adds(i)
    BY <1>7, <2>2
  <2>5. Owes(r) + Owes(b) + Owes(s) <= ref'[c] + 2
    BY <1>1, <1>3, <2>3, <2>4
  <2>6. ref'[c] + Adds(r) + Adds(b) + Adds(s) + ToSend(c)' + ToList(c)' <= 5
    BY <1>1, <1>3, <2>3, <2>4
  <2>7. QED
    BY <2>5, <2>6
<1>12. CASE Class(i) = "recv"
  <2>1. s \in OfClass(c, "send")
    BY <1>8, <1>12 DEF Inherits
  <2>2. r = NoItem \/ (r = new /\ Class(new) = "recv")
    BY <1>5, <1>12
  <2>3. CASE b \in OfClass(c, "release")
    <3>1. /\ Owes(i) + Owes(b) + Owes(s) <= ref[c] + 2
          /\ ref[c] + Adds(i) + Adds(b) + Adds(s) + ToSend(c) + ToList(c) <= 5
      BY <1>6, <1>9, <1>12, <2>1, <2>3
    <3>2. Owes(r) <= Owes(i) + n /\ Adds(r) + n <= Adds(i)
      BY <1>7, <2>2
    <3>3. Owes(r) + Owes(b) + Owes(s) <= ref'[c] + 2
      BY <1>1, <1>3, <3>1, <3>2
    <3>4. ref'[c] + Adds(r) + Adds(b) + Adds(s) + ToSend(c)' + ToList(c)' <= 5
      BY <1>1, <1>3, <3>1, <3>2
    <3>5. QED
      BY <3>3, <3>4
  <2>4. CASE b = new /\ Class(new) = "release"
    <3>1. /\ Owes(i) + Owes(NoItem) + Owes(s) <= ref[c] + 2
          /\ ref[c] + Adds(i) + Adds(NoItem) + Adds(s) + ToSend(c) + ToList(c) <= 5
      BY <1>6, <1>9, <1>12, <2>1
    <3>2. Owes(b) <= Owes(i) + n /\ Adds(b) + n <= Adds(i) /\ r = NoItem
      BY <1>7, <2>2, <2>4
    <3>3. Owes(r) + Owes(b) + Owes(s) <= ref'[c] + 2
      BY <1>1, <1>3, <3>1, <3>2, NoWeight
    <3>4. ref'[c] + Adds(r) + Adds(b) + Adds(s) + ToSend(c)' + ToList(c)' <= 5
      BY <1>1, <1>3, <3>1, <3>2, NoWeight
    <3>5. QED
      BY <3>3, <3>4
  <2>5. QED
    BY <1>8, <1>12, <2>3, <2>4
<1>13. QED
  BY <1>10, <1>11, <1>12, Weights

LEMMA CountKept ==
  ASSUME Typed, Typed', NEW c \in Conns, OneOfEach(c), Counted(c), Items(c)' = Items(c),
         Unsent(c)' => Unsent(c), ref'[c] >= ref[c],
         ref'[c] + ToList(c)' <= ref[c] + ToList(c),
         number'[c] = None => number[c] = None /\ ref'[c] = ref[c]
  PROVE  OneOfEach(c)' /\ Counted(c)'
<1>1. OneOfEach(c)'
  BY DEF OneOfEach
<1>2. \A k : OfClass(c, k)' = OfClass(c, k)
  BY DEF OfClass
<1>3. /\ ref[c] \in Int /\ ref'[c] \in Int
      /\ ToList(c) \in 0 .. 1 /\ ToList(c)' \in 0 .. 1
      /\ ToSend(c) \in 0 .. 1 /\ ToSend(c)' \in 0 .. 1 /\ ToSend(c)' <= ToSend(c)
  BY DEF Typed, ToList, ToSend
<1>4. ASSUME NEW r \in OfClass(c, "recv"), NEW b \in OfClass(c, "release"),
             NEW s \in OfClass(c, "send")
      PROVE  /\ Owes(r) + Owes(b) + Owes(s) <= ref'[c] + 2
             /\ ref'[c] + Adds(r) + Adds(b) + Adds(s) + ToSend(c)' + ToList(c)' <= 5
  <2>1. /\ Owes(r) + Owes(b) + Owes(s) <= ref[c] + 2
        /\ ref[c] + Adds(r) + Adds(b) + Adds(s) + ToSend(c) + ToList(c) <= 5
    BY DEF Counted
  <2>2. /\ Owes(r) + Owes(b) + Owes(s) \in Int
        /\ Adds(r) + Adds(b) + Adds(s) \in Int
    BY Weights
  <2>3. \A m \in Int : ref[c] + m + ToSend(c) + ToList(c) <= 5
          => ref'[c] + m + ToSend(c)' + ToList(c)' <= 5
    BY <1>3
  <2>4. ref[c] + (Adds(r) + Adds(b) + Adds(s)) + ToSend(c) + ToList(c) <= 5
    BY <1>3, <2>1, Weights
  <2>5. ref'[c] + (Adds(r) + Adds(b) + Adds(s)) + ToSend(c)' + ToList(c)' <= 5
    BY <2>2, <2>3, <2>4
  <2>6. QED
    BY <1>3, <2>1, <2>2, <2>5, Weights
<1>5. QED
  BY <1>1, <1>2, <1>4 DEF Counted

\* A handler that moves replaces its item.
LEMMA HandlerTurn ==
  ASSUME Typed, NEW h \in Handlers, pc[h] # "wait", NEW to, pc' = [pc EXCEPT ![h] = to],
         job' = job, recv' = recv, send' = send, port' = port,
         \A c \in Conns : c \in recv => NetKind(c)' = NetKind(c), NEW d \in Conns
  PROVE  /\ d # Conn(h) => Items(d)' = Items(d)
         /\ d = Conn(h) =>
              /\ AtWork(h) \in Items(d)
              /\ Items(d)' = (Items(d) \ {AtWork(h)})
                                \cup (IF to = "wait" THEN {} ELSE {<<h, job[h].kind, to>>})
<1> DEFINE new == <<h, job[h].kind, to>>
           S   == IF to = "wait" THEN {} ELSE {new}
<1>1. /\ pc'[h] = to /\ AtWork(h)' = new
      /\ \A g \in Handlers : g # h => pc'[g] = pc[g] /\ AtWork(g)' = AtWork(g)
      /\ \A g \in Handlers : Conn(g)' = Conn(g)
  BY DEF Typed, AtWork, Conn
<1>2. Posted(d)' = Posted(d) /\ InPort(d)' = InPort(d)
  BY DEF Posted, InPort
<1> DEFINE Rest(c) == InPort(c) \cup Posted(c)
<1>3. \A x \in Rest(d) : x[3] = "port"
  BY DEF InPort, Posted
<1>4. pc[h] # "port"
  BY DEF Typed, Places, Counting, Removing
<1>5. Items(d) = {AtWork(g) : g \in Busy(d)} \cup Rest(d)
  BY DEF Items
<1>6. Items(d)' = {AtWork(g)' : g \in Busy(d)'} \cup Rest(d)
  BY <1>2 DEF Items
<1> HIDE DEF Rest
<1>7. ASSUME d # Conn(h)
      PROVE  Items(d)' = Items(d)
  <2>1. Busy(d)' = Busy(d) /\ h \notin Busy(d)
    BY <1>1, <1>7 DEF Busy
  <2>2. \A g \in Busy(d) : AtWork(g)' = AtWork(g)
    BY <1>1, <2>1 DEF Busy
  <2>3. QED
    BY <1>5, <1>6, <2>1, <2>2
<1>8. ASSUME d = Conn(h)
      PROVE  AtWork(h) \in Items(d) /\ Items(d)' = (Items(d) \ {AtWork(h)}) \cup S
  <2>1. h \in Busy(d) /\ Busy(d)' \subseteq Busy(d) /\ Busy(d) \ {h} \subseteq Busy(d)'
        /\ (h \in Busy(d)' <=> to # "wait")
    BY <1>1, <1>8 DEF Busy
  <2>2. \A g \in Busy(d) \ {h} : AtWork(g)' = AtWork(g) /\ AtWork(g) # AtWork(h)
    BY <1>1 DEF Busy, AtWork
  <2>3. AtWork(h) \notin Rest(d)
    BY <1>3, <1>4 DEF AtWork
  <2>4. \A x : x \in Items(d)' <=> x \in (Items(d) \ {AtWork(h)}) \cup S
    <3>1. ASSUME NEW x \in Items(d)'
          PROVE  x \in (Items(d) \ {AtWork(h)}) \cup S
      <4>1. CASE x \in Rest(d)
        BY <1>5, <2>3, <4>1
      <4>2. CASE \E g \in Busy(d)' : x = AtWork(g)'
        BY <1>1, <1>5, <2>1, <2>2, <4>2
      <4>3. QED
        BY <1>6, <4>1, <4>2
    <3>2. ASSUME NEW x \in Items(d), x # AtWork(h)
          PROVE  x \in Items(d)'
      BY <1>5, <1>6, <2>1, <2>2, <3>2
    <3>3. ASSUME NEW x \in S
          PROVE  x \in Items(d)'
      BY <1>1, <1>6, <2>1, <3>3
    <3>4. QED
      BY <3>1, <3>2, <3>3
  <2>5. QED
    BY <1>5, <2>1, <2>4
<1>9. QED
  BY <1>7, <1>8

LEMMA HandlerCounts ==
  ASSUME Typed, Typed', Arrivals, \A c \in Conns : OneOfEach(c) /\ Counted(c),
         NEW h \in Handlers, pc[h] # "wait", NEW to, NEW n \in Int,
         pc' = [pc EXCEPT ![h] = to], job' = job, recv' = recv, send' = send, port' = port,
         number' = number, accepted' = accepted,
         \A c \in Conns : ref'[c] = IF c = Conn(h) THEN ref[c] + n ELSE ref[c],
         \A c \in Conns : /\ c \in recv => NetKind(c)' = NetKind(c)
                          /\ Unsent(c)' = Unsent(c),
         to = "wait" \/ Inherits(AtWork(h), <<h, job[h].kind, to>>),
         Owes(<<h, job[h].kind, to>>) <= Owes(AtWork(h)) + n,
         Adds(<<h, job[h].kind, to>>) + n <= Adds(AtWork(h))
  PROVE  \A c \in Conns : OneOfEach(c)' /\ Counted(c)'
<1> TAKE c \in Conns
<1>1. ToSend(c)' = ToSend(c) /\ ToList(c)' = ToList(c) /\ (Unsent(c)' <=> Unsent(c))
  BY DEF ToSend, ToList
<1>2. CASE c # Conn(h)
  <2>1. Items(c)' = Items(c)
    BY <1>2, HandlerTurn
  <2>2. ref'[c] = ref[c] /\ ref[c] \in Int /\ ToList(c) \in 0 .. 1
    BY <1>2 DEF Typed, ToList
  <2>3. QED
    BY <1>1, <2>1, <2>2, CountKept
<1>3. CASE c = Conn(h)
  <2> DEFINE new == <<h, job[h].kind, to>>
             S   == IF to = "wait" THEN {} ELSE {new}
  <2>1. AtWork(h) \in Items(c) /\ Items(c)' = (Items(c) \ {AtWork(h)}) \cup S
    BY <1>3, HandlerTurn
  <2>2. S \in SUBSET {new} /\ (S = {} \/ Inherits(AtWork(h), new))
    OBVIOUS
  <2>3. number[c] # None /\ ref'[c] = ref[c] + n /\ number'[c] = number[c]
    BY <1>3, HandlerConn
  <2> HIDE DEF new, S
  <2>4. OneOfEach(c)'
    BY <1>1, <2>1, <2>2, OneReplaced
  <2>5. Owes(new) <= Owes(AtWork(h)) + n /\ Adds(new) + n <= Adds(AtWork(h))
    BY DEF new
  <2>6. Counted(c)'
    BY <1>1, <2>1, <2>2, <2>3, <2>5, CountReplaced
  <2>7. QED
    BY <2>4, <2>6
<1>4. QED
  BY <1>2, <1>3

\* What each step of a handler does to its item.
Fits(h, to, n) ==
  LET new == <<h, job[h].kind, to>> IN
  /\ to = "wait" \/ Inherits(AtWork(h), new)
  /\ Owes(new) <= Owes(AtWork(h)) + n
  /\ Adds(new) + n <= Adds(AtWork(h))

LEMMA BeginFits ==
  ASSUME PlacesFit, NEW h \in Handlers, pc[h] = "taken", NEW to,
         to = CASE job[h].kind = "build" -> "repost"
                [] job[h].kind = "end"   -> "zero"
                [] job[h].kind = "sent"  -> "release"
  PROVE  Fits(h, to, 1)
<1>1. job[h].kind \in {"build", "end", "sent"}
  BY DEF PlacesFit, RightKind, KindsAt
<1>2. QED
  BY <1>1 DEF Fits, Inherits, AtWork, Class, Owes, Adds, Removing

LEMMA ErrorFits ==
  ASSUME PlacesFit, NEW h \in Handlers, pc[h] = "error"
  PROVE  Fits(h, "errorRelease", 1)
<1>1. job[h].kind \in {"lost", "unsent"}
  BY DEF PlacesFit, RightKind, KindsAt
<1>2. QED
  BY <1>1 DEF Fits, Inherits, AtWork, Class, Owes, Adds, Removing

LEMMA ReleaseFits ==
  ASSUME PlacesFit, NEW h \in Handlers, NEW from, NEW to, <<from, to>> \in Releases,
         pc[h] = from
  PROVE  Fits(h, to, -1)
<1>1. pc[h] # "wait" /\ job[h].kind \in KindsAt(from)
  BY DEF PlacesFit, RightKind, Releases
<1>2. CASE <<from, to>> \in {<<"dead", "deadTest">>, <<"reposted", "release">>}
  <2>1. job[h].kind = "build"
    BY <1>1, <1>2 DEF KindsAt
  <2>2. QED
    BY <1>2, <2>1 DEF Fits, Inherits, AtWork, Class, Owes, Adds, Removing
<1>3. CASE <<from, to>> = <<"release", "wait">>
  BY <1>3 DEF Fits, AtWork, Class, Owes, Adds, Removing
<1>4. CASE <<from, to>> \in {<<"zero", "zeroTest">>, <<"errorRelease", "errorTest">>}
  <2>1. job[h].kind # "build"
    BY <1>1, <1>4 DEF KindsAt
  <2>2. QED
    BY <1>4, <2>1 DEF Fits, Inherits, AtWork, Class, Owes, Adds, Removing
<1>5. QED
  BY <1>2, <1>3, <1>4 DEF Releases

LEMMA TestFits ==
  ASSUME PlacesFit, NEW h \in Handlers, NEW from, NEW otherwise,
         <<from, otherwise>> \in LastTests, pc[h] = from, NEW to \in {"getLink", otherwise}
  PROVE  Fits(h, to, 0)
<1>1. pc[h] # "wait" /\ job[h].kind \in KindsAt(from)
  BY DEF PlacesFit, RightKind, LastTests
<1>2. CASE <<from, otherwise>> = <<"deadTest", "reposted">>
  <2>1. job[h].kind = "build"
    BY <1>1, <1>2 DEF KindsAt
  <2>2. QED
    BY <1>2, <2>1 DEF Fits, Inherits, AtWork, Class, Owes, Adds, Removing
<1>3. CASE <<from, otherwise>> \in {<<"zeroTest", "release">>, <<"errorTest", "wait">>}
  <2>1. job[h].kind # "build"
    BY <1>1, <1>3 DEF KindsAt
  <2>2. QED
    BY <1>3, <2>1 DEF Fits, Inherits, AtWork, Class, Owes, Adds, Removing
<1>4. QED
  BY <1>2, <1>3 DEF LastTests

LEMMA RemovalFits ==
  ASSUME NEW h \in Handlers, pc[h] \in Removing, NEW to \in Removing
  PROVE  Fits(h, to, 0)
BY DEF Fits, Inherits, AtWork, Class, Owes, Adds, Removing

LEMMA RemovedFits ==
  ASSUME NEW h \in Handlers, pc[h] \in Removing
  PROVE  Fits(h, IF job[h].kind = "build" THEN "release" ELSE "wait", 0)
BY DEF Fits, Inherits, AtWork, Class, Owes, Adds, Removing

LEMMA ItemsKept ==
  ASSUME pc' = pc, job' = job, recv' = recv, send' = send, port' = port, NEW c,
         c \in recv => (task'[c] = "none" <=> task[c] = "none")
  PROVE  Items(c)' = Items(c)
<1>1. \A h : AtWork(h)' = AtWork(h) /\ Conn(h)' = Conn(h)
  BY DEF AtWork, Conn
<1>2. Busy(c)' = Busy(c) /\ InPort(c)' = InPort(c)
  BY <1>1 DEF Busy, InPort
<1>3. Posted(c)' = Posted(c)
  BY DEF Posted, NetKind
<1>4. QED
  BY <1>1, <1>2, <1>3 DEF Items

\* A completion takes the place of what was under way.
LEMMA PortTurn ==
  ASSUME Typed, NEW c \in Conns, NEW kind, Completed(c, kind), pc' = pc, job' = job,
         task' = task,
         \/ c \in recv /\ recv' = recv \ {c} /\ send' = send
         \/ c \in send /\ send' = send \ {c} /\ recv' = recv,
         NEW d \in Conns
  PROVE  /\ d # c => Items(d)' = Items(d)
         /\ d = c =>
              LET old == IF recv' # recv THEN <<"net", NetKind(c), "port">>
                         ELSE <<"net", "sent", "port">> IN
              old \in Items(c) /\ Items(c)' = (Items(c) \ {old}) \cup {<<"port", kind, "port">>}
<1> DEFINE Working(e) == {AtWork(h) : h \in Busy(e)}
<1>1. /\ \A h : AtWork(h)' = AtWork(h) /\ Conn(h)' = Conn(h)
      /\ \A e : Busy(e)' = Busy(e) /\ NetKind(e)' = NetKind(e)
  BY DEF AtWork, Conn, Busy, NetKind
<1>2. \A e : Working(e)' = Working(e)
  BY <1>1
<1>3. \A e : \A x \in Working(e) : x[3] # "port"
  <2>1. \A h \in Handlers : pc[h] # "port"
    BY DEF Typed, Places, Counting, Removing
  <2>2. QED
    BY <2>1 DEF AtWork, Busy
<1>4. \A e : /\ Items(e) = Working(e) \cup InPort(e) \cup Posted(e)
             /\ Items(e)' = Working(e) \cup InPort(e)' \cup Posted(e)'
  BY <1>2 DEF Items
<1> HIDE DEF Working
<1>5. InPort(c)' = InPort(c) \cup {<<"port", kind, "port">>} /\ (d # c => InPort(d)' = InPort(d))
  <2> DEFINE j == [conn |-> c, kind |-> kind]
  <2>1. port' = port \cup {j} /\ j.conn = c /\ j.kind = kind
    BY DEF Completed
  <2> HIDE DEF j
  <2>2. {i \in port' : i.conn = c} = {i \in port : i.conn = c} \cup {j}
    BY <2>1
  <2>3. d # c => {i \in port' : i.conn = d} = {i \in port : i.conn = d}
    BY <2>1
  <2>4. QED
    BY <2>1, <2>2, <2>3 DEF InPort
<1>6. d # c => Posted(d)' = Posted(d)
  BY <1>1 DEF Posted
<1> DEFINE old == IF recv' # recv THEN <<"net", NetKind(c), "port">> ELSE <<"net", "sent", "port">>
<1>7. old \in Posted(c) /\ Posted(c)' = Posted(c) \ {old}
  <2>1. NetKind(c) # "sent"
    BY DEF NetKind
  <2>2. CASE c \in recv /\ recv' = recv \ {c} /\ send' = send
    BY <1>1, <2>1, <2>2 DEF Posted
  <2>3. CASE c \in send /\ send' = send \ {c} /\ recv' = recv
    BY <1>1, <2>1, <2>3 DEF Posted
  <2>4. QED
    BY <2>2, <2>3
<1>8. old \notin Working(c) /\ old \notin InPort(c) /\ old # <<"port", kind, "port">>
  BY <1>3 DEF InPort
<1> HIDE DEF old
<1>9. Items(c)' = (Items(c) \ {old}) \cup {<<"port", kind, "port">>}
  BY <1>4, <1>5, <1>7, <1>8
<1>10. QED
  BY <1>4, <1>5, <1>6, <1>7, <1>9 DEF old

\* A handler that has waited takes a completion from the port.
LEMMA DequeueTurn ==
  ASSUME Typed, NEW h \in Handlers, pc[h] = "wait", NEW done \in port,
         port' = port \ {done}, job' = [job EXCEPT ![h] = done],
         NEW to \in Places, to # "wait", pc' = [pc EXCEPT ![h] = to],
         recv' = recv, send' = send, task' = task, NEW d \in Conns
  PROVE  Items(d)' = IF d = done.conn
                     THEN (Items(d) \ {<<"port", done.kind, "port">>}) \cup {<<h, done.kind, to>>}
                     ELSE Items(d)
<1> DEFINE Working(e) == {AtWork(g) : g \in Busy(e)}
           old == <<"port", done.kind, "port">>
           new == <<h, done.kind, to>>
<1>1. /\ pc'[h] = to /\ AtWork(h)' = new /\ Conn(h)' = done.conn
      /\ \A g \in Handlers : g # h => pc'[g] = pc[g] /\ AtWork(g)' = AtWork(g) /\ Conn(g)' = Conn(g)
  BY DEF Typed, AtWork, Conn
<1>2. Posted(d)' = Posted(d)
  BY DEF Posted, NetKind
<1>3. \A x \in Working(d) : x[3] # "port"
  <2>1. \A g \in Handlers : pc[g] # "port"
    BY DEF Typed, Places, Counting, Removing
  <2>2. QED
    BY <2>1 DEF AtWork, Busy
<1>4. Working(d)' = IF d = done.conn THEN Working(d) \cup {new} ELSE Working(d)
  <2>1. Busy(d)' = IF d = done.conn THEN Busy(d) \cup {h} ELSE Busy(d)
    BY <1>1 DEF Busy
  <2>2. h \notin Busy(d)
    BY DEF Busy
  <2>3. \A g \in Busy(d) : AtWork(g)' = AtWork(g)
    BY <1>1, <2>2 DEF Busy
  <2>4. QED
    BY <1>1, <2>1, <2>2, <2>3
<1>5. \A j \in port : j \in Jobs /\ (j.conn = done.conn /\ j.kind = done.kind => j = done)
  BY DEF Typed, Jobs
<1>6. InPort(d)' = IF d = done.conn THEN InPort(d) \ {old} ELSE InPort(d)
  BY <1>5 DEF InPort
<1>7. d = done.conn => old \in InPort(d)
  BY DEF InPort
<1>8. old \notin Working(d) /\ old \notin Posted(d)
  BY <1>3 DEF Posted
<1>9. /\ Items(d) = Working(d) \cup InPort(d) \cup Posted(d)
      /\ Items(d)' = Working(d)' \cup InPort(d)' \cup Posted(d)
  BY <1>2 DEF Items
<1> HIDE DEF Working, old, new
<1>10. CASE d = done.conn
  <2>1. Items(d)' = (Items(d) \ {old}) \cup {new}
    BY <1>4, <1>6, <1>7, <1>8, <1>9, <1>10
  <2>2. QED
    BY <1>7, <1>9, <1>10, <2>1 DEF old, new
<1>11. CASE d # done.conn
  BY <1>4, <1>6, <1>9, <1>11
<1>12. QED
  BY <1>10, <1>11

LEMMA CountTurn ==
  ASSUME Typed, Typed', \A e \in Conns : OneOfEach(e) /\ Counted(e),
         NEW c \in Conns, NEW i \in Items(c), NEW new, Inherits(i, new),
         Owes(new) <= Owes(i), Adds(new) <= Adds(i), number[c] # None,
         Items(c)' = (Items(c) \ {i}) \cup {new},
         \A e \in Conns : e # c => Items(e)' = Items(e),
         ref' = ref, number' = number, accepted' = accepted, task' = task
  PROVE  \A e \in Conns : OneOfEach(e)' /\ Counted(e)'
<1>1. Counted(c)'
  <2>1. {new} \in SUBSET {new} /\ 0 \in Int /\ ref'[c] = ref[c] + 0
    BY DEF Typed
  <2>2. Owes(new) <= Owes(i) + 0 /\ Adds(new) + 0 <= Adds(i)
    BY Weights
  <2>3. ToSend(c)' = ToSend(c) /\ ToList(c)' = ToList(c) /\ number'[c] = number[c]
    BY DEF ToSend, ToList, Unsent
  <2>4. QED
    BY <2>1, <2>2, <2>3, CountReplaced
<1> TAKE e \in Conns
<1>2. /\ ref[e] \in Int /\ ToList(e) \in 0 .. 1 /\ ToList(e)' = ToList(e)
      /\ ToSend(e)' = ToSend(e) /\ Unsent(e)' = Unsent(e)
  BY DEF Typed, ToList, ToSend, Unsent
<1>3. CASE e # c
  BY <1>2, <1>3, CountKept
<1>4. CASE e = c
  <2>1. OneOfEach(e)'
    BY <1>2, <1>4, OneReplaced
  <2>2. QED
    BY <1>1, <1>4, <2>1
<1>5. QED
  BY <1>3, <1>4

LEMMA RecvCounts ==
  ASSUME Typed, Typed', Arrivals, CountInv, NEW c \in Conns, RecvCompletes(c)
  PROVE  \A e \in Conns : OneOfEach(e)' /\ Counted(e)'
<1> USE DEF network, tables, handler
<1> DEFINE old == <<"net", NetKind(c), "port">>
<1>1. PICK kind \in {"build", "end", "lost"} :
        Completed(c, kind) /\ (kind = "build" => task[c] = "none")
  BY DEF RecvCompletes
<1> DEFINE new == <<"port", kind, "port">>
<1>2. c \in recv /\ recv' = recv \ {c} /\ recv' # recv /\ number[c] # None
  BY DEF RecvCompletes, Arrivals, Unborn
<1>3. /\ pc' = pc /\ job' = job /\ task' = task /\ send' = send
      /\ ref' = ref /\ number' = number /\ accepted' = accepted
  BY DEF RecvCompletes
<1>4. /\ old \in Items(c) /\ Items(c)' = (Items(c) \ {old}) \cup {new}
      /\ \A e \in Conns : e # c => Items(e)' = Items(e)
  BY <1>1, <1>2, <1>3, PortTurn
<1>5. Inherits(old, new) /\ Owes(new) <= Owes(old) /\ Adds(new) <= Adds(old)
  BY <1>1 DEF Inherits, Class, Owes, Adds, NetKind, Removing
<1> HIDE DEF old, new
<1>6. QED
  BY <1>2, <1>3, <1>4, <1>5, CountTurn DEF CountInv

LEMMA SendCounts ==
  ASSUME Typed, Typed', Arrivals, CountInv, NEW c \in Conns, SendCompletes(c)
  PROVE  \A e \in Conns : OneOfEach(e)' /\ Counted(e)'
<1> USE DEF network, tables, handler
<1> DEFINE old == <<"net", "sent", "port">>
           kind == IF Broken(c) THEN "unsent" ELSE "sent"
           new == <<"port", kind, "port">>
<1>1. Completed(c, kind) /\ kind \in {"sent", "unsent"}
  BY DEF SendCompletes
<1>2. c \in send /\ send' = send \ {c} /\ number[c] # None
  BY DEF SendCompletes, Arrivals, Unborn
<1>3. /\ pc' = pc /\ job' = job /\ task' = task /\ recv' = recv
      /\ ref' = ref /\ number' = number /\ accepted' = accepted
  BY DEF SendCompletes
<1> HIDE DEF kind
<1>4. /\ old \in Items(c) /\ Items(c)' = (Items(c) \ {old}) \cup {new}
      /\ \A e \in Conns : e # c => Items(e)' = Items(e)
  BY <1>1, <1>2, <1>3, PortTurn
<1>5. Inherits(old, new) /\ Owes(new) <= Owes(old) /\ Adds(new) <= Adds(old)
  BY <1>1 DEF Inherits, Class, Owes, Adds, Removing
<1> HIDE DEF old, new
<1>6. QED
  BY <1>2, <1>3, <1>4, <1>5, CountTurn DEF CountInv

LEMMA DequeueCounts ==
  ASSUME Typed, Typed', Arrivals, CountInv, NEW h \in Handlers, Dequeue(h)
  PROVE  \A e \in Conns : OneOfEach(e)' /\ Counted(e)'
<1>1. PICK done \in port, to \in {"error", "taken"} :
        /\ port' = port \ {done} /\ job' = [job EXCEPT ![h] = done]
        /\ pc' = [pc EXCEPT ![h] = to]
        /\ to = "error" <=> done.kind \in {"lost", "unsent"}
  BY DEF Dequeue
<1> DEFINE old == <<"port", done.kind, "port">>
           new == <<h, done.kind, to>>
<1>2. done.conn \in Conns /\ done.kind \in Kinds /\ number[done.conn] # None
  BY JobParts DEF Typed, Arrivals
<1>3. /\ pc[h] = "wait" /\ recv' = recv /\ send' = send /\ task' = task
      /\ ref' = ref /\ number' = number /\ accepted' = accepted
  BY DEF Dequeue, Aside
<1>4. to \in Places /\ to # "wait"
  BY DEF Places, Counting
<1>5. Inherits(old, new) /\ Owes(new) <= Owes(old) /\ Adds(new) <= Adds(old)
  BY <1>1, <1>2 DEF Inherits, Class, Owes, Adds, Kinds, Removing
<1>6. /\ old \in Items(done.conn) /\ Items(done.conn)' = (Items(done.conn) \ {old}) \cup {new}
      /\ \A e \in Conns : e # done.conn => Items(e)' = Items(e)
  <2>1. old \in Items(done.conn)
    BY ItemForms
  <2>2. \A e \in Conns :
          Items(e)' = IF e = done.conn THEN (Items(e) \ {old}) \cup {new} ELSE Items(e)
    BY <1>1, <1>3, <1>4, DequeueTurn
  <2>3. QED
    BY <1>2, <2>1, <2>2
<1> HIDE DEF old, new
<1>7. QED
  BY <1>2, <1>3, <1>5, <1>6, CountTurn DEF CountInv

\* A connection that has not been accepted has nothing under way.
LEMMA UnbornIdle ==
  ASSUME Typed, Arrivals, NEW c \in Conns, number[c] = None
  PROVE  Items(c) = {} /\ Unsent(c) /\ NetKind(c) = "build" /\ accepted # c
<1>1. Unborn(c)
  BY DEF Arrivals
<1>2. Busy(c) = {}
  BY HandlerConn DEF Busy
<1>3. InPort(c) = {} /\ Posted(c) = {}
  BY <1>1 DEF InPort, Posted, Arrivals, Unborn
<1>4. QED
  BY <1>1, <1>2, <1>3 DEF Items, Unborn, Unsent, NetKind

LEMMA AcceptCounts ==
  ASSUME Typed, Typed', Arrivals, CountInv, NEW c \in Conns, Accept(c)
  PROVE  \A e \in Conns : OneOfEach(e)' /\ Counted(e)'
<1> USE DEF network, tables, handler
<1>1. number[c] = None /\ ref[c] = 0 /\ ref'[c] = 0 /\ accepted = None
  BY DEF Accept, Arrivals, CountInv, Counted
<1>2. /\ pc' = pc /\ job' = job /\ task' = task /\ send' = send /\ ref' = ref
      /\ \/ recv' \in {recv, recv \cup {c}} /\ port' = port
         \/ recv' = recv /\ port' = port \cup {[conn |-> c, kind |-> "end"]}
      /\ accepted' \in {accepted, c}
      /\ \A e \in Conns : e # c => number'[e] = number[e]
  BY DEF Accept, Completed, Typed
<1>3. Items(c) = {} /\ NetKind(c) = "build" /\ Unsent(c)
  BY <1>1, UnbornIdle
<1> DEFINE new == IF port' = port THEN <<"net", "build", "port">> ELSE <<"port", "end", "port">>
<1>4. Items(c)' \subseteq {new} /\ Unsent(c)'
  <2>1. \A g \in Handlers : AtWork(g)' = AtWork(g) /\ Conn(g)' = Conn(g)
    BY <1>2 DEF AtWork, Conn
  <2>2. Busy(c)' = Busy(c)
    BY <1>2, <2>1 DEF Busy
  <2>3. InPort(c)' \cup Posted(c)' \subseteq InPort(c) \cup Posted(c) \cup {new}
    <3>1. CASE port' = port
      BY <1>2, <1>3, <3>1 DEF Posted, InPort, NetKind
    <3>2. CASE port' # port
      BY <1>2, <1>3, <3>2 DEF Posted, InPort, NetKind
    <3>3. QED
      BY <3>1, <3>2
  <2>4. QED
    BY <1>2, <1>3, <2>1, <2>2, <2>3 DEF Items, Unsent
<1> TAKE e \in Conns
<1>5. ASSUME e # c
      PROVE  OneOfEach(e)' /\ Counted(e)'
  <2>1. Items(e)' = Items(e)
    <3>1. \A g \in Handlers : AtWork(g)' = AtWork(g) /\ Conn(g)' = Conn(g)
      BY <1>2 DEF AtWork, Conn
    <3>2. Busy(e)' = Busy(e)
      BY <1>2, <3>1 DEF Busy
    <3>3. Posted(e)' = Posted(e) /\ InPort(e)' = InPort(e)
      BY <1>2, <1>5 DEF Posted, InPort, NetKind
    <3>4. QED
      BY <3>1, <3>2, <3>3 DEF Items, Busy
  <2>2. /\ ref'[e] = ref[e] /\ ref[e] \in Int /\ ToList(e) \in 0 .. 1 /\ ToList(e)' = ToList(e)
        /\ Unsent(e)' = Unsent(e) /\ number'[e] = number[e]
    BY <1>1, <1>2, <1>5, NamesAssumption DEF Typed, ToList, Unsent
  <2>3. QED
    BY <2>1, <2>2, CountKept DEF CountInv
<1>6. ASSUME e = c
      PROVE  OneOfEach(e)' /\ Counted(e)'
  <2>1. Owes(new) \in 0 .. 2 /\ Adds(new) \in 0 .. 3 /\ Class(new) = "recv"
    BY DEF Owes, Adds, Class
  <2>2. OneOfEach(e)'
    BY <1>4, <1>6, <2>1 DEF OneOfEach
  <2>3. ToSend(e)' \in 0 .. 1 /\ ToList(e)' \in 0 .. 1
    BY DEF ToSend, ToList
  <2>4. /\ OfClass(e, "recv")' \subseteq {new, NoItem}
        /\ OfClass(e, "release")' = {NoItem} /\ OfClass(e, "send")' = {NoItem}
    BY <1>4, <1>6, <2>1 DEF OfClass
  <2>5. QED
    BY <1>1, <1>6, <2>1, <2>2, <2>3, <2>4, NoWeight DEF Counted
<1>7. QED
  BY <1>5, <1>6

\* The handler is left with its releases, and a receive may be under way again.
LEMMA RepostedCounts ==
  ASSUME Typed, Typed', Arrivals, CountInv, NEW h \in Handlers, RePostRecv(h),
         NEW to \in {"reposted", "dead"}, pc' = [pc EXCEPT ![h] = to]
  PROVE  \A e \in Conns : OneOfEach(e)' /\ Counted(e)'
<1> USE DEF network, tables, handler
<1> DEFINE i    == AtWork(h)
           end  == <<h, "build", to>>
           next == IF port' = port THEN <<"net", "end", "port">> ELSE <<"port", "end", "port">>
<1>1. Conn(h) \in Conns
  BY HandlerConn DEF RePostRecv, Goto
<1> PICK c \in Conns : c = Conn(h)
  BY <1>1
<1>2. /\ pc[h] = "repost" /\ ref' = [ref EXCEPT ![c] = @ + 1] /\ job' = job
      /\ \/ recv' \in {recv, recv \cup {c}} /\ port' = port
         \/ recv' = recv /\ port' = port \cup {[conn |-> c, kind |-> "end"]}
      /\ task' = task /\ send' = send /\ number' = number /\ accepted' = accepted
  BY DEF RePostRecv, Goto, Counts, Completed, Aside, Typed
<1>3. /\ c \in Conns /\ number[c] # None /\ job[h].kind = "build" /\ task[c] # "none"
  BY <1>2, HandlerConn DEF PlacesFit, RightKind, KindsAt, CountInv
<1>4. i = <<h, "build", "repost">>
  BY <1>2, <1>3 DEF AtWork
<1>5. \A e : Busy(e)' = Busy(e)
  BY <1>2 DEF Busy, Conn, Typed
<1>6. \A g \in Handlers : AtWork(g)' = IF g = h THEN end ELSE AtWork(g)
  BY <1>2, <1>3 DEF AtWork, Typed
<1>7. h \in Busy(c) /\ \A e : e # c => h \notin Busy(e)
  BY <1>2 DEF Busy
<1>8. \A e : \A g \in Busy(e) : g \in Handlers
  BY DEF Busy
<1>9. i \in Items(c) /\ Items(c)' \subseteq (Items(c) \ {i}) \cup {end, next}
  <2>1. InPort(c)' \cup Posted(c)' \subseteq InPort(c) \cup Posted(c) \cup {next}
    <3>1. NetKind(c)' = "end" /\ NetKind(c) = "end"
      BY <1>2, <1>3 DEF NetKind
    <3>2. CASE port' = port
      BY <1>2, <3>1, <3>2 DEF Posted, InPort
    <3>3. CASE port' # port
      BY <1>2, <3>1, <3>3 DEF Posted, InPort
    <3>4. QED
      BY <3>2, <3>3
  <2>2. i \in Items(c) /\ i \notin InPort(c) /\ i \notin Posted(c)
    BY <1>4, <1>7 DEF Items, InPort, Posted
  <2>3. \A g \in Handlers : g # h => AtWork(g) # i
    BY DEF AtWork
  <2>4. ASSUME NEW x \in Items(c)'
        PROVE  x \in (Items(c) \ {i}) \cup {end, next}
    <3>1. CASE \E g \in Busy(c) : x = AtWork(g)'
      <4>1. PICK g \in Busy(c) : x = AtWork(g)'
        BY <3>1
      <4>2. g = h => x = end
        BY <1>6, <1>8, <4>1
      <4>3. g # h => x \in Items(c) /\ x # i
        BY <1>6, <1>8, <2>3, <4>1 DEF Items
      <4>4. QED
        BY <4>2, <4>3
    <3>2. CASE x \in InPort(c)' \cup Posted(c)'
      BY <2>1, <2>2, <3>2 DEF Items
    <3>3. Items(c)' = {AtWork(g)' : g \in Busy(c)'} \cup InPort(c)' \cup Posted(c)'
      BY DEF Items
    <3>4. x \in {AtWork(g)' : g \in Busy(c)} \cup InPort(c)' \cup Posted(c)'
      BY <1>5, <3>3
    <3>5. QED
      BY <3>1, <3>2, <3>4
  <2>5. QED
    BY <2>2, <2>4
<1>10. \A e \in Conns : e # c => Items(e)' = Items(e)
  <2> TAKE e \in Conns
  <2> HAVE e # c
  <2>1. Posted(e)' = Posted(e) /\ InPort(e)' = InPort(e)
    BY <1>2 DEF Posted, InPort, NetKind
  <2>2. \A g \in Busy(e) : AtWork(g)' = AtWork(g)
    BY <1>6, <1>7, <1>8
  <2>3. QED
    BY <1>5, <2>1, <2>2 DEF Items
<1> TAKE e \in Conns
<1>11. ASSUME e # c
       PROVE  OneOfEach(e)' /\ Counted(e)'
  <2>1. ref'[e] = ref[e] /\ ref[e] \in Int
    BY <1>2, <1>11 DEF Typed
  <2>2. /\ ToList(e) \in 0 .. 1 /\ ToList(e)' = ToList(e)
        /\ Unsent(e)' = Unsent(e) /\ number'[e] = number[e]
    BY <1>2 DEF ToList, Unsent
  <2>3. QED
    BY <1>10, <1>11, <2>1, <2>2, CountKept DEF CountInv
<1>12. ASSUME e = c
       PROVE  OneOfEach(e)' /\ Counted(e)'
  <2>1. /\ Class(i) = "recv" /\ Owes(i) = 3 /\ Adds(i) = 2 /\ i[2] = "build"
        /\ Class(end) = "release" /\ Owes(end) <= 3 /\ Adds(end) = 0 /\ end[2] = "build"
        /\ Class(next) = "recv" /\ Owes(next) = 1 /\ Adds(next) = 1 /\ next[2] # "build"
    <3>1. Class(i) = "recv" /\ Owes(i) = 3 /\ Adds(i) = 2 /\ i[2] = "build"
      <4>1. i[2] = "build" /\ i[3] = "repost"
        BY <1>4
      <4> HIDE DEF i
      <4>2. Class(i) = "recv"
        BY <4>1 DEF Class
      <4>3. Owes(i) = 3 /\ Adds(i) = 2
        BY <4>1 DEF Owes, Adds, Removing
      <4>4. QED
        BY <4>1, <4>2, <4>3
    <3>2. Class(end) = "release" /\ Owes(end) <= 3 /\ Adds(end) = 0 /\ end[2] = "build"
      BY DEF Class, Owes, Adds
    <3>3. Class(next) = "recv" /\ Owes(next) = 1 /\ Adds(next) = 1 /\ next[2] # "build"
      BY DEF Class, Owes, Adds
    <3>4. QED
      BY <3>1, <3>2, <3>3
  <2>2. \A z \in Items(c) \ {i} : Class(z) = "send" /\ z[2] # "build"
    BY <1>3, <1>9, <2>1, Weights DEF OneOfEach, CountInv
  <2>3. Unsent(c)' = Unsent(c) /\ ToSend(c)' = ToSend(c) /\ ToList(c)' = ToList(c)
    BY <1>2 DEF Unsent, ToSend, ToList
  <2> HIDE DEF i, end, next
  <2>4. OneOfEach(c)'
    <3>1. OneOfEach(c)
      BY <1>3 DEF CountInv
    <3>2. ASSUME NEW x \in Items(c)', NEW y \in Items(c)',
                 Class(x) = Class(y) \/ (x[2] = "build" /\ y[2] = "build")
          PROVE  x = y
      <4>1. x \in Items(c) \ {i} \/ x \in {end, next}
        BY <1>9
      <4>2. y \in Items(c) \ {i} \/ y \in {end, next}
        BY <1>9
      <4>3. CASE x \in Items(c) \ {i} /\ y \in Items(c) \ {i}
        BY <3>1, <3>2, <4>3 DEF OneOfEach
      <4>4. QED
        BY <2>1, <2>2, <3>2, <4>1, <4>2, <4>3
    <3>3. Unsent(c)' => \A x \in Items(c)' : Class(x) # "send"
      BY <1>9, <2>1, <2>3, <3>1 DEF OneOfEach
    <3>4. QED
      BY <3>2, <3>3 DEF OneOfEach
  <2>5. ASSUME NEW r \in OfClass(c, "recv")', NEW b \in OfClass(c, "release")',
               NEW s \in OfClass(c, "send")'
        PROVE  /\ Owes(r) + Owes(b) + Owes(s) <= ref'[c] + 2
               /\ ref'[c] + Adds(r) + Adds(b) + Adds(s) + ToSend(c)' + ToList(c)' <= 5
    <3>1. r \in {next, NoItem} /\ b \in {end, NoItem}
      BY <1>9, <2>1, <2>2 DEF OfClass
    <3>2. s \in OfClass(c, "send")
      BY <1>9, <2>1 DEF OfClass
    <3>3. i \in OfClass(c, "recv") /\ NoItem \in OfClass(c, "release")
      BY <1>9, <2>1 DEF OfClass
    <3>4. /\ Owes(i) + Owes(NoItem) + Owes(s) <= ref[c] + 2
          /\ ref[c] + Adds(i) + Adds(NoItem) + Adds(s) + ToSend(c) + ToList(c) <= 5
      BY <1>3, <3>2, <3>3 DEF CountInv, Counted
    <3>5. /\ Owes(s) \in 0 .. 3 /\ Adds(s) \in 0 .. 3 /\ ref[c] \in Int
          /\ ToSend(c) \in 0 .. 1 /\ ToList(c) \in 0 .. 1
      BY <1>3, Weights DEF Typed, ToSend, ToList
    <3>6. Owes(r) + Owes(b) <= 4 /\ Adds(r) + Adds(b) <= 1
          /\ Owes(r) \in 0 .. 3 /\ Owes(b) \in 0 .. 3 /\ Adds(r) \in 0 .. 3 /\ Adds(b) \in 0 .. 3
      BY <2>1, <3>1, NoWeight, Weights
    <3>7. 3 + Owes(s) <= ref[c] + 2 /\ ref[c] + 2 + Adds(s) + ToSend(c) + ToList(c) <= 5
      BY <2>1, <3>4, <3>5, NoWeight
    <3>8. ref'[c] = ref[c] + 1
      BY <1>2 DEF Typed
    <3>9. QED
      BY <2>3, <3>5, <3>6, <3>7, <3>8
  <2>6. QED
    BY <1>2, <1>3, <1>12, <2>4, <2>5 DEF Counted
<1>13. QED
  BY <1>11, <1>12

\* The answer to the build request is posted.
LEMMA SendAckCounts ==
  ASSUME Typed, Typed', Arrivals, CountInv, NEW c \in Conns, SendBuildConnectAck(c)
  PROVE  \A e \in Conns : OneOfEach(e)' /\ Counted(e)'
<1> USE DEF network, tables, handler
<1> DEFINE new == <<"net", "sent", "port">>
<1>1. /\ task[c] = "ack" /\ task' = [task EXCEPT ![c] = "dropLink"]
      /\ pc' = pc /\ job' = job /\ recv' = recv /\ port' = port /\ ref' = ref
      /\ number' = number /\ accepted' = accepted /\ send' \in {send, send \cup {c}}
  BY DEF SendBuildConnectAck, RunTask
<1>2. number[c] # None /\ Unsent(c) /\ ~Unsent(c)'
  BY <1>1 DEF Arrivals, Unborn, Unsent, Typed
<1>3. \A e \in Conns : e # c => Unsent(e)' = Unsent(e)
  BY <1>1 DEF Unsent, Typed
<1>4. \A e \in Conns : NetKind(e)' = NetKind(e)
  BY <1>1 DEF NetKind, Typed
<1>5. \A e : Busy(e)' = Busy(e) /\ InPort(e)' = InPort(e)
  BY <1>1 DEF Busy, InPort, Conn
<1>6. \A g : AtWork(g)' = AtWork(g)
  BY <1>1 DEF AtWork
<1>7. \A e \in Conns : Items(e)' = IF e = c /\ c \in send' THEN Items(e) \cup {new} ELSE Items(e)
  <2> TAKE e \in Conns
  <2>1. Posted(e)' = IF e = c /\ c \in send' THEN Posted(e) \cup {new} ELSE Posted(e)
    BY <1>1, <1>4 DEF Posted
  <2>2. QED
    BY <1>5, <1>6, <2>1 DEF Items
<1> TAKE e \in Conns
<1>8. ASSUME e # c
      PROVE  OneOfEach(e)' /\ Counted(e)'
  <2>1. /\ ref'[e] = ref[e] /\ ref[e] \in Int /\ ToList(e) \in 0 .. 1 /\ ToList(e)' = ToList(e)
        /\ number'[e] = number[e]
    BY <1>1 DEF Typed, ToList
  <2>2. QED
    BY <1>3, <1>7, <1>8, <2>1, CountKept DEF CountInv
<1>9. ASSUME e = c
      PROVE  OneOfEach(e)' /\ Counted(e)'
  <2>1. Class(new) = "send" /\ Owes(new) = 0 /\ Adds(new) = 1 /\ new[2] # "build"
    BY DEF Class, Owes, Adds, Removing
  <2>2. OneOfEach(c) /\ Counted(c) /\ \A i \in Items(c) : Class(i) # "send"
    BY <1>2 DEF OneOfEach, CountInv
  <2>3. Items(c)' \subseteq Items(c) \cup {new}
    BY <1>7
  <2> HIDE DEF new
  <2>4. OneOfEach(c)'
    <3>1. ASSUME NEW x \in Items(c)', NEW y \in Items(c)',
                 Class(x) = Class(y) \/ (x[2] = "build" /\ y[2] = "build")
          PROVE  x = y
      <4>1. CASE x \in Items(c) /\ y \in Items(c)
        BY <2>2, <3>1, <4>1 DEF OneOfEach
      <4>2. QED
        BY <2>1, <2>2, <2>3, <3>1, <4>1
    <3>2. QED
      BY <1>2, <3>1 DEF OneOfEach
  <2>5. ASSUME NEW r \in OfClass(c, "recv")', NEW b \in OfClass(c, "release")',
               NEW s \in OfClass(c, "send")'
        PROVE  /\ Owes(r) + Owes(b) + Owes(s) <= ref'[c] + 2
               /\ ref'[c] + Adds(r) + Adds(b) + Adds(s) + ToSend(c)' + ToList(c)' <= 5
    <3>1. r \in OfClass(c, "recv") /\ b \in OfClass(c, "release") /\ s \in {new, NoItem}
      BY <2>1, <2>2, <2>3 DEF OfClass
    <3>2. NoItem \in OfClass(c, "send")
      BY DEF OfClass
    <3>3. /\ Owes(r) + Owes(b) + Owes(NoItem) <= ref[c] + 2
          /\ ref[c] + Adds(r) + Adds(b) + Adds(NoItem) + ToSend(c) + ToList(c) <= 5
      BY <2>2, <3>1, <3>2 DEF Counted
    <3>4. /\ Owes(r) \in 0 .. 3 /\ Adds(r) \in 0 .. 3 /\ Owes(b) \in 0 .. 3 /\ Adds(b) \in 0 .. 3
          /\ ref[c] \in Int /\ ToList(c) \in 0 .. 1
      BY Weights DEF Typed, ToList
    <3>5. ToSend(c) = 1 /\ ToSend(c)' = 0 /\ ToList(c)' = ToList(c)
      BY <1>1, <1>2 DEF ToSend, ToList
    <3>6. Owes(s) = 0 /\ Adds(s) \in {0, 1}
      BY <2>1, <3>1, NoWeight
    <3>7. Owes(r) + Owes(b) <= ref[c] + 2 /\ ref[c] + Adds(r) + Adds(b) + 1 + ToList(c) <= 5
      BY <3>3, <3>4, <3>5, NoWeight
    <3>8. QED
      BY <1>1, <3>4, <3>5, <3>6, <3>7
  <2>6. QED
    BY <1>1, <1>2, <1>9, <2>4, <2>5 DEF Counted
<1>10. QED
  BY <1>8, <1>9

\* A handler moves on, and takes or gives back n references.
Proceeds(h, to, n) ==
  /\ pc[h] # "wait" /\ pc' = [pc EXCEPT ![h] = to] /\ job' = job
  /\ recv' = recv /\ send' = send /\ port' = port /\ number' = number /\ accepted' = accepted
  /\ ref' = [ref EXCEPT ![Conn(h)] = @ + n] \/ (n = 0 /\ ref' = ref)

LEMMA MoveCounts ==
  ASSUME Typed, Typed', Arrivals, CountInv, NEW h \in Handlers, NEW to, NEW n \in Int,
         Proceeds(h, to, n), Fits(h, to, n),
         \A c \in Conns : (c \in recv => NetKind(c)' = NetKind(c)) /\ Unsent(c)' = Unsent(c)
  PROVE  \A e \in Conns : OneOfEach(e)' /\ Counted(e)'
<1>1. \A c \in Conns : ref'[c] = IF c = Conn(h) THEN ref[c] + n ELSE ref[c]
  BY DEF Typed, Proceeds
<1>2. /\ to = "wait" \/ Inherits(AtWork(h), <<h, job[h].kind, to>>)
      /\ Owes(<<h, job[h].kind, to>>) <= Owes(AtWork(h)) + n
      /\ Adds(<<h, job[h].kind, to>>) + n <= Adds(AtWork(h))
  BY DEF Fits
<1>3. QED
  BY <1>1, <1>2, HandlerCounts DEF CountInv, Proceeds

LEMMA PlainMoveCounts ==
  ASSUME Typed, Typed', Arrivals, CountInv, NEW h \in Handlers, NEW to, NEW n \in Int,
         Proceeds(h, to, n), Fits(h, to, n), task' = task
  PROVE  \A e \in Conns : OneOfEach(e)' /\ Counted(e)'
<1>1. \A c \in Conns : (c \in recv => NetKind(c)' = NetKind(c)) /\ Unsent(c)' = Unsent(c)
  BY DEF NetKind, Unsent
<1>2. QED
  BY <1>1, MoveCounts

\* A step that touches neither a handler nor the port leaves the items alone.
LEMMA QuietCounts ==
  ASSUME Typed, Typed', CountInv, pc' = pc, job' = job, recv' = recv, send' = send,
         port' = port, ref' = ref, number' = number, accepted' = accepted,
         \A c \in Conns : /\ task'[c] = "none" <=> task[c] = "none"
                          /\ Unsent(c)' => Unsent(c)
  PROVE  \A e \in Conns : OneOfEach(e)' /\ Counted(e)'
<1> TAKE e \in Conns
<1>1. Items(e)' = Items(e)
  BY ItemsKept
<1>2. ref'[e] = ref[e] /\ ref[e] \in Int /\ ToList(e)' = ToList(e) /\ ToList(e) \in 0 .. 1
  BY DEF Typed, ToList
<1>3. QED
  BY <1>1, <1>2, CountKept DEF CountInv

LEMMA EnterCounts ==
  ASSUME Typed, Typed', Arrivals, CountInv, EnterList
  PROVE  \A e \in Conns : OneOfEach(e)' /\ Counted(e)'
<1> USE DEF network, tables, handler
<1>1. accepted \in Conns /\ number[accepted] # None
  BY DEF EnterList, Typed, Arrivals, Unborn
<1>2. /\ ref' = [ref EXCEPT ![accepted] = @ + 1] /\ accepted' = None
      /\ pc' = pc /\ job' = job /\ recv' = recv /\ send' = send /\ port' = port
      /\ task' = task /\ number' = number
  BY DEF EnterList
<1> TAKE e \in Conns
<1>3. Items(e)' = Items(e) /\ Unsent(e)' = Unsent(e) /\ number'[e] = number[e]
  BY <1>2, ItemsKept DEF Unsent
<1>4. ref[e] \in Int /\ ref'[e] = IF e = accepted THEN ref[e] + 1 ELSE ref[e]
  BY <1>1, <1>2 DEF Typed
<1>5. ToList(e) = (IF e = accepted THEN 1 ELSE 0) /\ ToList(e)' = 0
  BY <1>2, NamesAssumption DEF ToList
<1>6. QED
  BY <1>1, <1>3, <1>4, <1>5, CountKept DEF CountInv

LEMMA DropCounts ==
  ASSUME Typed, Typed', Arrivals, CountInv, DropAccepted
  PROVE  \A e \in Conns : OneOfEach(e)' /\ Counted(e)'
<1> USE DEF network, tables, handler
<1>1. /\ accepted' = None /\ ref' = ref /\ pc' = pc /\ job' = job /\ recv' = recv
      /\ send' = send /\ port' = port /\ task' = task /\ number' = number
  BY DEF DropAccepted
<1> TAKE e \in Conns
<1>2. Items(e)' = Items(e) /\ Unsent(e)' = Unsent(e)
  BY <1>1, ItemsKept DEF Unsent
<1>3. /\ ref[e] \in Int /\ ref'[e] = ref[e] /\ number'[e] = number[e]
      /\ ToList(e) \in 0 .. 1 /\ ToList(e)' = 0
  BY <1>1, NamesAssumption DEF Typed, ToList
<1>4. QED
  BY <1>1, <1>2, <1>3, CountKept DEF CountInv

LEMMA CountStep ==
  ASSUME Typed, Arrivals, Requests, CountInv, [Next]_vars
  PROVE  \A e \in Conns : OneOfEach(e)' /\ Counted(e)'
<1> USE DEF network, tables, handler
<1>1. Typed'
  BY TypedStep
<1>2. CASE UNCHANGED vars
  BY <1>1, <1>2, QuietCounts DEF vars, Unsent
<1>3. ASSUME NEW c \in Conns, PeerLeaves(c)
      PROVE  \A e \in Conns : OneOfEach(e)' /\ Counted(e)'
  BY <1>1, <1>3, QuietCounts DEF PeerLeaves, Unsent
<1>4. ASSUME NEW c \in Conns, RecvCompletes(c)
      PROVE  \A e \in Conns : OneOfEach(e)' /\ Counted(e)'
  BY <1>1, <1>4, RecvCounts
<1>5. ASSUME NEW c \in Conns, SendCompletes(c)
      PROVE  \A e \in Conns : OneOfEach(e)' /\ Counted(e)'
  BY <1>1, <1>5, SendCounts
<1>6. ASSUME NEW c \in Conns, Accept(c)
      PROVE  \A e \in Conns : OneOfEach(e)' /\ Counted(e)'
  BY <1>1, <1>6, AcceptCounts
<1>7. ASSUME NEW c \in Conns, AddLinkNetObj(c)
      PROVE  \A e \in Conns : OneOfEach(e)' /\ Counted(e)'
  <2>1. \E to \in {"linked", "done", "unlinked"} : task' = [task EXCEPT ![c] = to] /\ task[c] = "queued"
    BY <1>7 DEF AddLinkNetObj, RunTask
  <2>2. \A e \in Conns : (task'[e] = "none" <=> task[e] = "none") /\ (Unsent(e)' => Unsent(e))
    BY <2>1 DEF Unsent, Typed
  <2>3. QED
    BY <1>1, <1>7, <2>2, QuietCounts DEF AddLinkNetObj, RunTask
<1>8. ASSUME NEW c \in Conns, LeaveList(c)
      PROVE  \A e \in Conns : OneOfEach(e)' /\ Counted(e)'
  <2>1. \A e \in Conns : (task'[e] = "none" <=> task[e] = "none") /\ (Unsent(e)' => Unsent(e))
    BY <1>8 DEF LeaveList, RunTask, Unsent, Typed
  <2>2. QED
    BY <1>1, <1>8, <2>1, QuietCounts DEF LeaveList, RunTask
<1>9. ASSUME NEW c \in Conns, SendBuildConnectAck(c)
      PROVE  \A e \in Conns : OneOfEach(e)' /\ Counted(e)'
  BY <1>1, <1>9, SendAckCounts
<1>10. ASSUME NEW c \in Conns, EndBuild(c)
      PROVE  \A e \in Conns : OneOfEach(e)' /\ Counted(e)'
  <2>1. \A e \in Conns : (task'[e] = "none" <=> task[e] = "none") /\ (Unsent(e)' => Unsent(e))
    BY <1>10 DEF EndBuild, RunTask, Unsent, Typed
  <2>2. QED
    BY <1>1, <1>10, <2>1, QuietCounts DEF EndBuild, RunTask
<1>11. CASE EnterList \/ DropAccepted
  BY <1>1, <1>11, EnterCounts, DropCounts
<1>12. ASSUME NEW h \in Handlers, Dequeue(h)
       PROVE  \A e \in Conns : OneOfEach(e)' /\ Counted(e)'
  BY <1>1, <1>12, DequeueCounts
<1>13. ASSUME NEW h \in Handlers, BeginCompletion(h)
       PROVE  \A e \in Conns : OneOfEach(e)' /\ Counted(e)'
  <2> DEFINE to == CASE job[h].kind = "build" -> "repost"
                     [] job[h].kind = "end"   -> "zero"
                     [] job[h].kind = "sent"  -> "release"
  <2>1. /\ pc[h] = "taken" /\ pc' = [pc EXCEPT ![h] = to]
        /\ ref' = [ref EXCEPT ![Conn(h)] = @ + 1]
        /\ job' = job /\ recv' = recv /\ send' = send /\ port' = port
        /\ number' = number /\ accepted' = accepted
        /\ task' = IF job[h].kind = "build" THEN [task EXCEPT ![Conn(h)] = "queued"] ELSE task
    BY <1>13 DEF BeginCompletion, Goto, Counts, Aside
  <2>2. Fits(h, to, 1)
    BY <2>1, BeginFits DEF CountInv
  <2>3. ASSUME NEW c \in Conns
        PROVE  (c \in recv => NetKind(c)' = NetKind(c)) /\ Unsent(c)' = Unsent(c)
    <3>1. CASE job[h].kind = "build" /\ c = Conn(h)
      <4>1. task[c] = "none" /\ c \notin recv
        BY <2>1, <3>1 DEF Requests, Requesting
      <4>2. QED
        BY <2>1, <3>1, <4>1 DEF Unsent, Typed
    <3>2. CASE ~(job[h].kind = "build" /\ c = Conn(h))
      <4>1. task'[c] = task[c]
        BY <2>1, <3>2 DEF Typed
      <4>2. QED
        BY <4>1 DEF NetKind, Unsent
    <3>3. QED
      BY <3>1, <3>2
  <2> HIDE DEF to
  <2>4. QED
    <3>1. Proceeds(h, to, 1)
      BY <2>1 DEF Proceeds
    <3>2. QED
      BY <1>1, <2>2, <2>3, <3>1, MoveCounts
<1>14. ASSUME NEW h \in Handlers, RePostRecv(h)
       PROVE  \A e \in Conns : OneOfEach(e)' /\ Counted(e)'
  <2>1. PICK to \in {"reposted", "dead"} : pc' = [pc EXCEPT ![h] = to]
    BY <1>14 DEF RePostRecv, Goto
  <2>2. QED
    BY <1>1, <1>14, <2>1, RepostedCounts
<1>15. ASSUME NEW h \in Handlers, HandleError(h)
       PROVE  \A e \in Conns : OneOfEach(e)' /\ Counted(e)'
  <2>1. Fits(h, "errorRelease", 1)
    BY <1>15, ErrorFits DEF HandleError, Goto, CountInv
  <2>2. QED
      <3>1. Proceeds(h, "errorRelease", 1) /\ task' = task
        BY <1>15 DEF Proceeds, HandleError, Goto, Counts, Aside
      <3>2. QED
        BY <1>1, <2>1, <3>1, PlainMoveCounts
<1>16. ASSUME NEW h \in Handlers, NEW from, NEW to, Release(h, from, to),
              <<from, to>> \in Releases
       PROVE  \A e \in Conns : OneOfEach(e)' /\ Counted(e)'
  <2>1. Fits(h, to, -1) /\ pc[h] # "wait"
    BY <1>16, ReleaseFits DEF Release, Goto, CountInv, Releases
  <2>2. QED
      <3>1. Proceeds(h, to, -1) /\ task' = task
        BY <1>16, <2>1 DEF Proceeds, Release, Goto, Counts, Aside
      <3>2. QED
        BY <1>1, <2>1, <3>1, PlainMoveCounts
<1>17. ASSUME NEW h \in Handlers, NEW from, NEW to, LastTest(h, from, to),
              <<from, to>> \in LastTests
       PROVE  \A e \in Conns : OneOfEach(e)' /\ Counted(e)'
  <2>1. PICK next \in {"getLink", to} : pc[h] = from /\ pc' = [pc EXCEPT ![h] = next]
    BY <1>17 DEF LastTest, Goto
  <2>2. Fits(h, next, 0) /\ pc[h] # "wait"
    BY <1>17, <2>1, TestFits DEF CountInv, LastTests
  <2>3. QED
      <3>1. Proceeds(h, next, 0) /\ task' = task
        BY <1>17, <2>1, <2>2 DEF Proceeds, LastTest, Aside
      <3>2. QED
        BY <1>1, <2>1, <2>2, <3>1, PlainMoveCounts
<1>18. ASSUME NEW h \in Handlers, GetLink(h)
       PROVE  \A e \in Conns : OneOfEach(e)' /\ Counted(e)'
  <2>1. PICK next \in {"unlink", "delete"} : pc[h] = "getLink" /\ pc' = [pc EXCEPT ![h] = next]
    BY <1>18 DEF GetLink, Goto
  <2>2. Fits(h, next, 0)
    BY <2>1, RemovalFits DEF Removing
  <2>3. QED
      <3>1. Proceeds(h, next, 0) /\ task' = task
        BY <1>18, <2>1 DEF Proceeds, GetLink, Elsewhere
      <3>2. QED
        BY <1>1, <2>1, <2>2, <3>1, PlainMoveCounts
<1>19. ASSUME NEW h \in Handlers, Unlink(h)
       PROVE  \A e \in Conns : OneOfEach(e)' /\ Counted(e)'
  <2>1. Fits(h, "unmap", 0)
    BY <1>19, RemovalFits DEF Unlink, Goto, Removing
  <2>2. QED
      <3>1. Proceeds(h, "unmap", 0) /\ task' = task
        BY <1>19 DEF Proceeds, Unlink, Goto, Elsewhere
      <3>2. QED
        BY <1>1, <2>1, <3>1, PlainMoveCounts
<1>20. ASSUME NEW h \in Handlers, Unmap(h)
       PROVE  \A e \in Conns : OneOfEach(e)' /\ Counted(e)'
  <2>1. Fits(h, "dropLink", 0)
    BY <1>20, RemovalFits DEF Unmap, Goto, Removing
  <2>2. QED
      <3>1. Proceeds(h, "dropLink", 0) /\ task' = task
        BY <1>20 DEF Proceeds, Unmap, Goto, Elsewhere
      <3>2. QED
        BY <1>1, <2>1, <3>1, PlainMoveCounts
<1>21. ASSUME NEW h \in Handlers, DisConnected(h) \/ DeleteSocketContext(h)
       PROVE  \A e \in Conns : OneOfEach(e)' /\ Counted(e)'
  <2> DEFINE to == IF job[h].kind = "build" THEN "release" ELSE "wait"
  <2>1. /\ pc[h] \in {"dropLink", "delete"} /\ pc' = [pc EXCEPT ![h] = to] /\ task' = task
        /\ job' = job /\ recv' = recv /\ send' = send /\ port' = port
        /\ number' = number /\ accepted' = accepted /\ ref' = ref
    BY <1>21 DEF DisConnected, DeleteSocketContext, Removed, Goto, Elsewhere
  <2>2. Fits(h, to, 0)
    BY <2>1, RemovedFits DEF Removing
  <2> HIDE DEF to
  <2>3. QED
      <3>1. Proceeds(h, to, 0) /\ task' = task
        BY <2>1 DEF Proceeds, Goto
      <3>2. QED
        BY <1>1, <2>1, <2>2, <3>1, PlainMoveCounts
<1>22. CASE Fault
  BY <1>1, <1>22, QuietCounts DEF Fault, Unsent
<1>23. QED
  BY <1>2, <1>3, <1>4, <1>5, <1>6, <1>7, <1>8, <1>9, <1>10, <1>11, <1>12, <1>13,
     <1>14, <1>15, <1>16, <1>17, <1>18, <1>19, <1>20, <1>21, <1>22
  DEF Next, OnAsyncMsg, RemoveSocketContext, Execute, CountDown, Releases, LastTests

LEMMA TaskGrows ==
  ASSUME Typed, Arrivals, [Next]_vars, NEW c \in Conns, task[c] # "none"
  PROVE  task'[c] # "none"
<1> USE DEF network, tables, handler
<1>1. CASE UNCHANGED vars
  BY <1>1 DEF vars
<1>2. CASE task' = task
  BY <1>2
<1>3. ASSUME NEW d \in Conns, NEW to \in {"linked", "done", "ack", "dropLink", "queued", "unlinked"},
             task' = [task EXCEPT ![d] = to]
      PROVE  task'[c] # "none"
  BY <1>3 DEF Typed
<1>4. ASSUME NEW d \in Conns, OnAsyncMsg(d)
      PROVE  task'[c] # "none"
  BY <1>3, <1>4 DEF OnAsyncMsg, AddLinkNetObj, LeaveList, SendBuildConnectAck,
                    EndBuild, RunTask
<1>5. ASSUME NEW d \in Conns, PeerLeaves(d) \/ RecvCompletes(d) \/ SendCompletes(d) \/ Accept(d)
      PROVE  task' = task
  BY <1>5 DEF PeerLeaves, RecvCompletes, SendCompletes, Accept
<1>6. ASSUME NEW h \in Handlers, BeginCompletion(h)
      PROVE  task'[c] # "none"
  <2>1. Conn(h) \in Conns
    BY <1>6, HandlerConn DEF BeginCompletion, Goto
  <2>2. QED
    BY <1>2, <1>3, <1>6, <2>1 DEF BeginCompletion
<1>7. ASSUME NEW h \in Handlers, Execute(h), ~BeginCompletion(h)
      PROVE  task' = task
  BY <1>7 DEF Execute, CountDown, Dequeue, RePostRecv, HandleError, Release, LastTest,
              Aside
<1>8. ASSUME NEW h \in Handlers, RemoveSocketContext(h)
      PROVE  task' = task
  BY <1>8 DEF RemoveSocketContext, GetLink, Unlink, Unmap, DisConnected,
              DeleteSocketContext, Elsewhere
<1>9. CASE EnterList \/ DropAccepted \/ Fault
  BY <1>9 DEF EnterList, DropAccepted, Fault
<1>10. QED
  BY <1>1, <1>2, <1>4, <1>5, <1>6, <1>7, <1>8, <1>9 DEF Next

LEMMA KindElse ==
  ASSUME Typed, Arrivals, [Next]_vars, NEW h \in Handlers, RightKind(h),
         pc'[h] = pc[h], job'[h] = job[h]
  PROVE  RightKind(h)'
<1>1. CASE pc[h] = "wait"
  BY <1>1 DEF RightKind
<1>2. CASE pc[h] # "wait"
  BY <1>2, TaskGrows, HandlerConn DEF RightKind, Conn
<1>3. QED
  BY <1>1, <1>2

\* A handler that goes on with the completion it has.
LEMMA KindMoves ==
  ASSUME Typed, Arrivals, [Next]_vars, NEW h \in Handlers, RightKind(h), pc[h] # "wait",
         NEW to, pc' = [pc EXCEPT ![h] = to], job' = job,
         to # "wait" => job[h].kind \in KindsAt(to),
         pc[h] = "taken" /\ job[h].kind = "build" => task'[Conn(h)] # "none"
  PROVE  \A g \in Handlers : RightKind(g) => RightKind(g)'
<1> TAKE g \in Handlers
<1> HAVE RightKind(g)
<1>1. CASE g # h
  <2>1. pc'[g] = pc[g] /\ job'[g] = job[g]
    BY <1>1 DEF Typed
  <2>2. QED
    BY <2>1, KindElse
<1>2. CASE g = h
  <2>1. pc'[h] = to /\ job'[h] = job[h] /\ Conn(h)' = Conn(h) /\ Conn(h) \in Conns
    BY HandlerConn DEF Typed, Conn
  <2>2. job[h].kind = "build" => task'[Conn(h)] # "none"
    BY <2>1, TaskGrows DEF RightKind
  <2>3. QED
    BY <1>2, <2>1, <2>2 DEF RightKind
<1>3. QED
  BY <1>1, <1>2

LEMMA PlacesStep ==
  ASSUME Typed, Arrivals, Requests, PlacesFit, [Next]_vars
  PROVE  PlacesFit'
<1> USE DEF network, tables, handler
<1> SUFFICES \A h \in Handlers : RightKind(h)'
  BY DEF PlacesFit
<1>1. \A h \in Handlers : RightKind(h)
  BY DEF PlacesFit
<1>2. ASSUME pc' = pc, job' = job
      PROVE  \A h \in Handlers : RightKind(h)'
  BY <1>1, <1>2, KindElse
<1>3. ASSUME NEW c \in Conns,
             PeerLeaves(c) \/ RecvCompletes(c) \/ SendCompletes(c) \/ Accept(c) \/ OnAsyncMsg(c)
      PROVE  pc' = pc /\ job' = job
  BY <1>3 DEF PeerLeaves, RecvCompletes, SendCompletes, Accept, OnAsyncMsg,
              AddLinkNetObj, LeaveList, SendBuildConnectAck, EndBuild, RunTask
<1>4. ASSUME NEW h \in Handlers, Dequeue(h)
      PROVE  \A g \in Handlers : RightKind(g)'
  <2>1. PICK done \in port :
          /\ job' = [job EXCEPT ![h] = done]
          /\ pc' = [pc EXCEPT ![h] = IF done.kind \in {"lost", "unsent"} THEN "error" ELSE "taken"]
    BY <1>4 DEF Dequeue
  <2>2. done.kind \in Kinds /\ done.conn \in Conns
    BY JobParts DEF Typed
  <2>3. /\ job'[h] = done
        /\ pc'[h] = IF done.kind \in {"lost", "unsent"} THEN "error" ELSE "taken"
        /\ \A g \in Handlers : g # h => pc'[g] = pc[g] /\ job'[g] = job[g]
    BY <2>1 DEF Typed
  <2>4. RightKind(h)'
    BY <2>2, <2>3 DEF RightKind, KindsAt, Kinds
  <2>5. QED
    BY <1>1, <2>3, <2>4, KindElse
<1>5. ASSUME NEW h \in Handlers, BeginCompletion(h)
      PROVE  \A g \in Handlers : RightKind(g)'
  <2> DEFINE to == CASE job[h].kind = "build" -> "repost"
                     [] job[h].kind = "end"   -> "zero"
                     [] job[h].kind = "sent"  -> "release"
  <2>1. /\ pc[h] = "taken" /\ pc' = [pc EXCEPT ![h] = to] /\ job' = job
        /\ task' = IF job[h].kind = "build" THEN [task EXCEPT ![Conn(h)] = "queued"] ELSE task
    BY <1>5 DEF BeginCompletion, Goto, Aside
  <2>2. job[h].kind \in {"build", "end", "sent"} /\ Conn(h) \in Conns
    BY <1>1, <2>1, HandlerConn DEF RightKind, KindsAt
  <2>3. job[h].kind \in KindsAt(to)
    BY <2>2 DEF KindsAt
  <2>4. job[h].kind = "build" => task'[Conn(h)] # "none"
    BY <2>1, <2>2 DEF Typed
  <2> HIDE DEF to
  <2>5. QED
    BY <1>1, <2>1, <2>3, <2>4, KindMoves
<1>6. ASSUME NEW h \in Handlers, RePostRecv(h)
      PROVE  \A g \in Handlers : RightKind(g)'
  <2>1. PICK to \in {"reposted", "dead"} : pc[h] = "repost" /\ pc' = [pc EXCEPT ![h] = to] /\ job' = job
    BY <1>6 DEF RePostRecv, Goto, Aside
  <2>2. job[h].kind \in KindsAt(to)
    BY <1>1, <2>1 DEF RightKind, KindsAt
  <2>3. QED
    BY <1>1, <2>1, <2>2, KindMoves
<1>7. ASSUME NEW h \in Handlers, HandleError(h)
      PROVE  \A g \in Handlers : RightKind(g)'
  <2>1. pc[h] = "error" /\ pc' = [pc EXCEPT ![h] = "errorRelease"] /\ job' = job
    BY <1>7 DEF HandleError, Goto, Aside
  <2>2. job[h].kind \in KindsAt("errorRelease")
    BY <1>1, <2>1 DEF RightKind, KindsAt
  <2>3. QED
    BY <1>1, <2>1, <2>2, KindMoves
<1>8. ASSUME NEW h \in Handlers, NEW from, NEW to, Release(h, from, to), <<from, to>> \in Releases
      PROVE  \A g \in Handlers : RightKind(g)'
  <2>1. pc[h] = from /\ pc' = [pc EXCEPT ![h] = to] /\ job' = job
    BY <1>8 DEF Release, Goto, Aside
  <2>2. pc[h] # "wait" /\ pc[h] # "taken" /\ (to # "wait" => job[h].kind \in KindsAt(to))
    BY <1>1, <1>8, <2>1 DEF RightKind, KindsAt, Releases
  <2>3. QED
    BY <1>1, <2>1, <2>2, KindMoves
<1>9. ASSUME NEW h \in Handlers, NEW from, NEW to, LastTest(h, from, to), <<from, to>> \in LastTests
      PROVE  \A g \in Handlers : RightKind(g)'
  <2>1. PICK next \in {"getLink", to} : pc[h] = from /\ pc' = [pc EXCEPT ![h] = next] /\ job' = job
    BY <1>9 DEF LastTest, Goto, Aside
  <2>2. pc[h] # "wait" /\ pc[h] # "taken" /\ (next # "wait" => job[h].kind \in KindsAt(next))
    BY <1>1, <1>9, <2>1 DEF RightKind, KindsAt, LastTests
  <2>3. QED
    BY <1>1, <2>1, <2>2, KindMoves
<1>10. ASSUME NEW h \in Handlers, GetLink(h) \/ Unlink(h) \/ Unmap(h)
      PROVE  \A g \in Handlers : RightKind(g)'
  <2>1. PICK to \in {"unlink", "delete", "unmap", "dropLink"} :
          pc[h] \in {"getLink", "unlink", "unmap"} /\ pc' = [pc EXCEPT ![h] = to] /\ job' = job
    BY <1>10 DEF GetLink, Unlink, Unmap, Goto, Elsewhere
  <2>2. job[h].kind \in KindsAt(to)
    BY <1>1, <2>1 DEF RightKind, KindsAt
  <2>3. QED
    BY <1>1, <2>1, <2>2, KindMoves
<1>11. ASSUME NEW h \in Handlers, DisConnected(h) \/ DeleteSocketContext(h)
       PROVE  \A g \in Handlers : RightKind(g)'
  <2>1. PICK to \in {"release", "wait"} :
          /\ pc[h] \in {"dropLink", "delete"} /\ pc' = [pc EXCEPT ![h] = to] /\ job' = job
          /\ to = "release" => job[h].kind = "build"
    BY <1>11 DEF DisConnected, DeleteSocketContext, Removed, Goto, Elsewhere
  <2>2. to # "wait" => job[h].kind \in KindsAt(to)
    BY <2>1 DEF KindsAt
  <2>3. QED
    BY <1>1, <2>1, <2>2, KindMoves
<1>12. CASE EnterList \/ DropAccepted \/ Fault \/ UNCHANGED vars
  BY <1>2, <1>12 DEF EnterList, DropAccepted, Fault, vars
<1>13. QED
  BY <1>2, <1>3, <1>4, <1>5, <1>6, <1>7, <1>8, <1>9, <1>10, <1>11, <1>12
  DEF Next, RemoveSocketContext, Execute, CountDown, Releases, LastTests

LEMMA DropFreed ==
  ASSUME Typed, Entries, NEW d \in Conns, NEW holder, DropLink(d, holder),
         task' = task \/ task[d] \notin {"none", "queued"},
         \A c \in Conns : task'[c] \in {"none", "queued"} <=> task[c] \in {"none", "queued"},
         NEW c \in Conns
  PROVE  /\ freed'[c] \in Nat /\ freed'[c] + LinkMay(c)' <= freed[c] + LinkMay(c)
<1>1. freed[c] \in Nat
  BY DEF Typed
<1>2. holders'[c] = IF c = d THEN holders[c] \ {holder} ELSE holders[c]
  BY DEF DropLink, Typed
<1>3. freed'[c] = IF c = d /\ holders[d] = {holder} THEN freed[c] + 1 ELSE freed[c]
  BY DEF DropLink, Typed
<1>4. CASE c = d /\ holders[d] = {holder}
  <2>1. task[c] \notin {"none", "queued"} /\ holders'[c] = {}
    BY <1>2, <1>4 DEF Entries
  <2>2. LinkMay(c) = 1 /\ LinkMay(c)' = 0
    BY <1>4, <2>1 DEF LinkMay
  <2>3. QED
    BY <1>1, <1>3, <1>4, <2>2
<1>5. CASE ~(c = d /\ holders[d] = {holder})
  <2>1. LinkMay(c)' \in {0, 1} /\ LinkMay(c) \in {0, 1} /\ (LinkMay(c)' = 1 => LinkMay(c) = 1)
    BY <1>2 DEF LinkMay
  <2>2. QED
    BY <1>1, <1>3, <1>5, <2>1
<1>6. QED
  BY <1>4, <1>5

\* The owners of a context only become fewer.
LEMMA FreedKept ==
  ASSUME Typed, NEW c \in Conns, FreedTwice(c), freed'[c] \in Nat,
         freed'[c] + LinkMay(c)' <= freed[c] + LinkMay(c),
         ListMay(c)' = 1 => ListMay(c) = 1
  PROVE  FreedTwice(c)'
<1>1. /\ freed[c] \in Nat /\ ListMay(c) \in {0, 1} /\ ListMay(c)' \in {0, 1}
      /\ LinkMay(c) \in {0, 1} /\ LinkMay(c)' \in {0, 1}
  BY DEF Typed, ListMay, LinkMay
<1>2. QED
  BY <1>1 DEF FreedTwice

LEMMA FreedTwiceStep ==
  ASSUME Typed, Arrivals, Requests, Locals, Entries, CountInv, [Next]_vars
  PROVE  \A c \in Conns : FreedTwice(c)'
<1> USE DEF network, tables, handler
<1> TAKE c \in Conns
<1>1. FreedTwice(c) /\ freed[c] \in Nat /\ freed'[c] \in Nat
  BY TypedStep DEF CountInv, Typed
<1>2. ASSUME freed' = freed, holders' = holders, list' = list, accepted' = accepted,
             \A e \in Conns : task'[e] \in {"none", "queued"} => task[e] \in {"none", "queued"}
      PROVE  FreedTwice(c)'
  <2>1. ListMay(c)' = ListMay(c)
    BY <1>2 DEF ListMay
  <2>2. LinkMay(c) \in {0, 1} /\ LinkMay(c)' \in {0, 1} /\ (LinkMay(c)' = 1 => LinkMay(c) = 1)
    BY <1>2 DEF LinkMay
  <2>3. QED
    BY <1>1, <1>2, <2>1, <2>2, FreedKept
<1>3. CASE UNCHANGED vars \/ EnterList \/ DropAccepted \/ Fault
  <2>1. CASE UNCHANGED vars \/ Fault
    BY <1>2, <2>1 DEF vars, Fault
  <2>2. CASE EnterList \/ DropAccepted
    <3>1. /\ freed' = freed /\ holders' = holders /\ task' = task /\ accepted' = None
          /\ accepted \in Conns
          /\ \A n \in Fds : list'[n] = list[n] \/ list'[n] = accepted
      BY <2>2, NamesAssumption DEF EnterList, DropAccepted, Typed
    <3>2. ListMay(c)' = 1 => ListMay(c) = 1
      BY <3>1, NamesAssumption DEF ListMay
    <3>3. LinkMay(c)' = LinkMay(c) /\ LinkMay(c) \in {0, 1}
      BY <3>1 DEF LinkMay
    <3>4. QED
      BY <1>1, <3>1, <3>2, <3>3, FreedKept
  <2>3. QED
    BY <1>3, <2>1, <2>2
<1>4. ASSUME NEW d \in Conns, PeerLeaves(d) \/ RecvCompletes(d) \/ SendCompletes(d)
      PROVE  FreedTwice(c)'
  BY <1>2, <1>4 DEF PeerLeaves, RecvCompletes, SendCompletes
<1>5. ASSUME NEW d \in Conns, Accept(d)
      PROVE  FreedTwice(c)'
  <2>1. /\ freed' = freed /\ holders' = holders /\ list' = list /\ task' = task
        /\ accepted' \in {accepted, d} /\ number[d] = None /\ accepted = None
    BY <1>5 DEF Accept, Arrivals
  <2>2. CASE c # d
    <3>1. ListMay(c)' = ListMay(c) /\ LinkMay(c)' = LinkMay(c) /\ LinkMay(c) \in {0, 1}
      BY <2>1, <2>2, NamesAssumption DEF ListMay, LinkMay
    <3>2. QED
      BY <1>1, <2>1, <3>1, FreedKept
  <2>3. CASE c = d
    <3>1. freed[c] = 0
      BY <2>1, <2>3 DEF Arrivals, Unborn
    <3>2. ListMay(c)' \in {0, 1} /\ LinkMay(c)' \in {0, 1}
      BY DEF ListMay, LinkMay
    <3>3. QED
      BY <2>1, <3>1, <3>2 DEF FreedTwice
  <2>4. QED
    BY <2>2, <2>3
<1>6. ASSUME NEW h \in Handlers, Execute(h)
      PROVE  FreedTwice(c)'
  <2>1. freed' = freed /\ holders' = holders /\ list' = list /\ accepted' = accepted
    BY <1>6 DEF Execute, CountDown, Dequeue, BeginCompletion, RePostRecv, HandleError,
                Release, LastTest, Aside
  <2>2. CASE task' = task
    BY <1>2, <2>1, <2>2
  <2>3. CASE BeginCompletion(h) /\ task' = [task EXCEPT ![Conn(h)] = "queued"]
                 /\ job[h].kind = "build"
    <3>1. pc[h] = "taken" /\ Conn(h) \in Conns
      BY <2>3, HandlerConn DEF BeginCompletion, Goto
    <3>2. task[Conn(h)] = "none"
      BY <2>3, <3>1 DEF Requests, Requesting
    <3>3. QED
      BY <1>2, <2>1, <2>3, <3>1, <3>2 DEF Typed
  <2>4. QED
    BY <1>6, <2>2, <2>3
    DEF Execute, CountDown, Dequeue, BeginCompletion, RePostRecv, HandleError, Release,
        LastTest, Aside
<1>7. ASSUME NEW d \in Conns, AddLinkNetObj(d)
      PROVE  FreedTwice(c)'
  <2>1. /\ task[d] = "queued" /\ list' = list /\ accepted' = accepted /\ holders[d] = {}
    BY <1>7 DEF AddLinkNetObj, RunTask, Entries
  <2>2. CASE task' = [task EXCEPT ![d] = "linked"] /\ holders' = [holders EXCEPT ![d] = Owners]
               /\ freed' = freed
    <3>1. LinkMay(c)' = LinkMay(c) /\ LinkMay(c) \in {0, 1}
      BY <2>1, <2>2 DEF LinkMay, Owners, Typed
    <3>2. ListMay(c)' = ListMay(c)
      BY <2>1 DEF ListMay
    <3>3. QED
      BY <1>1, <2>2, <3>1, <3>2, FreedKept
  <2>3. CASE task' = [task EXCEPT ![d] = "done"] /\ freed' = [freed EXCEPT ![d] = @ + 1]
               /\ holders' = holders
    <3>1. ListMay(c)' = ListMay(c)
      BY <2>1 DEF ListMay
    <3>2. freed'[c] + LinkMay(c)' <= freed[c] + LinkMay(c)
      <4>1. CASE c = d
        <5>1. LinkMay(c) = 1 /\ LinkMay(c)' = 0 /\ freed'[c] = freed[c] + 1
          BY <2>1, <2>3, <4>1 DEF LinkMay, Typed
        <5>2. QED
          BY <1>1, <5>1
      <4>2. CASE c # d
        <5>1. LinkMay(c)' = LinkMay(c) /\ LinkMay(c) \in {0, 1} /\ freed'[c] = freed[c]
          BY <2>3, <4>2 DEF LinkMay, Typed
        <5>2. QED
          BY <1>1, <5>1
      <4>3. QED
        BY <4>1, <4>2
    <3>3. QED
      BY <1>1, <3>1, <3>2, FreedKept
  <2>4. CASE freed' = freed /\ holders' = holders /\ task' = [task EXCEPT ![d] = "unlinked"]
    BY <1>2, <2>1, <2>4 DEF Typed
  <2>5. QED
    BY <1>7, <2>2, <2>3, <2>4 DEF AddLinkNetObj, RunTask
<1>8. ASSUME NEW d \in Conns, LeaveList(d)
      PROVE  FreedTwice(c)'
  <2>1. /\ task[d] = "linked" /\ task' = [task EXCEPT ![d] = "ack"] /\ accepted' = accepted
        /\ freed' = freed /\ holders' = holders
        /\ \A n \in Fds : list'[n] \in {list[n], None}
    BY <1>8 DEF LeaveList, RunTask, Typed
  <2>2. ListMay(c)' = 1 => ListMay(c) = 1
    BY <2>1, NamesAssumption DEF ListMay
  <2>3. LinkMay(c)' = LinkMay(c) /\ LinkMay(c) \in {0, 1}
    BY <2>1 DEF LinkMay, Typed
  <2>4. QED
    BY <1>1, <2>1, <2>2, <2>3, FreedKept
<1>9. ASSUME NEW d \in Conns, SendBuildConnectAck(d)
      PROVE  FreedTwice(c)'
  BY <1>2, <1>9 DEF SendBuildConnectAck, RunTask, Typed
<1>10. ASSUME NEW d \in Conns, NEW holder, DropLink(d, holder), list' = list,
             accepted' = accepted,
             \A e \in Conns : task'[e] \in {"none", "queued"} <=> task[e] \in {"none", "queued"},
             task' = task \/ task[d] \notin {"none", "queued"}
      PROVE  FreedTwice(c)'
  <2>1. freed'[c] \in Nat /\ freed'[c] + LinkMay(c)' <= freed[c] + LinkMay(c)
    BY <1>10, DropFreed
  <2>2. ListMay(c)' = ListMay(c)
    BY <1>10 DEF ListMay
  <2>3. QED
    BY <1>1, <2>1, <2>2, FreedKept
<1>11. ASSUME NEW d \in Conns, EndBuild(d)
       PROVE  FreedTwice(c)'
  <2>1. /\ DropLink(d, "task") /\ list' = list /\ accepted' = accepted
        /\ task[d] = "dropLink" /\ task' = [task EXCEPT ![d] = "done"]
    BY <1>11 DEF EndBuild, RunTask
  <2>2. \A e \in Conns : task'[e] \in {"none", "queued"} <=> task[e] \in {"none", "queued"}
    BY <2>1 DEF Typed
  <2>3. QED
    BY <1>10, <2>1, <2>2
<1>12. ASSUME NEW h \in Handlers, GetLink(h)
       PROVE  FreedTwice(c)'
  <2>1. task' = task /\ list' = list /\ accepted' = accepted /\ freed' = freed
    BY <1>12 DEF GetLink, Elsewhere
  <2>2. holders'[c] = holders[c] \/ holders[c] # {}
    <3>1. PICK n \in Fds \cup {None} :
            \/ holders' = holders
            \/ /\ n \in Fds /\ linkMap[n] # None
               /\ holders' = [holders EXCEPT ![linkMap[n]] = @ \cup {h}]
      <4>1. Conn(h) \in Conns
        BY <1>12, HandlerConn DEF GetLink, Goto
      <4>2. QED
        BY <1>12, <4>1, SocketTyped DEF GetLink
    <3>2. QED
      BY <3>1 DEF Entries, Typed
  <2>3. ListMay(c)' = ListMay(c)
    BY <2>1 DEF ListMay
  <2>4. LinkMay(c)' \in {0, 1} /\ LinkMay(c) \in {0, 1} /\ (LinkMay(c)' = 1 => LinkMay(c) = 1)
    BY <2>1, <2>2 DEF LinkMay
  <2>5. QED
    BY <1>1, <2>1, <2>3, <2>4, FreedKept
<1>13. ASSUME NEW h \in Handlers, Unlink(h) \/ DisConnected(h)
       PROVE  FreedTwice(c)'
  <2>1. Conn(h) \in Conns /\ (pc[h] = "dropLink" => link[h] \in Conns)
    <3>1. pc[h] # "wait"
      BY <1>13 DEF Unlink, DisConnected, Removed, Goto
    <3>2. QED
      BY <3>1, HandlerConn DEF Locals, Linked, Typed
  <2>2. task' = task /\ list' = list /\ accepted' = accepted
    BY <1>13 DEF Unlink, DisConnected, Elsewhere
  <2>3. QED
    BY <1>10, <1>13, <2>1, <2>2 DEF Unlink, DisConnected, Removed, Goto
<1>14. ASSUME NEW h \in Handlers, Unmap(h)
       PROVE  FreedTwice(c)'
  <2>1. task' = task /\ list' = list /\ accepted' = accepted
    BY <1>14 DEF Unmap, Elsewhere
  <2>2. CASE freed' = freed /\ holders' = holders
    BY <1>2, <2>1, <2>2
  <2>3. CASE key[h] # None /\ linkMap[key[h]] # None /\ DropLink(linkMap[key[h]], "map")
    <3>1. linkMap[key[h]] \in Conns
      BY <2>3 DEF Typed
    <3>2. QED
      BY <1>10, <2>1, <2>3, <3>1
  <2>4. QED
    BY <1>14, <2>2, <2>3 DEF Unmap
<1>15. ASSUME NEW h \in Handlers, DeleteSocketContext(h)
       PROVE  FreedTwice(c)'
  <2>1. task' = task /\ accepted' = accepted
    BY <1>15 DEF DeleteSocketContext, Elsewhere
  <2>2. CASE freed' = freed /\ holders' = holders /\ list' = list
    BY <1>2, <2>1, <2>2
  <2>3. CASE key[h] # None /\ list[key[h]] # None
    <3> DEFINE n == key[h]
    <3>1. n \in Fds /\ list[n] \in Conns
      BY <2>3 DEF Typed
    <3> PICK d \in Conns : d = list[n]
      BY <3>1
    <3>2. /\ list' = [list EXCEPT ![n] = None]
          /\ freed' = [freed EXCEPT ![d] = IF holders[d] = {"context"} THEN @ + 2 ELSE @ + 1]
          /\ holders' = [holders EXCEPT ![d] = @ \ {"context"}]
      BY <1>15, <2>3 DEF DeleteSocketContext
    <3>3. CASE c # d
      <4>1. freed'[c] = freed[c] /\ LinkMay(c)' = LinkMay(c) /\ LinkMay(c) \in {0, 1}
        BY <2>1, <3>2, <3>3 DEF LinkMay, Typed
      <4>2. ListMay(c)' = 1 => ListMay(c) = 1
        <5>1. \A m \in Fds : list'[m] \in {list[m], None}
          BY <3>1, <3>2 DEF Typed
        <5>2. QED
          BY <2>1, <5>1, NamesAssumption DEF ListMay
      <4>3. QED
        BY <1>1, <4>1, <4>2, FreedKept
    <3>4. CASE c = d
      <4>1. ListMay(c) = 1
        BY <3>1, <3>4 DEF ListMay
      <4>2. ListMay(c)' = 0
        <5>1. ASSUME NEW m \in Fds, list'[m] = c
              PROVE  FALSE
          <6>1. m # n /\ list[m] = c
            BY <3>1, <3>2, <5>1, NamesAssumption DEF Typed
          <6>2. number[c] = m /\ number[c] = n
            BY <3>1, <3>4, <6>1, NamesAssumption DEF Entries
          <6>3. QED
            BY <6>1, <6>2
        <5>2. accepted # c
          BY <3>1, <3>4, NamesAssumption DEF EntersOnce, CountInv
        <5>3. QED
          BY <2>1, <5>1, <5>2 DEF ListMay
      <4>3. holders'[c] = holders[c] \ {"context"}
        BY <3>2, <3>4 DEF Typed
      <4>4. CASE holders[d] = {"context"}
        <5>1. task[c] \notin {"none", "queued"} /\ holders'[c] = {}
          BY <3>4, <4>3, <4>4 DEF Entries
        <5>2. LinkMay(c) = 1 /\ LinkMay(c)' = 0 /\ freed'[c] = freed[c] + 2
          BY <2>1, <3>2, <3>4, <4>4, <5>1 DEF LinkMay, Typed
        <5>3. QED
          BY <1>1, <4>1, <4>2, <5>2 DEF FreedTwice
      <4>5. CASE holders[d] # {"context"}
        <5>1. freed'[c] = freed[c] + 1
          BY <3>2, <3>4, <4>5 DEF Typed
        <5>2. LinkMay(c) \in {0, 1} /\ LinkMay(c)' \in {0, 1} /\ (LinkMay(c)' = 1 => LinkMay(c) = 1)
          BY <2>1, <4>3 DEF LinkMay
        <5>3. QED
          BY <1>1, <4>1, <4>2, <5>1, <5>2 DEF FreedTwice
      <4>6. QED
        BY <4>4, <4>5
    <3>5. QED
      BY <3>3, <3>4
  <2>4. QED
    BY <1>15, <2>2, <2>3 DEF DeleteSocketContext
<1>16. QED
  BY <1>3, <1>4, <1>5, <1>6, <1>7, <1>8, <1>9, <1>11, <1>12, <1>13, <1>14, <1>15
  DEF Next, OnAsyncMsg, RemoveSocketContext

LEMMA EntersStep ==
  ASSUME Typed, Arrivals, Entries, EntersOnce, [Next]_vars
  PROVE  EntersOnce'
<1> USE DEF network, tables, handler
<1>1. ASSUME accepted' = accepted, \A n \in Fds : list'[n] \in {list[n], None}
      PROVE  EntersOnce'
  BY <1>1 DEF EntersOnce
<1>2. CASE UNCHANGED vars \/ Fault
  BY <1>1, <1>2 DEF vars, Fault
<1>3. ASSUME NEW c \in Conns, PeerLeaves(c) \/ RecvCompletes(c) \/ SendCompletes(c)
      PROVE  EntersOnce'
  BY <1>1, <1>3 DEF PeerLeaves, RecvCompletes, SendCompletes
<1>4. ASSUME NEW c \in Conns, Accept(c)
      PROVE  EntersOnce'
  <2>1. list' = list /\ accepted' \in {accepted, c} /\ number[c] = None
    BY <1>4 DEF Accept, Arrivals
  <2>2. \A n \in Fds : list[n] # c
    BY <2>1, NamesAssumption DEF Entries
  <2>3. QED
    BY <2>1, <2>2 DEF EntersOnce
<1>5. ASSUME NEW c \in Conns, OnAsyncMsg(c)
      PROVE  EntersOnce'
  BY <1>1, <1>5 DEF OnAsyncMsg, AddLinkNetObj, LeaveList, SendBuildConnectAck,
                    EndBuild, RunTask, Typed
<1>6. CASE EnterList \/ DropAccepted
  BY <1>6 DEF EnterList, DropAccepted, EntersOnce
<1>7. ASSUME NEW h \in Handlers, Execute(h)
      PROVE  EntersOnce'
  BY <1>1, <1>7 DEF Execute, CountDown, Dequeue, BeginCompletion, RePostRecv, HandleError,
                    Release, LastTest, Aside
<1>8. ASSUME NEW h \in Handlers, RemoveSocketContext(h)
      PROVE  EntersOnce'
  BY <1>1, <1>8
  DEF RemoveSocketContext, GetLink, Unlink, Unmap, DisConnected,
      DeleteSocketContext, Elsewhere, Typed
<1>9. QED
  BY <1>2, <1>3, <1>4, <1>5, <1>6, <1>7, <1>8 DEF Next

LEMMA CountInit ==
  ASSUME Init
  PROVE  CountInv
<1> USE DEF Init
<1>1. PlacesFit /\ EntersOnce
  BY DEF PlacesFit, RightKind, EntersOnce
<1> SUFFICES ASSUME NEW c \in Conns
             PROVE  OneOfEach(c) /\ Counted(c) /\ FreedTwice(c)
  BY <1>1 DEF CountInv
<1>2. Items(c) = {} /\ \A k : OfClass(c, k) = {NoItem}
  BY DEF Items, Busy, InPort, Posted, OfClass
<1>3. ref[c] = 0 /\ freed[c] = 0 /\ accepted # c /\ task[c] = "none" /\ holders[c] = {}
  BY NamesAssumption
<1>4. ToSend(c) = 1 /\ ToList(c) = 0
  BY <1>3 DEF ToSend, ToList, Unsent
<1>5. ListMay(c) = 0 /\ LinkMay(c) = 1
  BY <1>3, NamesAssumption DEF ListMay, LinkMay
<1>6. OneOfEach(c)
  BY <1>2 DEF OneOfEach
<1>7. Counted(c)
  BY <1>2, <1>3, <1>4, NoWeight DEF Counted
<1>8. QED
  BY <1>3, <1>5, <1>6, <1>7 DEF FreedTwice

\* Every step of every connection and handler keeps the references and the
\* deletions counted.
THEOREM CountStays == Spec => []CountInv
<1>1. Init => CountInv
  BY CountInit
<1>2. TableInv /\ CountInv /\ [Next]_vars => CountInv'
  BY CountStep, PlacesStep, EntersStep, FreedTwiceStep DEF TableInv, CountInv
<1>3. QED
  BY <1>1, <1>2, TableStays, PTL DEF Spec

\* TypeOK of ServerTable (m_Ref, TcpThreadServer.cpp:137 to SocketHandler.cpp:176): whatever
\* the handlers race for, m_Ref of a context stays between -2 and 5, and a context is
\* deleted twice at most.
THEOREM TypeCorrect == Spec => []TypeOK
<1>1. TableInv /\ CountInv /\ crashed \in BOOLEAN => TypeOK
  <2> SUFFICES ASSUME Typed, CountInv, crashed \in BOOLEAN
               PROVE  TypeOK
    BY DEF TableInv
  <2>1. ASSUME NEW c \in Conns
        PROVE  ref[c] \in -2 .. 5
    <3>1. \A k : NoItem \in OfClass(c, k)
      BY DEF OfClass
    <3>2. /\ Owes(NoItem) + Owes(NoItem) + Owes(NoItem) <= ref[c] + 2
          /\ ref[c] + Adds(NoItem) + Adds(NoItem) + Adds(NoItem) + ToSend(c) + ToList(c) <= 5
      BY <3>1 DEF CountInv, Counted
    <3>3. ref[c] \in Int /\ ToSend(c) \in {0, 1} /\ ToList(c) \in {0, 1}
      BY DEF Typed, ToSend, ToList
    <3>4. QED
      BY <3>2, <3>3, NoWeight
  <2>2. ASSUME NEW c \in Conns
        PROVE  freed[c] \in 0 .. 2
    <3>1. freed[c] \in Nat /\ ListMay(c) \in {0, 1} /\ LinkMay(c) \in {0, 1}
      BY DEF Typed, ListMay, LinkMay
    <3>2. freed[c] + ListMay(c) + LinkMay(c) <= 2
      BY DEF CountInv, FreedTwice
    <3>3. QED
      BY <3>1, <3>2
  <2>3. ref \in [Conns -> -2 .. 5] /\ freed \in [Conns -> 0 .. 2]
    BY <2>1, <2>2 DEF Typed
  <2>4. QED
    BY <2>3 DEF Typed, TypeOK
<1>2. Init => crashed \in BOOLEAN
  BY DEF Init
<1>3. crashed \in BOOLEAN /\ [Next]_vars => (crashed \in BOOLEAN)'
  BY DEF Next, vars, PeerLeaves, RecvCompletes, SendCompletes, Accept,
         OnAsyncMsg, AddLinkNetObj, LeaveList, SendBuildConnectAck, EndBuild,
         RunTask, EnterList, DropAccepted, Execute, CountDown, Dequeue, BeginCompletion, RePostRecv,
         HandleError, Release, LastTest, Aside, RemoveSocketContext, GetLink,
         Unlink, Unmap, DisConnected, DeleteSocketContext, Elsewhere, Fault
<1>4. QED
  BY <1>1, <1>2, <1>3, TableStays, CountStays, PTL DEF Spec
================================================================================

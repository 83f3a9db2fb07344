------------------------------ MODULE ServerTable ------------------------------
(***************************************************************************)
(* The two maps of TcpThreadServer, m_socketList and m_linkNetMap, over    *)
(* several connections.  Both are keyed by the socket number, which the    *)
(* kernel gives to a new connection as soon as an old one is closed, while *)
(* handlers and tasks of the old one may still be at work                  *)
(* (TcpThreadServer.cpp:96-332, SocketHandler.cpp:50-221).                 *)
(*                                                                         *)
(* ServerConn has the steps of one connection in full.  Here a connection  *)
(* sends its build request and nothing else, and what only its own I/O     *)
(* buffers see is left out.                                                *)
(***************************************************************************)
EXTENDS Integers, FiniteSets

CONSTANTS Conns,     \* the connections, and their PER_SOCKET_CONTEXTs
          Fds,       \* bound: the socket numbers of the kernel
          Handlers,  \* the SocketHandlers
          None       \* no connection, no socket

ASSUME NamesAssumption ==
  /\ None \notin Conns \cup Fds
  /\ Handlers \cap {"map", "context", "task"} = {}

VARIABLES
  peer,      \* the other end: not yet there, open, or gone
  recv,      \* the connections with a receive under way
  send,      \* the connections whose build answer is under way
  port,      \* the completions in the port
  accepted,  \* the connection HandleNewConn is to list, or None
  number,    \* history: the socket number a connection was given, or None
  ref,       \* m_Ref of each context
  freed,     \* how many times each context was deleted
  list,      \* m_socketList
  linkMap,   \* m_linkNetMap: the connection whose LinkNetObj it holds
  holders,   \* who has a shared_ptr to the LinkNetObj of each connection
  task,      \* OnAsyncMsg with the build request of each connection
  pc, job, key, link,  \* each handler: where, its completion, the key it has
                       \* read, the LinkNetObj it has got
  begun,     \* history: the connections whose removal a handler has begun
  spoiled,   \* history: the connections with one of the races below
  crashed    \* freed memory was followed, and the process ended

network == <<peer, recv, send, port>>
tables  == <<freed, list, linkMap, holders>>
handler == <<pc, job, key, link>>
vars    == <<network, accepted, number, ref, tables, task, handler, begun, spoiled, crashed>>

Kinds == {"build", "end", "lost", "sent", "unsent"}
NoJob == [conn |-> None, kind |-> "end"]
Jobs  == [conn : Conns, kind : Kinds]
Owners == {"map", "context", "task"}

Counting == {"dead", "deadTest", "reposted", "zero", "zeroTest", "release",
             "errorRelease", "errorTest"}
Removing == {"getLink", "unlink", "unmap", "dropLink", "delete"}
Places   == {"wait", "taken", "repost", "error"} \cup Counting \cup Removing

TypeOK ==
  /\ peer \in [Conns -> {"none", "open", "left"}]
  /\ recv \subseteq Conns /\ send \subseteq Conns
  /\ port \subseteq Jobs
  /\ accepted \in Conns \cup {None}
  /\ number \in [Conns -> Fds \cup {None}]
  /\ ref \in [Conns -> -2 .. 5]
  /\ freed \in [Conns -> 0 .. 2]
  /\ list \in [Fds -> Conns \cup {None}]
  /\ linkMap \in [Fds -> Conns \cup {None}]
  /\ holders \in [Conns -> SUBSET (Owners \cup Handlers)]
  /\ task \in [Conns -> {"none", "queued", "linked", "ack", "dropLink", "done", "unlinked"}]
  /\ pc \in [Handlers -> Places]
  /\ job \in [Handlers -> Jobs \cup {NoJob}]
  /\ key \in [Handlers -> Fds \cup {None}]
  /\ link \in [Handlers -> Conns \cup {None}]
  /\ begun \subseteq Conns /\ spoiled \subseteq Conns
  /\ crashed \in BOOLEAN

Init ==
  /\ peer = [c \in Conns |-> "none"]
  /\ recv = {} /\ send = {} /\ port = {} /\ accepted = None
  /\ number = [c \in Conns |-> None]
  /\ ref = [c \in Conns |-> 0] /\ freed = [c \in Conns |-> 0]
  /\ list = [n \in Fds |-> None] /\ linkMap = [n \in Fds |-> None]
  /\ holders = [c \in Conns |-> {}]
  /\ task = [c \in Conns |-> "none"]
  /\ pc = [h \in Handlers |-> "wait"] /\ job = [h \in Handlers |-> NoJob]
  /\ key = [h \in Handlers |-> None] /\ link = [h \in Handlers |-> None]
  /\ begun = {} /\ spoiled = {} /\ crashed = FALSE

\* m_Socket: the destructor of the context clears it when it closes the socket.
Socket(c) == IF freed[c] > 0 THEN None ELSE number[c]

-------------------------------------------------------------------------------
(* The network.                                                            *)

PeerLeaves(c) ==
  /\ peer[c] = "open"
  /\ peer' = [peer EXCEPT ![c] = "left"]
  /\ UNCHANGED <<recv, send, port, accepted, number, ref, tables, task, handler,
                 begun, spoiled, crashed>>

Broken(c) == peer[c] = "left" \/ freed[c] > 0

Completed(c, kind) == port' = port \cup {[conn |-> c, kind |-> kind]}

RecvCompletes(c) ==
  /\ c \in recv
  /\ recv' = recv \ {c}
  /\ \/ task[c] = "none" /\ freed[c] = 0 /\ Completed(c, "build")
     \/ peer[c] = "left" /\ freed[c] = 0 /\ Completed(c, "end")
     \/ Broken(c) /\ Completed(c, "lost")
  /\ UNCHANGED <<peer, send, accepted, number, ref, tables, task, handler,
                 begun, spoiled, crashed>>

SendCompletes(c) ==
  /\ c \in send
  /\ send' = send \ {c}
  /\ Completed(c, IF Broken(c) THEN "unsent" ELSE "sent")
  /\ UNCHANGED <<peer, recv, accepted, number, ref, tables, task, handler,
                 begun, spoiled, crashed>>

-------------------------------------------------------------------------------
(* HandleNewConn.                                                          *)

\* A socket with the number of none that is open; its context is associated
\* with the port, and its first receive is posted, or is lost to WSAEWOULDBLOCK
\* (line 166).  When it fails, or ends at once with 0 bytes, the context, and with
\* it the socket, is kept for ever (line 131), though in the second case its
\* packet is in the port.
Accept(c) ==
  /\ accepted = None /\ peer[c] = "none"
  /\ \E n \in Fds \ {Socket(d) : d \in Conns} :
       number' = [number EXCEPT ![c] = n]
  /\ \/ /\ peer' = [peer EXCEPT ![c] = "open"]
        /\ recv' \in {recv, recv \cup {c}}
        /\ accepted' = c
        /\ UNCHANGED port
     \/ /\ \E p \in {"open", "left"} : peer' = [peer EXCEPT ![c] = p]
        /\ UNCHANGED <<recv, port, accepted>>
     \/ /\ peer' = [peer EXCEPT ![c] = "left"]
        /\ Completed(c, "end")
        /\ UNCHANGED <<recv, accepted>>
  /\ UNCHANGED <<send, ref, tables, task, handler, begun, spoiled, crashed>>

\* Its build request came at once, and a handler has emptied the buffer before
\* PostRecv looked at it: HandleNewConn takes the connection for ended (line 176).
DropAccepted ==
  /\ accepted # None /\ task[accepted] # "none"
  /\ \A h \in Handlers : pc[h] = "repost" => job[h].conn # accepted
  /\ accepted' = None
  /\ UNCHANGED <<network, number, ref, tables, task, handler, begun, spoiled, crashed>>

\* The build request has been answered before the context is listed.
ListedLate(c) == task[c] \in {"ack", "dropLink", "done"}

\* insert does nothing for a key that is there; the reference is counted.
EnterList ==
  /\ accepted # None
  /\ LET n == Socket(accepted) IN
       list' = IF n # None /\ list[n] = None THEN [list EXCEPT ![n] = accepted]
               ELSE list
  /\ ref'      = [ref EXCEPT ![accepted] = @ + 1]
  /\ spoiled'  = IF ListedLate(accepted) THEN spoiled \cup {accepted} ELSE spoiled
  /\ accepted' = None
  /\ UNCHANGED <<network, number, freed, linkMap, holders, task, handler, begun, crashed>>

-------------------------------------------------------------------------------
(* A handler, up to the look at the counter.                               *)

Goto(h, from, to) == pc[h] = from /\ pc' = [pc EXCEPT ![h] = to]

Conn(h) == job[h].conn

Counts(h, n) == ref' = [ref EXCEPT ![Conn(h)] = @ + n]

\* What no step of a handler before the removal changes.
Aside == UNCHANGED <<peer, send, accepted, number, tables, key, link, begun, spoiled,
                   crashed>>

Dequeue(h) ==
  /\ pc[h] = "wait"
  /\ \E done \in port :
       /\ port' = port \ {done}
       /\ job'  = [job EXCEPT ![h] = done]
       /\ pc'   = [pc EXCEPT ![h] = IF done.kind \in {"lost", "unsent"} THEN "error" ELSE "taken"]
  /\ UNCHANGED <<recv, ref, task>> /\ Aside

BeginCompletion(h) ==
  /\ Goto(h, "taken", CASE job[h].kind = "build" -> "repost"
                        [] job[h].kind = "end"   -> "zero"
                        [] job[h].kind = "sent"  -> "release")
  /\ Counts(h, 1)
  /\ task' = IF job[h].kind = "build" THEN [task EXCEPT ![Conn(h)] = "queued"] ELSE task
  /\ UNCHANGED <<recv, port, job>> /\ Aside

\* With a reference of its own, the receive is posted again, or is lost on a
\* socket that is alive: WSAEWOULDBLOCK, or an error that is only logged.  Or the
\* socket is dead.  A receive that ends at once with 0 bytes looks like one of
\* these, and its packet comes all the same.
RePostRecv(h) ==
  /\ \/ /\ Goto(h, "repost", "reposted") /\ freed[Conn(h)] = 0
        /\ recv' \in {recv, recv \cup {Conn(h)}}
        /\ UNCHANGED port
     \/ /\ Goto(h, "repost", "dead") /\ Broken(Conn(h))
        /\ UNCHANGED <<recv, port>>
     \/ /\ Goto(h, "repost", "reposted") \/ Goto(h, "repost", "dead")
        /\ peer[Conn(h)] = "left" /\ freed[Conn(h)] = 0
        /\ Completed(Conn(h), "end")
        /\ UNCHANGED recv
  /\ Counts(h, 1)
  /\ UNCHANGED <<job, task>> /\ Aside

\* Mutant: a reference is given back that was not taken.
HandleErrorUncounted(h) ==
  /\ Goto(h, "error", "errorRelease")
  /\ UNCHANGED <<recv, port, ref, job, task>> /\ Aside

HandleError(h) ==
  /\ Goto(h, "error", "errorRelease")
  /\ Counts(h, 1)
  /\ UNCHANGED <<recv, port, job, task>> /\ Aside

Release(h, from, to) ==
  /\ Goto(h, from, to)
  /\ Counts(h, -1)
  /\ UNCHANGED <<recv, port, job, task>> /\ Aside

LastTest(h, from, otherwise) ==
  /\ Goto(h, from, IF ref[Conn(h)] = 1 THEN "getLink" ELSE otherwise)
  /\ UNCHANGED <<recv, port, ref, job, task>> /\ Aside

CountDown(h) ==
  /\ pc[h] \in Counting
  /\ \/ Release(h, "dead", "deadTest")     \/ LastTest(h, "deadTest", "reposted")
     \/ Release(h, "reposted", "release")  \/ Release(h, "release", "wait")
     \/ Release(h, "zero", "zeroTest")     \/ LastTest(h, "zeroTest", "release")
     \/ Release(h, "errorRelease", "errorTest") \/ LastTest(h, "errorTest", "wait")

Execute(h) ==
  /\ pc[h] \notin Removing
  /\ Dequeue(h) \/ BeginCompletion(h) \/ RePostRecv(h) \/ HandleError(h) \/ CountDown(h)

-------------------------------------------------------------------------------
(* RemoveSocketContext of a handler: DisConnected, or DeleteSocketContext. *)

\* The LinkNetObj of d goes with its last owner, and deletes the context.
DropLink(d, holder) ==
  /\ holders' = [holders EXCEPT ![d] = @ \ {holder}]
  /\ freed'   = IF holders[d] = {holder} THEN [freed EXCEPT ![d] = @ + 1] ELSE freed

Elsewhere == UNCHANGED <<network, accepted, number, ref, task, job, crashed>>

\* GetLinkNetObj, under m_linkNetMapLock.  Without an object the number is read
\* for DeleteSocketContext, which locks later.
GetLink(h) ==
  /\ pc[h] = "getLink"
  /\ LET n == Socket(Conn(h)) IN
     IF n # None /\ linkMap[n] # None
     THEN /\ Goto(h, "getLink", "unlink")
          /\ link'    = [link EXCEPT ![h] = linkMap[n]]
          /\ holders' = [holders EXCEPT ![linkMap[n]] = @ \cup {h}]
          /\ UNCHANGED key
     ELSE /\ Goto(h, "getLink", "delete")
          /\ key' = [key EXCEPT ![h] = n]
          /\ UNCHANGED <<link, holders>>
  /\ begun'   = begun \cup {Conn(h)}
  /\ spoiled' = spoiled \cup ({Conn(h)} \cap begun)
  /\ UNCHANGED <<freed, list, linkMap>> /\ Elsewhere

\* SetLinkNetObj(nullptr); and the number is read for RemoveLinkNetObj.
Unlink(h) ==
  /\ Goto(h, "unlink", "unmap")
  /\ DropLink(Conn(h), "context")
  /\ key' = [key EXCEPT ![h] = Socket(Conn(h))]
  /\ UNCHANGED <<list, linkMap, link, begun, spoiled>> /\ Elsewhere

\* RemoveLinkNetObj, under m_linkNetMapLock.
Unmap(h) ==
  /\ Goto(h, "unmap", "dropLink")
  /\ IF key[h] # None /\ linkMap[key[h]] # None
     THEN /\ DropLink(linkMap[key[h]], "map")
          /\ linkMap' = [linkMap EXCEPT ![key[h]] = None]
     ELSE UNCHANGED <<freed, holders, linkMap>>
  /\ UNCHANGED <<list, key, link, begun, spoiled>> /\ Elsewhere

\* Where Execute goes on.  The locals of the removal mean nothing any more.
Removed(h, from) ==
  /\ Goto(h, from, IF job[h].kind = "build" THEN "release" ELSE "wait")
  /\ key'  = [key EXCEPT ![h] = None]
  /\ link' = [link EXCEPT ![h] = None]

DisConnected(h) ==
  /\ Removed(h, "dropLink")
  /\ DropLink(link[h], h)
  /\ UNCHANGED <<list, linkMap, begun, spoiled>> /\ Elsewhere

\* The build request has made a LinkNetObj since GetLink found none.
LinkedSince(h) == holders[Conn(h)] # {}

\* Mutant: the context is deleted, its entry stays.
DeleteKeepsEntry(h) ==
  /\ Removed(h, "delete")
  /\ IF key[h] # None /\ list[key[h]] # None
     THEN /\ freed'   = [freed EXCEPT ![list[key[h]]] =
                           IF holders[list[key[h]]] = {"context"} THEN @ + 2 ELSE @ + 1]
          /\ holders' = [holders EXCEPT ![list[key[h]]] = @ \ {"context"}]
     ELSE UNCHANGED <<freed, holders>>
  /\ spoiled' = IF LinkedSince(h) THEN spoiled \cup {Conn(h)} ELSE spoiled
  /\ UNCHANGED <<list, linkMap, begun>> /\ Elsewhere

\* DeleteSocketContext, under m_sockListMutex: deletes whatever context the map
\* has under that number, and with it the context's share of its LinkNetObj.
DeleteSocketContext(h) ==
  /\ Removed(h, "delete")
  /\ IF key[h] # None /\ list[key[h]] # None
     THEN LET d == list[key[h]] IN
          /\ list'    = [list EXCEPT ![key[h]] = None]
          /\ freed'   = [freed EXCEPT ![d] = IF holders[d] = {"context"} THEN @ + 2 ELSE @ + 1]
          /\ holders' = [holders EXCEPT ![d] = @ \ {"context"}]
     ELSE UNCHANGED <<list, freed, holders>>
  /\ spoiled' = IF LinkedSince(h) THEN spoiled \cup {Conn(h)} ELSE spoiled
  /\ UNCHANGED <<linkMap, begun>> /\ Elsewhere

RemoveSocketContext(h) ==
  /\ pc[h] \in Removing
  /\ GetLink(h) \/ Unlink(h) \/ Unmap(h) \/ DisConnected(h) \/ DeleteSocketContext(h)

-------------------------------------------------------------------------------
(* OnAsyncMsg with the build request, on a thread of the task pool.        *)

RunTask(c, from, to) ==
  /\ task[c] = from /\ task' = [task EXCEPT ![c] = to]
  /\ UNCHANGED <<peer, recv, port, accepted, number, ref, handler, begun, spoiled, crashed>>

\* A LinkNetObj for a number that has one already is destroyed again, and takes
\* the context with it.  For most types there is none (lines 310-319), and the
\* list keeps the context.
AddLinkNetObj(c) ==
  /\ freed[c] = 0
  /\ \/ /\ RunTask(c, "queued", "linked")
        /\ linkMap[number[c]] = None
        /\ linkMap' = [linkMap EXCEPT ![number[c]] = c]
        /\ holders' = [holders EXCEPT ![c] = Owners]
        /\ UNCHANGED freed
     \/ /\ RunTask(c, "queued", "done")
        /\ linkMap[number[c]] # None
        /\ freed' = [freed EXCEPT ![c] = @ + 1]
        /\ UNCHANGED <<linkMap, holders>>
     \/ /\ RunTask(c, "queued", "unlinked")
        /\ UNCHANGED <<linkMap, holders, freed>>
  /\ UNCHANGED <<send, list>>

\* Mutant: DeleteSocketContext is called, which deletes the context as well.
LeaveListDeletes(c) ==
  /\ freed[c] = 0
  /\ RunTask(c, "linked", "ack")
  /\ list'  = [list EXCEPT ![number[c]] = None]
  /\ freed' = [freed EXCEPT ![c] = @ + IF list[number[c]] = c THEN 1 ELSE 0]
  /\ UNCHANGED <<send, linkMap, holders>>

\* Mutant: the context stays in the list.
LeaveListNever(c) ==
  /\ freed[c] = 0
  /\ RunTask(c, "linked", "ack")
  /\ UNCHANGED <<send, tables>>

\* RemoveSocketContext(SOCKET) erases the entry of that number.
LeaveList(c) ==
  /\ freed[c] = 0
  /\ RunTask(c, "linked", "ack")
  /\ list' = [list EXCEPT ![number[c]] = None]
  /\ UNCHANGED <<send, freed, linkMap, holders>>

SendBuildConnectAck(c) ==
  /\ freed[c] = 0
  /\ RunTask(c, "ack", "dropLink")
  /\ send' \in {send, send \cup {c}}
  /\ UNCHANGED tables

EndBuild(c) ==
  /\ RunTask(c, "dropLink", "done")
  /\ DropLink(c, "task")
  /\ UNCHANGED <<send, list, linkMap>>

OnAsyncMsg(c) ==
  AddLinkNetObj(c) \/ LeaveList(c) \/ SendBuildConnectAck(c) \/ EndBuild(c)

\* A freed context is followed.
Sound ==
  /\ \A h \in Handlers : pc[h] # "wait" => freed[Conn(h)] = 0
  /\ \A c \in Conns : freed[c] > 0 => freed[c] = 1 /\ task[c] \in {"none", "dropLink"}
  /\ accepted # None => freed[accepted] = 0

Fault ==
  /\ ~Sound
  /\ crashed' = TRUE
  /\ UNCHANGED <<network, accepted, number, ref, tables, task, handler, begun,
                 spoiled>>

-------------------------------------------------------------------------------
Next ==
  /\ ~crashed
  /\ \/ \E c \in Conns : \/ PeerLeaves(c) \/ RecvCompletes(c) \/ SendCompletes(c)
                         \/ Accept(c) \/ OnAsyncMsg(c)
     \/ EnterList \/ DropAccepted
     \/ \E h \in Handlers : Execute(h) \/ RemoveSocketContext(h)
     \/ Fault

Spec == Init /\ [][Next]_vars

-------------------------------------------------------------------------------
(* Properties.                                                             *)

SameNumber(c, d) == number[c] = number[d]

\* A connection loses its context while its peer is there only through the
\* races of an earlier one with the same socket number: one that was listed
\* after its build request (TcpThreadServer.cpp:137), removed by two handlers
\* that both saw the count at 1 (SocketHandler.cpp:63, 141, 176), or deleted after it was linked
\* (TcpThreadServer.cpp:200).
OpenLostToReuse ==
  \A c \in Conns : freed[c] > 0 /\ peer[c] = "open" =>
    \E d \in spoiled \ {c} : SameNumber(c, d)

\* Under the same races only, a map keeps the entry of a context that is gone,
\* which the next connection of that number then meets.
NoStaleEntry ==
  \A n \in Fds : \A c \in {list[n], linkMap[n]} \ {None} :
    freed[c] > 0 => \E d \in spoiled : SameNumber(c, d)

\* "Only the LinkNetObj is to own the context" (TcpThreadServer.cpp:242): once
\* the build request has been handled, the list does not have it any more.
OneOwner ==
  \A c \in Conns : task[c] \in {"ack", "dropLink", "done"} /\ holders[c] # {} =>
    \/ \A n \in Fds : list[n] # c
    \/ \E d \in spoiled : SameNumber(c, d)
================================================================================

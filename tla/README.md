# WindowsServerBase in TLA+

A verification development for WindowsServerBase, a C++ base library for Windows
servers: a thread pool, a timer wheel, a TCP server and a TCP client on an I/O
completion port, and a client-side pool of connections.  The modules are
translated from the code in `src/`; where a comment of the code and the code
disagree, the code is what is modelled, and the disagreement is a finding.
The sources are GB18030; quotations from comments are translated.

Contents: 1 inventory; 2 modules; 3 runs; 4 bounds; 5 fairness; 6 abstractions;
7 proofs; 8 findings and observations; 9 what is not modelled; 10 plan.

## 1. Inventory

| Component | State | Operations | Interacts with |
|---|---|---|---|
| Pool thread: `Thread`, `ThreadTask`, `Event` | `m_quit` of thread and task (atomic flags), `m_event` (manual-reset kernel event), `m_callbackList` under a mutex, the local queue of `Execute` | `Run`, `Execute`, `AddTask`, `Signal`, `Quit`, destructor | called by `ThreadPool::AddTask` and `RemoveAllThread`; calls the callbacks |
| `ThreadPool` | `m_threadIndex` (atomic DWORD), `m_threadList` | `AddTask`, `RemoveAllThread` | the socket handlers, `TimerMgr`, `StartServer` |
| Timer wheel: `TimerWheel`, `CycleLinkList` | `currentTick`, `lastTimeStamp`, `remainder`, a first wheel and four others of circular lists | `add`, `del`, `pause`, `update` | under `TimerMgr`'s mutex |
| `TimerMgr` | `m_timerNodeMap`, `m_timerMutex`, a thread pool | `AddTimer`, `PauseTimer`, `ReStartTimer`, `DelTimer`, the tick thread, destructor | users of any thread; posts callbacks to its pool under the mutex |
| Server: `TcpThreadServer`, `SocketHandler`, `PER_SOCKET_CONTEXT`, `LinkNetObj` | `m_started`, the completion port, `m_socketList`, `m_linkNetMap`, per connection `m_Ref`, `m_pLinkNetObj` and its I/O contexts | `StartServer`, `CloseServer`, destructor, `HandleNewConn`, `PostSend`, `Execute`, `RePostRecv`, `HandleError`, `OnMsg`, `OnAsyncMsg`, `DisConnected`, `DeleteSocketContext` | handlers run on one `ThreadPool`, messages on another; kernel, peer |
| Client: `TcpClient`, `TcpClientIocpTask` | socket, context, completion port and its thread, `m_reconnectTimes`, `m_bReconnectStarted`, `m_closed` | `Connect`, `Execute`, `Reconnect`, `SendMsgAsync`, `CloseAll` | `Thread` with a task of its own; the server |
| `SingleConnection`, `ConnectionPool` | `m_orderID`, `m_mapSyncEvent` under a mutex, lists of connections | `SendMsgSync`, `OnRecvMsgSync`, `GetOrderID`, `CloseConnection`, `Init` | callers of any thread against the thread of the client |
| `TcpSocketBase` | a socket | `Recv` and `Send`, which loop; single winsock calls | client and server |
| Packet dispatch, log, mutex, helpers | none | | |

What is hard in it, and what must be true:

* **Pool thread.** One manual-reset event serves three purposes: callers wake the
  thread with it, `Quit` waits on it, and `Quit` wakes the thread with it.  Each
  of the two waiters resets it.  Correct: callbacks run once, in order; no
  wake-up is lost; `Quit` never leaves the thread asleep.
* **Thread pool.** The round-robin index is read by one atomic operation and
  advanced by another.  Correct: the slot is in range; the load is even; the
  handlers of the server, which never return, get a thread each.
* **Timers.** Five wheels, cascades, 32-bit ticks, and pauses and restarts at any
  moment.  Correct: a timer fires exactly at its tick, whatever wheels it passes
  through; a paused or deleted one does not; no node is in two lists; no
  millisecond is lost between updates.
* **Server.** Every handler may take any completion of any connection; contexts are
  shared by raw pointer, with a counter that is decremented and then looked at;
  ownership passes from the list to the `LinkNetObj` in the middle of a connection's
  life.  Correct: one receive is under way as long as it can be posted, and its
  buffer has one user; messages are handed on in order; the counter counts; no
  connection is freed while the peer has not left.
* **The tables of the server.** Both maps are keyed by the socket number, which the
  kernel gives away again while handlers of the old connection are at work.
  Correct: what one connection does harms no later one of the same number, except
  through races that can be named.
* **The life of the server.** Handlers are handed out to a capped pool, and told to
  quit by packets that any of them may take.  Correct: all of them leave.
* **The stream.** The kernel sends in parts, and several threads post on one socket.
  Correct: the bytes of a message go out in order and once, and nothing is leaked.
* **Client.** Reconnects start from stale completions, and flags are left set on
  early returns.  Requests time out while their answers arrive, and ids are drawn
  with the race of the pool's index.

`PROJECT.json` lists each of these hazards at its line.

## 2. Modules

| Module | Models | Source |
|---|---|---|
| `TaskQueue` | abstract: a serial FIFO executor | what `ThreadPool::AddTask` promises for one thread |
| `PoolThread` | one thread of the pool, step by step, its callers, its teardown | `Thread.cpp`, `ThreadTask.cpp`, `Event.cpp`, `ThreadPool.cpp:44-67` |
| `ThreadPool` | the dispatch over threads, each a `TaskQueue` | `ThreadPool.cpp:33-58` |
| `ServerLife` | a server from `StartServer` to the end of its destructor, over a `ThreadPool` | `TcpThreadServer.cpp:17-103, 334-337`, the loop of `SocketHandler::Execute` |
| `ServerConn` | one connection of the server from accept to free | `TcpThreadServer.cpp`, `SocketHandler.cpp`, `SocketDefine.h`, `LinkNetObj.cpp` |
| `ServerTable` | the two maps over connections that share a socket number | `TcpThreadServer.cpp:96-332`, `SocketHandler.cpp:50-221` |
| `SendStream` | sends in parts, and the loops of the blocking socket | `SocketDefine.h:155-186`, `SocketHandler.cpp:81-97, 223-247`, `TcpClient.cpp`, `TcpSocketBase.cpp:132-224` |
| `CycleLinkList` | the circular list, as operators on the links of all cells | `CycleLinkList.h` |
| `TimerWheel` | the geometry of the wheels, as operators | `TimerDefine.h`, `TimerWheel.cpp` |
| `TimerMgr` | the timers on the wheel, with the users and the ticks | `TimerMgr.cpp`, `TimerWheel.cpp` |
| `TimerLists` | `TimerMgr` on the pointers of its lists | `TimerMgr.cpp`, `TimerWheel.cpp`, `CycleLinkList.h` |
| `WheelClock` | abstract: milliseconds into ticks | `TimerWheel_update` |
| `TimerService` | the tick thread and the users around the mutex, and the destructor | `TimerMgr.cpp`, `ThreadMutex.h` as used there |
| `SyncConn` | a synchronous connection: calls, answers, timeouts, close | `ConnectionPool.cpp:4-213`, `ConnectionPool.h:21-42`, `TcpClient.cpp:397-408` |
| `ClientConn` | a client: its thread, reconnects, sends, close | `TcpClient.cpp` |
| `MC*` | the instances for TLC | |
| `*Proofs` | theorems (7.) | |

How they fit together:

* `PoolThread` implements `TaskQueue`, which is all that `ThreadPool` assumes of a
  thread.  `ServerLife` instantiates `ThreadPool` for the pool of the handlers;
  `TimerMgr` hands callbacks to a pool; `ServerConn` takes from `ThreadPool` that
  tasks may run in any order.
* `TimerService` extends `WheelClock` and implements it.  The split between it and
  `TimerMgr` is between time and place: `TimerService` says when the ticks come,
  with a timer as the tick it was armed for, and `TimerMgr` shows that the wheel
  fires a timer at that tick.  `TimerMgr` sees a list as the set of its nodes;
  `TimerLists` runs the same actions on the pointers, with the operations of
  `CycleLinkList`, and is shown to find in each list what `TimerMgr` has there.
* `ServerConn` has every step of one connection, `ServerTable` several connections
  with fewer steps each: a connection there sends its build request and nothing
  else.  `SendStream` has the bytes of one connection, which are whole messages
  in the other two.
* `SyncConn` gets its answers on the thread that `ClientConn` models, whose `Quit`
  is that of `PoolThread`.

**PoolThread.** `worker` is the position of the thread in `Run` and `Execute`,
`caller[c]` that of a call of `AddTask`, `remover` that of `Quit` and the code
around it; `called` is the callback that `Execute` is calling.  Every access to a
shared object is one action: `LoopTest`, `NullTest`, `StatTest` are the tests of
`Run`; `WaitEvent` and `ResetEvent` the two halves of `Event::Wait`; `EnterExecute`,
`SwapQueues`, `TakeCallback`, `CallbackReturns`, `LeaveExecute` are `Execute`;
`FindTask`, `Push`, `SignalThread` are `AddTask`; `BeginQuit` … `ClearSlot` are
`Quit`, the destructor and `RemoveAllThread`.  `memory` says how far the teardown
has gone; an access to what was deleted goes on with the old contents or is a fault
(`CallerFault`, `WorkerFault`).  The refinement covers the teardown: what the thread
can no longer reach is discarded in `TaskQueue`.

**ThreadPool.** `IndexAtEnd`, `ResetIndex` and `ReadIndex` are the
compare-and-exchange, `IncrementIndex` the increment that follows, `PostTask` the
push.  `PostPastEnd` reads past the vector: a null pointer or the end of the
process.  `SerialSpec` has calls that do not overlap (the mutex of `TimerMgr`,
the loop of `StartServer`), `Spec` calls that do (the handlers).

**ServerLife.** `listener` is the position of the thread that runs `StartServer`,
`owner` that of the destructor, `at[c]` that of handler `c` in `Execute`, which
begins when a thread of the pool takes it (`Enter`).  `port` holds null packets
and completions of connections.  `QuitHandler`, `WakeHandler`, `RemoveThread`
and `ClosePort` are the destructor's loops; `CloseServer` may come before or
after `m_started` was set.  `ListenerFault` is the server thread after the object
is gone, `Serve` a handler that reads it.

**ServerConn.** `listener` is the position of `HandleNewConn` with this
connection, `pc[h]` that of a handler in `Execute`, `RePostRecv`, `HandleError`
and `DisConnected`, with `job[h]` the completion it took; `task[m]` that of
`OnAsyncMsg` with message `m`.  `recvPending`, `filled` (the buffer),
`sendPending` and `port` are the overlapped I/O.  `ref` is `m_Ref`; `Release`
(the decrement) and `LastTest` (the look at the counter, which `Release` returns
by reference) are two steps.  `holders` are the owners of `shared_ptr`s to the
`LinkNetObj`: the map, the context, a task, a handler; `DropLink` frees the
context with the last of them.  `freed` counts deletions.  The use of a freed
context is a fault (`HandlerFault`, `TaskFault`) or goes on with the old
contents.

**ServerTable.** `list` and `linkMap` are the two maps, from socket numbers to
connections; `number[c]` is the number `c` was given, `Socket(c)` what `m_Socket`
holds (the destructor clears it).  `key[h]` and `link[h]` are the locals of a
handler between its look at a map and its next lock.  A connection need not be
listed (its first receive fails or ends at once, or `DropAccepted`: its buffer is
empty already), and need not get a `LinkNetObj` (`"unlinked"`).  A send whose peer
has left completes as `unsent`, which the handler takes for an error.  `spoiled` is
a history variable: the connections with one of three races (listed after the build
request was answered, removed by two handlers, linked between a handler's look and
its deletion).  Everything that goes wrong with a later connection of the same
number is shown to need one of them.

**SendStream.** `io[m]` is the `PER_IO_CONTEXT` of message `m`: `m_nTotalBytes`,
`m_nSendBytes` and the part of the buffer `m_wsaBuf` covers.  `WsaSend`
may fail at any time.  `Transmit` is the kernel, which sends any part of the oldest
send as long as the reader has left room; `Completion` is the handler
(`SendDone`, `SendLost`).  `out` is what has gone out, `got` what the calls of
`Recv` have returned; a byte is a message and an index, and the padding behind a
message is `'\0'`.  `tmp` is which bytes of `Recv`'s array are not `'\0'`.

**CycleLinkList.** The memory is a record of two functions, `prev` and `next`, over
all cells, heads and nodes alike; each operation is the assignments of the code.
`Represents` says that a memory holds given sequences as the rings of given heads.
Two looks at the operations: over every well-linked memory of five cells TLC
compares them with operations on sequences (`ListsAreSequences` of `MCTimerMgr`),
and the theorems of section 7 do so for every memory.

**TimerMgr.** A timer's `links` is the list it is in: `<<0, index>>` on the first
wheel, `<<i + 1, index>>` on `twOther[i]`, `Itself` for an unlinked node, and
`NullPtr` for one that was never linked.  Delays are DWORDs, and so is the sum
that `AddTimer` makes of two of them (`FirstTicks`).  `Tick` is one whole
`_TimerWheel_tick`: the cascades, the firing, the re-arming.  An update is
`BeginUpdate` and its ticks; it holds the mutex to the end, and so does each
action of a user.

**TimerLists.** Every action of `TimerMgr` with what it does to `mem`, the memory of
`CycleLinkList`.  `Zeroed` is the `memset`, `Linked` the end of `_TimerWheel_add`,
`Delinked` is `TimerWheel_del`.  The two loops that empty a list while they link
its nodes to others, often to lists of the same wheel, are `Turns`: the list is
spliced to the head on the stack (`LocalHead`), then each turn takes out the
first node and links it where it goes (`FirstMoved`); `Emptied` is the memory
after the loop.  `Ticked` is the loops of one tick, one after the other.  Nothing
in `mem` is told which timers a list has: the nodes are found by their `next`.

**WheelClock** and **TimerService.** `BeginUpdate`, `TickOnce` (one turn of the
`while`) and `EndUpdate` (the cast to `uint16_t`), with a clock that is moved at
will, also back.  `TimerService` adds who holds `m_timerMutex`, the position `at`
of the tick thread, the users that wait, and the timer each of them has armed:
the tick that the wheel keeps, and beside it, in milliseconds, when it was armed,
after how long it was to go off, and the lag of the wheel, with which the tick is
compared.  `TouchesFreed` is the thread in a manager that is
gone.

**SyncConn.** `pc[c]` is the position of caller `c` in `SendMsgSync`, `order[c]`,
`event[c]` and `got[c]` its local order id, its `Event` and what it returned
with.  `ResetOrderID`, `ReadOrderID` and `IncrementOrderID` are the two atomic
operations of `GetOrderID`; `Register` makes the entry, `Send` is
`SendMsgAsync`, `Woken` and `TimesOut` are the two ends of the wait, `Look` the
section under the mutex after it.  `syncEvent` is `m_mapSyncEvent`: an entry has
the request it was made for (whose caller is the `respondID`, and whose event it
owns) and the answer.  `OnRecvMsgSync` runs on the thread of the client.
`ClearMap` and `CloseAll` are `CloseConnection`.  `given` and `wrapped` are
history variables that only properties read.  `CallerFault` is a step through
freed memory or a null pointer.

**ClientConn.** `pc` is the position of the client's thread in `Execute` and, from
`gate` on, in `Reconnect`; `owner` that of the thread that calls `Connect` (whose
`SetRecvIO` runs against the thread) and `CloseAll`, from which follow `m_closed`
(`Closed`) and what has been deleted (`ContextFreed`, `TaskFreed`).  `sock` is the
descriptor in `m_clientSock`, `ctxSock` the one in the context, `link[s]` what
became of the connection of socket `s`.  `pending` and `port` are the overlapped
I/O; the port is a queue, as it has one reader.  `lost`, here and in `ServerConn`,
says that the last receive could not be posted and nobody will notice.  `LoopTest`,
`Take`, `NullKey`, `Ended`, `RePostRecv`, `AliveTest` and `SendDone` are `Execute`;
`Gate` to `SetRecvIO`, `GiveUp` and `GivenUp` are `Reconnect`; `SetCloseStat` to
`DeleteTask` are `CloseAll`, `DestroyClient` the destructor after it.  `outlived` is
a history variable: `Reconnect` has closed a socket with an operation under way.

## 3. Runs

| Run | Instance | Shows |
|---|---|---|
| `pool_thread` | three callers, `Quit` at any moment | `NoLostWakeup`; the thread implements `TaskQueue`, liveness and teardown included; the thread always leaves its wait (`QuitReleasesWorker`) |
| `pool_thread_quit_waits` | one caller, the 2000 ms never run out | violation: `Quit` does not wait for the thread |
| `thread_pool_concurrent` | 2 threads, 4 overlapping calls, a DWORD of 4 values | `InRangeCallRuns`: a callback whose slot is in range runs, though others are dropped |
| `server_life` | 4 handlers on a pool capped at 2 threads, 1 completion | `FairDispatch`: indices in range, an even load, a handler for every thread; `WakesSuffice`: a handler is left waiting only if its null packet went to another one; `HandlersLeave` |
| `server_conn` | 2 handlers, 2 messages, answers, a peer that closes or resets at any moment | `OneReceive`, `DispatchedInOrder`, `RefExact`, `OpenIsKept`, `ServedOnceBuilt` |
| `server_empty_buffer` | the same | violation: an empty buffer does not mean that the peer closed |
| `server_table` | 2 connections with one socket number, 2 handlers, build tasks | `TypeOK` (`m_Ref` from -2 to 5), `OpenLostToReuse`, `NoStaleEntry`, `OneOwner`: what goes wrong needs one of three races |
| `send_stream` | 2 messages of up to 3 bytes, a buffer of 2, a request of 2, room for 2 bytes and for 1, a connection that may break | `PayloadInOrder`, `RemovedWhenSent`, `MixedOnlyIfCut`, `RecvKeepsAll`, `SentInTheEnd` |
| `timer_mgr` | one timer added, paused, restarted, deleted at any tick, down to the pointers of the lists | `ListsMatch` (a walk along each list finds its timers), `PlacementInv` (always in a list that is handled in time), `FiresOnTime` (exactly at its tick), `OnlyRunningFires`, `FirstWheelFires`; the wrap of the tick and bursts of ticks included |
| `timer_service` | a user, the tick thread, the destructor, any clock | `NotEarly`, `NotOverdue` (in the milliseconds the user asked for), `OneMoreRound`, `MutexComesFree` |
| `sync_conn` | 2 threads, 2 calls each, late and missing answers, timeouts, a close at any moment | `OwnAnswer`, `FaultNeedsSharing`; an answer wakes its caller |
| `client_conn` | up to 3 sockets, 2 attempts each, connections that end at any moment, a close at any moment | `OneReceive`, `TakenBackIdle`, `KeepsOpen`; an ended connection is noticed; the thread ends when it is to |

Three runs (`server_life`, `server_table`, `send_stream`) check the type invariant
as well, which there says more than types: how far a counter goes,
or that a part of a buffer stays within it.  Each property has a mutant: a
definition of the model changed as a plausible bug would change the code, with
which TLC finds the property violated.

Deadlock is not checked: every model has states where all has been done (calls
made, the clock at its bound, the process ended), and the connections end.  That
something goes on where it should is what the liveness properties say.

## 4. Bounds, and why they are enough

* `Tasks` of `PoolThread`: three callers of one thread cover a push before, during
  and after an `Execute`, and in the queue behind another, with `Quit` at every
  point.  The theorems hold for any number.
* `ThreadPool`: `NumThread` 2 with a `DWORD` of 4 values reaches an index past the
  end, its wrap, and the reset missed by an increment in between.
* `ServerLife`: four handlers go round the index of two threads twice and queue
  behind handlers that serve; one completion keeps a handler busy while the
  destructor runs.  Run by hand as well: 4 handlers on 3 threads with up to 2
  completions, and 5 on 2 with up to 2.
* `ServerConn`: two handlers are enough for every race between two completions;
  three were run by hand.  Two messages: the one that builds the link and one
  that uses it.  `RefSize` 8 exceeds every count that a run can reach, and a count
  below 0 wraps as in 16 bits.  `freed` needs no bound: a context has at most two
  owners.  The theorems hold for any number of handlers and messages.
* `ServerTable`: two connections with one number are the least in which a number is
  used again, and the races are between two handlers of one of them and the build
  task.  A third connection is left out: it would find the tables as the second
  finds them.  `CONSTRAINT Undecided` ends a path where a race has happened and none
  of the three properties can be violated any more; TLC still checks that state.
  How `m_Ref` goes on from there is left to the theorem, and was run by hand: the
  run without the constraint has 4.9 million states, when those that differ in
  nothing that is read again are counted as one.  In `TypeOK`, -2 is reached in this
  run, and 5 with three handlers (one connection, run by hand).
* `SendStream`: a buffer of 2 bytes and messages of 0 to 3 have an empty message,
  a full buffer and one that is too long; a send is cut in two.  `Window` 2 lets
  two bytes and `ReqWindow` 1 one byte of the request wait for a reader, so that
  both kinds of send stop when nobody reads.  Messages of up to
  4 with a buffer of 3 were run by hand (1.9 million states).
* `TimerMgr`: the wheels have 4 and 2 lists instead of 256 and 64.  The tick has as
  many bits as the wheels have digits, as in the code (8 + 4 x 6 = 32), so that it
  is of 64 values here and wraps within the run.  `Interval` is 1: the delays are
  below 2^32 ms, so that only an interval below `NSize` lets an expiry reach the
  range of the last wheel.  With a due time of 3, the delays put the first expiry 3,
  16 and 43 ticks ahead (on the first wheel, on the third of the others, and in none
  of them), and 62 + 3 wraps the sum of the two DWORDs (`AddTimer` adds them).  40
  follows a null list pointer (8.), 62 loses the timer when it is armed again, 0 is
  below the interval.  `MaxBurst` 2 makes an update of more than one tick.  As sets,
  two timers meet only in `Crash`; on the pointers they meet in every list.
  `ListsMatch` was looked at by hand with two timers on wheels of 2 and 2 lists, in
  5.4 million states but not all of them, and is proved for any number.
* `TimerService`: `MaxTime` 8 with `Interval` 2 gives updates of 0 to 3 ticks with
  both remainders, before and after the arming.  `Delays` {0, 4} and `Dues` {0, 3}
  add up to a delay below the interval, one that is no whole number of intervals,
  one that is, and 7, which has to be rounded and takes three ticks.  `Uint16Size` 8
  is small enough for a wrong cast to show.  Two users were run by hand (`MaxTime`
  6).  The theorems hold for any number.
* `SyncConn`: two callers race inside `GetOrderID`, and share an entry if they do;
  two calls each leave the entry of a timed-out call behind for a late answer.
  `MaxOrder` 2 instead of 2^32 - 1 makes the counter come round, so that numbers
  are drawn again while their entries are still there.
* `ClientConn`: three sockets are two reconnects, so that a packet can outlive its
  socket and close the next one; four sockets and two sends were run by hand
  (11.7 million states) and show nothing else.  Two attempts per reconnect reach
  a success after a failure and the end of the attempts; one message, one send.

## 5. Fairness

* `PoolThread`: `WF` of the thread and of a caller that has found the task: the
  scheduler starves no thread, and every callback returns (without which nothing
  can be said of those behind it).  A caller need not begin.  `Quit`, once begun,
  goes on.
* `ThreadPool`: the same, for a call that has begun and for every thread.
* `ServerLife`: `WF` of the server's thread, of every thread of the pool, and of the
  destructor once it has begun.  The call of `CloseServer` and the beginning of
  the destructor are free.
* `TimerMgr`: the tick thread begins an update again and again, and ends it: it
  asks for the mutex as soon as it has released it (`TimerMgr.cpp:22-26`), and
  its steps need nothing from others.  Users need no fairness.  `TimerLists` has
  the same (`ListFairSpec`).
* `TimerService`: `WF` of the tick thread alone.  A critical section is not handed
  out in turn: nothing is assumed of who gets it when it is free, and users can
  starve.  So `MutexComesFree` says what this code does for a user that waits, that
  the mutex is given up again and again, and not that the user gets it.
* `SendStream`: `WF` of the kernel (which sends as long as the other side has room),
  of the handlers, of the loop of `Send`, and of its `send` failing once the
  connection is broken.  That the connection ever breaks, or anyone reads, is not
  assumed: `SentInTheEnd` has it as a condition, that again and again there is room
  or the connection is broken.
* `SyncConn`: `WF` of a caller whose event is set: the scheduler lets it run.  The
  timeout needs no fairness, as nothing is claimed of calls whose answer does not
  come.
* `ClientConn`: `WF` of the thread, which waits for nothing but the port, a connect
  and a sleep that end; and of the end of a receive on a connection that has
  ended, which winsock promises.  `ThreadEnds` leaves out the states where the
  thread wants one more socket than the model has.
* `ServerConn`, `ServerTable` and `WheelClock` have only safety properties: that a
  peer or a completion ever comes is no promise of this code.

## 6. Abstractions

* A callback, a message, an answer is a name; its contents are left out, except
  that message 1 is the request that builds the connection, sent once and first
  by the client (`ConnectionPool.cpp:130-146`).
* A circular list is the set of its nodes in `TimerMgr`: the tick handles all of
  them, whatever their order.  That the pointers do so is not assumed: it is
  `ListsMatch` and `FiresItsRing` of `TimerLists`.  A step that follows a null
  pointer (`Crash`) says nothing of the memory.
* An access to freed memory is a fault that ends the process, or goes on with the old
  contents.  What else it may find there, and what writing to it does to others, is
  left out.
* `Crash` in `TimerMgr`: a null `LinkNode*` was followed.
* A receive brings one whole message: the code has no framing, and the receive
  buffer (8192 bytes) is larger than any message of the tests.
* An open peer keeps the socket writable: `IsSocketAlive` on it says yes.  (A full
  send buffer makes it say no, as the socket does not block.)
* In `ServerTable` the answer to the build request pends or fails, and the buffers of
  receives are left out.
* In `SendStream` a byte of a message may be any value but the padding, and a send
  that fails keeps its context, as the code does.
* The server of `SyncConn` answers a request at any time, in any order, once or
  never (`LinkNetObj.cpp:121-128` copies both ids into the answer).  The time of
  `SYNC_WAIT_TIME` is any time.  `CloseConnection` erases the entry its iterator
  is at and then increments the iterator: the process ends, or some of the
  entries are gone.
* `ClientConn` begins when `Connect` has connected, associated the socket and
  started the thread.  `SendMsgAsync` is one step: what happens when it overlaps
  with `CloseAll` is in `SyncConn` (`CallerFault`).  `Connect` and the association
  succeed or fail at will.
* `WSARecv` and `WSASend` may fail at any time, on an open connection as well, with
  `WSAEWOULDBLOCK`, which the code takes for `WSA_IO_PENDING`, or with another
  error. One that was posted fails only when the connection has ended.  In
  `ClientConn` a send that cannot be posted is one that is not sent.  `WAIT_TIMEOUT`
  is not an error of a completion that was dequeued with `INFINITE` and is left out.
* Atomic variables and kernel objects are sequentially consistent, as the
  interlocked operations the build uses are.
* The shift by 32 in `TimerWheel.cpp:135` is undefined; both results compilers
  give (0 and 1) lead to the same list.

## 7. Proofs

All theorems hold for every value of the constants allowed by the assumptions in the
modules (`NoCall` is not a call and `NoTask` not a task; the pool has at least one
thread and the DWORD exceeds their number; the server has at least one handler, and
its pool as many threads as handlers up to a cap; a caller makes at least one call
and there is more than one order id; a null pointer is neither a request nor an
entry; the wheel sizes are powers of 2; an interval is positive, and below
`Uint16Size` where the remainder is kept; the delays of `TimerMgr` are DWORDs, those
of `TimerService` numbers; the ticker is not a user; buffers and chunks have a
length; the handlers of `ServerConn` are finitely many, and two references of each
and one of the list fit into `m_Ref`; no name stands for two things).

Each module of proofs begins with its inductive invariant.  TLC checked it on the
small instances before it was proved.

* **ServerLifeProofs**: the server, its pool, and one thread of the pool.
  * The pool alone: `PoolTypes`, whatever the interleaving, and `SerialSlotInRange`
    from `IndexInv`: of calls that do not overlap one at a time is between read
    and increment, so that the index it read is the one it advances.
  * `FairDispatch` counts over sets of calls.  It follows from `LoadInv`: for some
    number k of complete rounds every thread has `Share(k, v, t)` handlers, where v
    is the index as the last finished call left it.  Thread 0 has two turns in a
    round, as the index that is reset serves it and the reset does not advance it;
    `DealsFairly` says how uneven that may be.
  * `LifeTypes`: the null packets in the port, and those taken by a handler that had
    not to quit, are together no more than were posted.  With it `WakesSuffice` is
    inductive (`WakesAll`): a handler that takes a null packet leaves, or has one
    more counted as stolen.
  * The thread is that of `PoolThread`, with its invariant `ThreadInv`.
    `NoLostWakeup` is not inductive: that the thread sleeps on a callback with
    nobody to wake it can come from a reset, a push, or `Quit`.  The invariant adds
    `WakeupInv` (a thread that waits finds the event not set; behind every queued
    callback there is a set event, a thread that has not yet swapped, a caller that
    has still to signal, or `Quit`, which will), `LocalQueueInv` (the local queue is
    empty between two `Execute`s, needed for the swap) and `QuitInv` (nothing is
    deleted before the signal).  From it (`ThreadStays`): `ThreadTypes`,
    `NeverLosesWakeup`, `StaysAwakeAfterQuit`, `KeepsAwake`.
    `ThreadImplementsQueue`: every step, those of the teardown included, is a step
    of `TaskQueue` or a stutter: a push is `Accept`, `TakeCallback` is `Start`,
    `CallbackReturns` is `Finish`, `DeleteTask` is `Discard`, and the swap leaves
    the concatenation of both queues as it was.
* **ServerConnProofs.**  None of the properties of a connection is inductive; `IInv`
  has one part for each way they depend on each other.  `JobInv`: a handler in
  the middle of a delivery took a receive with a message.  `ReceiveInv` has the
  one receive place by place: pending, in the port, or at one handler, each of
  which excludes the others.  `OrderInv`: of the messages received, only the last
  may not be dispatched yet, and then it is on its way in the port or at a
  handler; with `ReceiveInv` there is one such carrier.  `OpenInv`: as long as the
  peer has not left, no completion has failed and no handler is on the way to a
  removal, so nothing is freed, and a `LinkNetObj` that is there is in the map
  and in the context.  `RefExact` is inductive with those: `HandlerSteps` sorts
  the steps of a handler by what they do to the receive, and `HolderMoves` says
  that a handler that moves changes the number of references by what its two
  places differ in.  From `IInv`: `TypeCorrect`, `ReceiveIsOne`, `OrderKept`,
  `RefCorrect`, `NeverRemovedOpen`, and the action property `NothingDropped`.
* **ServerTableProofs**, for any number of connections, socket numbers and handlers.
  * `TableInv` says which trace each connection leaves in the maps and the
    handlers: `Arrivals` and `Requests` where its receive and its one build request
    are; `Locals` what a handler holds between two locks; `Entries` that an entry is
    for a connection of that number.  `Numbers` has the heart of it: a number is
    given away again only after its context was deleted, and as long as no
    connection of the number is spoiled, a deleted one is `Gone` from both maps and
    every handler, so that the next one has them to itself.  `Lives` and `Order`
    carry `OpenLostToReuse` and `OneOwner` through.  From it: `LostOnlyToReuse`,
    `EntriesAreLive`, `LinkIsOwner`.
  * `CountInv` bounds `m_Ref` and the deletions.  `Items(c)` are the operations of
    a connection under way, in the kernel, in the port or at a handler; at most one
    is a receive, one a send, and one the handler of the build request that has
    only its reference left to release.  Each `Owes` references it may still give
    back beyond those it takes, and `Adds` those it may take: what is owed is never
    more than two above `ref`, and `ref` with what may be added never above 5.  -2
    comes from two packets of 0 bytes, each released twice before the context is
    listed: the first receive, or the one that follows it, may end at once with 0
    bytes while its handler still goes on (8.).  A context is deleted once through
    `m_socketList` and once through its `LinkNetObj`.  From it: `TypeCorrect`, with
    -2 to 5 for `m_Ref` and two deletions at most.
* **StreamProofs.**  `StreamInv` says of each message where its one send is
  (`Flight`): in the kernel, in the port with the number of bytes that went out, or
  nowhere; which part of the buffer it covers; and that exactly the bytes in front
  of that part are out (`Gone`).  `Written` says in which order the bytes of a
  message stand in the stream, and that those of a message that was not cut stand
  together. From it: `StreamTypes` (what is posted again stays within the buffer),
  `BytesInOrder`, `RemovedIsSent`, `CutBeforeMixed`; and `NothingLostByRecv` from
  `ReadInv`.
* **ClientConnProofs.**  `ConnInv`: `Stages` says what the places of the client's
  thread, of its owner and the port say of each other, `Numbering` that a new socket
  has no operations yet, `Contents` what a packet says of its connection and of its
  `PER_IO_CONTEXT`.  `Together` holds as long as no operation has outlived its
  socket: all that is under way is on the socket of the context, one receive of it
  at most (`Single`, told without counting), and one if the connection is open and
  the last one was posted.  From it: `ClientTypes`, `ReceiveIsOne`,
  `TakenBackIsIdle`, and the action property `OpenIsKept`.
* **TimerMgrProofs.**  `TypeCorrect` rests on lemmas about the geometry: `HeadOf`
  is a list of the wheels or none, for every size of the wheels.
  `RestartLinksOnce`: a paused node stays unlinked through every cascade.
  `FiresOnlyRunning` from that and from `Unmapped` (an id out of the map is in no
  list).  `AlwaysPlaced`: `PlacementInv` is inductive with the types.  The proof
  follows a node through one tick: where `HeadOf` puts it, it is in time
  (`HeadInTime`); a list that a cascade hands down has reached the tick at which
  its wheel turns, and puts its nodes in time again on a lower one (`HandsDown`);
  in any other list nothing changes, as the tick has not reached it (`InTimeTick`,
  `LateTick`).  The arithmetic is that of one wheel with a turn that divides the
  next one's, stated once for any two such numbers and used for each level.
  `FiresAtItsTick` follows: what is on the list of the tick and in time is due.
  * The lists, on their pointers.  First the operations, for every memory that
    `Represents` some lists: `AddBackAppends`, `AddFrontIsAddBack`,
    `RemoteDeletes`, `SpliceMovesAll` and `EmptyIffNone` say what the sequences of
    a list's members become, and that the other lists stay as they are.
    `Represents` has no cell at two places, which is what makes each proof a case
    analysis of one cell; cells in no ring are not touched (`AddBackTouches` …).
  * The invariant is `ListInv`: the memory `Fits` the `links` of `TimerMgr`, that
    is, it represents some lists (of which order is left open), each with exactly
    the timers linked to it, and the nodes in none stand alone or have null links.
    `FitsZeroed`, `FitsAddBack`, `FitsRemote`, `FitsSplice`, `FitsLocalHead` and
    `FitsLinked` are the operations again, now in these terms.
  * The loops relink nodes while they empty a list, so that each turn needs the
    turn before (`FitsTurn`), and that all nodes have been handled after as many
    turns as there are timers is an induction (`FitsEmptied`): the number of nodes
    that are left falls with each turn.  As the provers cannot instantiate the
    library's induction theorem, it is made of the least counterexample
    (`NatInd`), and `TurnsAre` shows that the function the loop is written as is
    the one its recursion defines.
  * A tick is up to five loops.  `HandedDownOnce` and `PlacedElsewhere` say that no
    node that is handed down goes to a list which the same tick hands down, so
    that it moves once; with them the loops come to what `AfterCascade` and
    `AfterTick` say (`FitsAllHandedDown`, `TickFits`).  What fires again at once may
    go back to the list it came from, which the splice has emptied before.
  * From it: `ListsAlwaysMatch`, `TicksFireTheirRing` (what a tick hands to the
    pool is the ring of its list, each timer once), and with `ListsImplementSets`
    all that is proved of `TimerMgr` holds of `TimerLists`.
* **TimerProofs**: the parts around `TimerMgr`.
  * The clock: `ClockInv` is inductive as it stands: conservation needs the bound
    on the remainder, so that the cast loses nothing.
  * The service: `ServiceImplementsClock`: every step of the threads is one of
    `WheelClock` or a stutter, from which `ServiceConservesTime` and
    `ServiceBoundsLag` follow without a new proof.  `LockInv` says who holds the
    mutex at each place of the tick thread, and gives `StopsAfterOneRound`.
    `TimerInv` relates ticks to time: a timer's tick to come, times the interval,
    differs from what is left of its delay in milliseconds by the lag and by less than
    an interval; with the conservation of time it gives `FiresNotEarly` and
    `FiresBeforeOverdue`.
* **SyncConnProofs.**  `IInv` = `TypeOK`, `GivenInv` (all that is asked, answered,
  stored or returned was given the number it is found under), `UnaskedInv` (no
  answer before the request), `KeptInv` (the entry of a call that has its number
  to itself is there, with its event, until it looks) and `FaultNeedsSharing`.
  `OwnAnswer` follows from `GivenInv` alone: what was returned was given the same
  number, and nobody else was.  `FreshIds` is inductive with the types.

Every invariant and every action property that a run checks is proved.  Some
properties are proved and not run, as a run would only repeat them: the type
invariants of the other modules, `AwakeAfterQuit`, `WakeupInv`,
`PausedIsUnlinked`, `TimeConserved`, `LagBounded`, `AnswerIsKept`, `FreshIds`; and
`FiresItsRing`, which compares all orders of a list at each step and would take
the run past its time.

Only model-checked: liveness, as ENABLED and fairness are beyond the prover
(`QuitReleasesWorker`, `InRangeCallRuns`, `HandlersLeave`, `SentInTheEnd`,
`FirstWheelFires`, `MutexComesFree`, that an answer wakes its caller, that the end
of a connection is noticed and the client's thread ends, and the liveness of
`TaskQueue`); and `ListsAreSequences`, an assumption of `MCTimerMgr` with which TLC
compares each operation on small memories, beside the theorems about them.

## 8. Findings and observations

Violations of what a comment of the code says, each with a run:

1. `Thread::Quit` does not wait for the thread (`Thread.cpp:91`).  It waits on the
   event that callers set; when one does, `Quit` goes on and deletes the task
   with the thread inside it.
2. An empty buffer after `WSARecv` does not mean that the peer has closed
   (`TcpThreadServer.cpp:176`, `SocketHandler.cpp:215`).  Another handler may have
   taken the completion and cleared the buffer; an open connection is dropped.

Facts met while modelling that contradict no text of the repository, and are
therefore not runs.  Pool and timers:

* Concurrent calls of `AddTask` may push the index past the end; it then runs
  through the whole DWORD, with every call reading past the vector.
* A repeated timer that is restarted may never fire again, though it is in the
  running state (`TimerMgr.cpp:69`): the list it remembers may have been handed
  down since, and the next cascade of that list drops the node as expired.
* A repeated timer with a delay below the interval fires a turn of the first wheel
  later: it is armed for the tick that is being handled.
* A delay is cut to whole intervals, one at least, and counted from the tick the wheel
  stands at (`TimerMgr.cpp:45`, `TimerWheel.cpp:155`).  So a timer fires up to one
  interval early, and early by the lag as well if it was armed while the wheel
  lagged behind the clock; one shorter than an interval fires after one.
* The first expiry is `delayTime + dueTime` from now (`TimerMgr.cpp:45`).  The comment
  at `TimerMgr.h:12` calls `dueTime_ms` the delay of the first execution, which read
  by itself says something else.  It is no run: it is one assignment, whose
  violation would show no more than the line does.  The modules have the sum.
* Nothing keeps the tick thread from taking `m_timerMutex` again at once
  (`TimerMgr.cpp:22-26`), so that users may starve.
* A delay of 2^26 ticks or more follows a null list pointer: `CompareVal` of the
  last wheel is 0 or 1.  An expiry past the wrap of the tick is dropped with null
  links, which `DelTimer` and `PauseTimer` then follow.
* `~TimerMgr` does not wait for its detached thread, which may begin one more round
  and go on in freed memory.
* `Linklist_add_front` adds at the back, as `Linklist_add_back` does.

The server as a whole:

* Handlers beyond `MAX_THREADCNT` never serve: they wait behind one that does not
  return.
* `CloseServer` called before `StartServer` has set `m_started` is lost
  (`TcpThreadServer.cpp:75, 92`).  `m_bStarted` is never used.
* Destroying a server that was never started follows a null pool
  (`TcpThreadServer.cpp:53`).  The server's thread and handlers that are serving
  may use the object after its destruction.

Its connections:

* On a connection that closes, a completion of 0 bytes that is not the last
  reference is released twice (`SocketHandler.cpp:63` and `103`), so that the
  context may be kept for ever; and two handlers may both see 1.
* `HandleNewConn` lists a context after its receive was posted: the build request
  may have been handled, and then both `m_socketList` and the `LinkNetObj` own it.
  A handler that is closing the connection and found no `LinkNetObj` may also
  delete the context (`TcpThreadServer.cpp:200`) after the build request has
  given it to one.  Through either, and through two handlers that remove one
  connection, a later connection of the same socket number can lose its context.
* A first receive that cannot be posted keeps the context and the socket for ever
  (`TcpThreadServer.cpp:131`); so does one that ends at once with 0 bytes, whose
  packet is in the port, and whose handler releases references nobody took: `m_Ref`
  falls to -2 for a time.
* An open connection falls silent when a receive cannot be posted: `WSAEWOULDBLOCK` is
  taken for a receive that pends (`SocketHandler.cpp:206`, `TcpThreadServer.cpp:166`),
  and another error on a socket that is alive is only logged
  (`SocketHandler.cpp:183-186`).  `lost` of `ServerConn` is that state, and
  `OneReceive` shows that nothing else leads to silence.
* A message that overtakes the build request in the task pool is dropped.
* The handler's log line after `RemoveSocketContext`, the tasks of a connection
  that has been removed, and failed sends use the freed context.

The bytes on the wire:

* `PostSend` never sets the length of its `WSABUF`: the whole buffer goes out,
  padding included, and a message longer than it overruns it
  (`SocketDefine.h:163`).
* The rest of a message that went out in part is posted behind the sends of other
  threads: the bytes of the two mix.
* `IsSocketAlive` sends two bytes `"11"` into the stream.
* `Recv` and `Send` look at `errno`, which winsock does not set
  (`TcpSocketBase.cpp:199`): a `WSAEWOULDBLOCK` left there makes a failed `Send`
  return true, an `EINTR` on a connection that is broken makes it try for ever.

The client:

* It, too, has no receive any more after a `WSARecv` that fails on an open connection
  (`TcpClient.cpp:113, 140-144`): it does not notice the end of that connection, and
  does not reconnect, until a send fails.
* Two calls of `SendMsgSync` that draw one number (the race in `GetOrderID`; 0 is
  also given out twice after the counter came round): the entry of the first is
  leaked, its answer is dropped or taken by the other, and the second to look
  follows a null pointer (`ConnectionPool.cpp:98-99`).
* A call that times out leaves its entry in `m_mapSyncEvent` until the counter
  comes round.  `CloseConnection` with calls under way frees the events they wait
  on and the task they are about to use.
* The client may reconnect for ever (`TcpClient.cpp:366`).  A packet of an old
  socket that comes after a reconnect is taken for the end of the new connection
  and closes it; that aborts its receive, whose packet closes the next one.  It
  takes a send that was under way when the connection broke, or a connection that
  ends while a receive is posted.  Such packets may also double the receive.
* `SetRecvIO` takes its `PER_IO_CONTEXT` back when the receive ended at once with
  0 bytes, though its packet is in the port (`TcpClient.cpp:461-463`).
* A failed association leaves `m_bReconnectStarted` set (`TcpClient.cpp:376`), and a
  failed `SetRecvIO` leaves no receive: the client is then never connected again.
* `CloseAll` deletes the context and the task while the thread may be in `Reconnect`.
  The destructor that follows calls `Thread::Quit` a second time, whose `m_task`
  is the task that `CloseAll` has deleted.
* The default constructor of `TcpClient` leaves `m_closed` uninitialized.

## 9. Not modelled

* Of `TcpClient`: a first `Connect` that fails, which returns with nothing begun;
  and the build request that `SingleConnection::Reconnect` sends, for which
  `SendMsgSync` does not wait.
* Completions that fail with `WAIT_TIMEOUT`, which `INFINITE` excludes.
* `ConnectionPool` itself: `Init` fills two lists that do not change, `SendMsg`
  picks a member at random.  Asynchronous connections have no state beyond
  `ClientConn`.
* The rest of `TcpSocketBase` (single calls of winsock without a state of their
  own), packet dispatch (a `switch` without state), the mutex wrapper (a section
  under it is one action), the log and its formatting, the manual tests, the build
  files.

## 10. Plan

Done: the pool thread, the pool and `TaskQueue` with refinement; the timer wheel,
manager, clock and service; the circular list; one connection of the server, the
tables, the life of the server and the stream; synchronous connections; the
client.  Proved: what section 7 lists; last, that the lists of `TimerMgr` are those
of `CycleLinkList`.

Left: what section 9 lists, none of which has state that a property is about.

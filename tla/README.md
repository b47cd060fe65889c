# Cpp_In_One in TLA+

The repository is a collection of C++ and C projects. This directory holds a
verification development of the ones with real concurrent or stateful logic:
TLA+ modules translated from the source, TLC configurations that check them on
small instances, and proofs checked by TLAPS that hold for every value of the
constants. Paths below are relative to the source root (`src/projects/...`,
`src/thread_pool/...`).

How to run, in this directory: `tlc -config EventLoop.cfg EventLoop` for a run,
`tlapm EventLoopProofs.tla` for the proofs of a module.

## 1. Inventory

### mymuduo (`src/projects/mymuduo`): a reactor network library

| component | state | operations | talks to |
|---|---|---|---|
| EventLoop | `quit_`, `callingPendingFunctors_`, `pendingFunctors_` (mutex), eventfd, active channels | loop, quit, runInLoop, queueInLoop, wakeup, handleRead, doPendingFunctors | any thread queues functors; polls through EPollPoller |
| Channel, EPollPoller | `events_`, `revents_`, `index_` (new, added, deleted), map fd -> channel | enable/disable reading and writing, update, remove, handleEvent; poll, updateChannel, removeChannel | epoll; callbacks into TcpConnection, Acceptor, EventLoop |
| EventLoopThread, Thread | `loop_` (mutex, condition variable), thread | startLoop, threadFunc, destructor | owner thread and loop thread |
| TcpConnection | atomic `state_`, channel, socket, input and output buffers | send, sendInLoop, shutdown, shutdownInLoop, connectEstablished, connectDestroyed, handleRead/Write/Close/Error | its loop, its server, user threads |
| TcpServer, Acceptor, EventLoopThreadPool | connection map, loops, round-robin index, listening socket | start, newConnection, removeConnection(InLoop), getNextLoop, handleRead, destructor | base loop and I/O loops |
| Buffer | vector, reader and writer index | append, retrieve, makeSpace, readFd, writeFd | TcpConnection |
| Socket, InetAddress, Timestamp, logger, CurrentThread | (wrappers) | system calls and formatting | |

Hard behaviours: functors queued and quit() called at any moment of the loop;
whether the eventfd has to be written; the life of a loop that lies on another
thread's stack; partial writes; send(), shutdown(), close by the peer and
removal by the server in any order; objects owned by shared pointers and used
through raw ones.

Correctness: no wakeup and no quit is lost; functors run once and in order;
the owner of a loop uses it only while it exists; bytes are neither lost nor
reordered; FIN follows the data; one up and at most one down callback; nothing
watched by the poller outlives its owner.

### Thread pool in C (`src/thread_pool/thrd_pool.c`)

State: a circular array of tasks (head, tail, count), `closed`, `started`, a
mutex and a condition variable. Operations: create, worker loop, post, destory
(so spelled), wait_all_done, free. Hard: one signal per post, a full and an
empty queue, workers that run before the mutex is initialised, a second
destory(). Correct: a queue that loses and repeats nothing, no sleeping worker
while there is work for it, and a destory() that leaves nothing running.

### MySQL connection pool (`src/pool/ConnectionPool.h`)

State: a queue of idle connections, the number of connections, a mutex and a
condition variable. Threads: a producer that creates connections when the queue
is empty, a scanner that drops idle ones, users that take a connection with a
timeout and give it back through a deleter. Hard: the scanner empties the queue
without a notification while the producer waits for it to be empty; it reads
the front of a queue that may be empty. Correct: never more than the maximum,
never a connection with two users, a user with a chance is served.

### nginx-style memory pool (`src/pool/ngx_mem_pool.cpp`)

State: a chain of blocks with a failure counter each, a list of large blocks,
cleanup handlers. Correct: allocations are disjoint and inside their block,
`current` never skips a usable block for good, reset and destroy release each
large block once. Hard: remaining space after alignment, entries of the list of
large blocks that are used again, reset while cleanups exist.

### mprpc (`src/projects/mprpc`)

| component | state | operations | talks to |
|---|---|---|---|
| RpcProvider | services and methods in maps, the event loop | NotifyService, Run, OnMessage, SendRpcResponse | registers in ZooKeeper, answers callers over TCP |
| MprpcChannel, MprpcController | (one call at a time) | CallMethod, SetFailed | looks up in ZooKeeper, calls a provider |
| ZkClient | handle, semaphore on the stack | start, global_watcher, Create, GetData | ZooKeeper's sessions and znodes |
| generated messages | fields, unknown fields | Clear, parse, serialize, size, merge, copy, accessors | libprotobuf |
| Logger, LockQueue | level, queue of messages, a detached writer | SetLogLevel, Log, Push, Pop, the writer's loop | every thread that logs |
| MprpcConfig | map of keys | LoadConfigFile, Load, Trim | provider, ZkClient |

Hard: session expiry and restart, a watcher that fires before its semaphore is
stored, a request or an answer that does not arrive in one read, an answer that
never comes, a file chosen before a blocking pop. Correct: what is executed is
what was called, what is registered belongs to a live session, a caller does
not wait for ever, messages survive the wire.

### Algorithms (`src/algorithm`)

Big integers, maze search by breadth and by depth, the K most frequent values.
Sequential; correct when they agree with a reference definition.

### Not candidates

`cpp_upgrade`, `design_pattern`, `projects/muduo` (a demo of an external
library), the other programs in `thread_pool`, build trees and notes:
demonstrations and wrappers with no state of their own worth checking. `PROJECT.json` lists every component with
its status.

## 2. Modules

| module | models | proofs |
|---|---|---|
| `SerialExecutor` | abstract: accepted tasks run once, in order, and not after closing | |
| `EventLoop` | `EventLoop.cc` and the poll of `EPollPoller.cc` | `EventLoopProofs` |
| `EventLoopThread` (extends EventLoop) | `EventLoopThread.cc`, `Thread.cc` | `EventLoopProofs` |
| `TcpConnection` | `TcpConnection.cc`, one channel of `Channel.cc` and `EPollPoller.cc`, removal in `TcpServer.cc` | `TcpConnectionProofs` |
| `TcpServer` | `TcpServer.cc`, `EventLoopThreadPool.cc`, `Acceptor.cc`, and the life of their loops and connections | `TcpServerProofs` |
| `ThreadPool` | `thrd_pool.c` | `ThreadPoolProofs` |
| `ConnectionPool` (instantiated by `MCConnectionPool`) | `ConnectionPool.h`, `Connection.h` | `ConnectionPoolProofs` |
| `Protobuf` | the part of libprotobuf that generated code calls (external) | `ProtobufProofs` |
| `RpcHeader`, `UserMessages`, `FriendMessages` | `rpcheader.pb.*`, `user.pb.*`, `friend.pb.*` | `ProtobufProofs`, `MprpcProofs` |
| `Messages` (an instance of each of the three) | the generated messages together | |
| `Mprpc` (extends Messages) | `rpcprovider.cc`, `mprpcchannel.cc`, `zookeeperutil.cc`, the example services and callers | `MprpcProofs` |
| `Buffer` | `Buffer.h`, `Buffer.cc` | `LibraryProofs` |
| `NgxMemPool` | `ngx_mem_pool.cpp` | `LibraryProofs` |
| `AsyncLogger` | `logger.cc`, `logger.h`, `lockqueue.h` | `LibraryProofs` |
| `Algorithms` (extends Messages) | `bfs.cpp`, `dfs.cpp`, `bigint.cpp`, `BigdataInTopK.cpp`, `mprpcconfig.cc` | `LibraryProofs` |
| `Library` (extends the last four) | one of them at a time | `LibraryProofs` |

The operators whose names have an underscore in the middle (`Quit_NoWakeup`)
are variants of the definition that follows them, as a plausible bug would
leave it. Every property of a passing run is violated when one of them takes
the place of its original, so no property holds for want of a way to fail.

### EventLoop and SerialExecutor

`loopPc` is the loop thread's place: `init` before loop(), `check` at
`while (!quit_)`, `poll` in epoll_wait, `handle` while callbacks run, `run` while
functors run, `stopped`. `pending` is `pendingFunctors_`, `functors` the
vector it was swapped into. A call of queueInLoop() or quit() is two steps, as
in the code: the queue or flag changes, and then, with no lock held, the caller
writes the eventfd; `waking` are the threads between the two. `wakeupFd` is the
eventfd's counter above zero. The test `!isInLoopThread() ||
callingPendingFunctors_` is `MustWakeup`. The descriptors other than the
eventfd are one source `io` that may be ready at any time. Callers may call at
any time; the loop thread itself calls from a callback, from a functor or
before loop(). `accepted`, `ran`, `early` and `direct` are history.

The refinement maps the abstract queue to `functors \o pending`, the executed
tasks to `ran`, and `open` to "not stopped". Functors that runInLoop() runs at
once are not queued and not part of the abstract executor.

### EventLoopThread

Adds the owner (`ownerPc`), the thread function (`threadPc`) and `loop_`
(`published`) around EventLoop with the owner as its one caller. The loop's
actions are EventLoop's own, each with a condition that says when user code
has the loop (`HasLoop`). The destructor's read of `loop_`, its quit() and the
wakeup inside quit(), and the join are separate steps.

### TcpConnection

One connection with its channel, its socket and the queue of its loop.
`reading`, `writing` and `index` are the channel's; `Update` is
Channel::update() with EPollPoller::updateChannel(); `Readiness` is what epoll
reports. handleEventWithGuard() is three steps (`EventClose`, `EventRead`,
`EventWrite`), because another thread may act in between and because the code
runs the read and write callbacks for every event. A message is a sequence of
`Size` units and the kernel takes any part of a write (`wire`); `stream` is
what sendInLoop() accepted. `inUser` says that the loop thread is in a callback
of the user, which may call send() and shutdown() any number of times. Another
thread's send() is two steps (test of `state_`, queueInLoop) and its shutdown()
three (test, store, queueInLoop). removeConnection() is a functor of the
server's loop (`removals`), which queues connectDestroyed().

`Freed` follows the shared pointers: the server's map, functors bound to
`shared_from_this()`, the users' pointers, the tie held in handleEvent().

### ThreadPool

After creation everything happens inside critical sections of one mutex, so a
critical section is a step. A worker is at `lock` when it wants the mutex, at
`wait` in pthread_cond_wait, at `run` in a task. The workers in `Early` may run
before create() has initialised the mutex and the condition variable, as the
code allows; `InitSync` may then strand those that already sleep. That reads
uninitialised memory and is undefined; the model assumes zeroed memory, on
which both work. `DestroyAgain` returns with the mutex held.

### TcpServer

Several connections of one server on their loops. A loop polls (and then
handles events, one per step), swaps its queue, runs the batch functor by
functor, and looks at `quit` only after the batch, as in `EventLoop.cc:74-90`;
that wakeups are not lost is EventLoop's affair and taken for granted here. A
connection keeps what decides its life: `state`, whether epoll has its channel
(`polled`), the entry of the server's map, and the functors that hold it. With
no I/O threads everything happens in the base loop, and removal runs inside
handleClose(). startLoop() returns before its thread is in loop(), so that an
I/O loop begins by `BeginLoop`, which stores `quit_ = false`, whatever was
stored before. `mainPc` follows main(): set up, loop, the destructor's body
(`DestroyEntry`), its members, thread by thread (`QuitThread` stores `quit_`
once, then `JoinThread` waits for the loop to have ended), the end. An I/O loop
that stops drops its queue (`FinishBatch`).

### ConnectionPool

A critical section is a step; only the wait inside getConnection() is split,
into the wait, its timeout and the return. `Lines` is mysql.ini, read by
`Setting` as LoadConfig() does, where the last line of a key counts. `now` is
the clock, `stamp` the time of last use. `Scan` closes the first k connections
and may reach the end of the queue, where the code reads front() of an empty
queue; `undefined` says so and ends the behaviour. notify_all() wakes producer
and callers alike, since both wait on one condition variable; at the limit the
producer goes round and round notifying.

### Messages and Mprpc

`Protobuf` has varints, fields and the loop of a parse, on sequences of bytes;
the message modules have what protoc generated: a record per class with its
`unknown` bytes, and operators named after class and member function. A
ResultCode within a response may be null. Descriptors, arenas and reflection
are left out. `Messages` gives the three of them short names (`H`, `U`, `F`)
for the modules that use them.

`Mprpc` puts the bytes on a connection. `RequestBytes` is what CallMethod()
assembles, `OnMessage` what the provider makes of the bytes of one read: it
answers, drops the request, or dies of an exception. `Deliver` reads any prefix
of what has arrived, `Receive` any prefix of the answer, or nothing if the
provider is gone. A caller that closes its connection leaves behind what the
provider has not read of a request that was cut (`left`); the provider may read
that later (`ReadRest`), and die of it, but finds no request in it. `nodes` is ZooKeeper: the owner of every znode, where a
session owns the ephemeral ones until it expires. A provider's start is split
where ZooKeeper's threads interleave (`SetContext`, `Connected`) and where the
registry may change (`Exists`, `Create`). Providers may crash and be launched
again; sessions expire by themselves once their process is gone, or beside it.
The external muduo the provider runs on is modelled by what OnMessage() sees.

### Buffer, NgxMemPool, AsyncLogger, Algorithms, Library

`Buffer` has the vector and the two indices; `content` is the history they are
compared with. `NgxMemPool` has the first block with addresses as offsets, the
list of large blocks with the addresses of its entries, and the cleanup list;
`handed` and `heap` are history. Every malloc for a large block may fail; that
of ngx_create_pool() succeeds. `AsyncLogger` splits a
macro into SetLogLevel() and Log(), and the writer into opening the file of the
day, the blocking pop, and the write, which reads the level. `Algorithms` has
no steps: an initial state is an input, and the property compares results. A
loop of the code is a recursive function from the number of rounds to the state
after them, `BreadthRound` and `DepthRound` one round of the searches; a round
after the end changes nothing, and `Rounds` are enough (`BreadthEnds`,
`DepthEnds`).
`Library` joins the four so that a behaviour is one of one of them.

## 3. Runs

| run | instance | shows |
|---|---|---|
| `eventloop` | two callers and the loop thread, three functors | all safety properties, delivery, end after quit, and the refinement |
| `eventloopthread` | one owner, two functors, only the destructor quits | the handshake: the owner uses a live loop only, startLoop() and the destructor return |
| `eventloopthread_quit_ends_loop` | the same | violated: quit() before loop() has begun is erased |
| `eventloopthread_quit_wakes_live_loop` | the same | violated: quit() uses a loop that may be gone |
| `tcpconnection` | one user thread that sends or shuts down, two messages of two units, high-water mark 3, one message of the peer | all safety properties, shutdown and close complete |
| `tcpconnection_no_send_after_shutdown` | the same | violated: a queued send passes the test for shutdown |
| `threadpool` | two workers, one early, a queue of two slots, four tasks, two clients that both post and destroy | queue order, no idle worker, quiet after destroy, tasks run, destroy returns |
| `threadpool_workers_leave` | the same | violated: a second destory() keeps the mutex |
| `tcpserver` | three connections, two I/O loops or none, start() twice | round robin, ownership, one up and one down, closed connections are forgotten, and the destructor ends unless it quits a loop whose loop() has not begun |
| `connectionpool` | three callers with two calls each, initSize 1, maxSize 2, maxIdleTime 0, three clock values, with and without mysql.ini | the count is exact, no connection has two users, a scan may stop early, the producer is called, getConnection() returns |
| `mprpc` | the user or the friend example, requests in up to two reads, one crash, one expired session beside its process | calls are faithful, registrations follow sessions, calls end |
| `library` | see below | buffer, memory pool, logger, and the sequential programs |

Bounds. Three functors are enough for one in `ran`, one in `functors` and one in
`pending` at once, and for a functor that queues another while a third thread
does so too. Two messages of two units give a partial direct write, a partial
buffered write, a message queued behind another, and a high-water mark that is
crossed by the second message only. Four tasks through two slots make both
indices wrap around. `MaxIn` bounds what the peer sends; each message, functor
and task is used once.

Three connections on two loops wrap the round robin, and put two connections
into one loop. Three callers and at most two connections make a caller wait
while another gives back and the scanner closes; three clock values order two
uses. Two calls of "user" and one of "friend" cover all generated classes; the
two pairs share nothing but the session numbers, so the run takes one at a time
(`MaxPairs`); one crash suffices for a restart before the old session expires,
and two reads (`MaxReads`, which also bounds the reads of a rest) for every way
to cut a request. In `library` a vector of three
bytes grows, moves and wraps with four bytes in it; pool sizes 108 and 144 are
one that is a multiple of the alignment and one that is not, a size of 150 is
large and 21 is unaligned; three large blocks and `Scanned` 2 (5 in the code)
leave entries beyond the scan; two threads, three messages and one midnight
for the logger. Its programs run on all mazes of side 2 and 3 and the drawn
ones of side 5 and 6, all pairs of 14 numbers around carries and borrows, up to
four counts for K = 2, all files of two lines, and all messages with each field
present or not, alone and one after the other.

There is no other cut. `RunInLoop` by another thread is
queueInLoop(). Deadlock is checked in every run; where the system may stop for
good (thread ended, pool destroyed) the modules have a step `Terminated` that
says so, but for `mprpc`, where a caller may wait for ever, and `library`,
where programs end and histories are full. EventLoop and TcpConnection always have a step of a caller, of the
poll or of the peer, or a poll that returns without the channel.

### Properties

Safety: `Fifo`, `NoLostWakeup`, `NoLostQuit` (EventLoop); `OwnedLoopIsAlive`
(EventLoopThread); `DownOnce`, `StreamInOrder`, `OutputIsWatched`,
`FinAfterData`, `FreedIsRemoved` (TcpConnection); `ConnectionsAreOwned`,
`UpDownDestroyed` (TcpServer); `QueueOrder`, `NoIdleWorker`, `DestroyedIsQuiet`
(ThreadPool); `ProducerIsCalled`, `FrontExpiresFirst` (ConnectionPool);
`CallsAreFaithful`, `RegistryFollowsSessions` (Mprpc); `BufferIsFifo`,
`AllocationsAreDisjoint`, `LogInOrder`, `ResultsAreRight`; and a type invariant
per component, which for TcpServer includes the round robin and for
ConnectionPool the count of connections and their exclusive use. Liveness:
`QueuedTasksRun`, `QuitStops`; `OwnerReturns`; `ShutdownCompletes`,
`CloseCompletes`; `ClosedIsForgotten`; `TasksRun`, `DestroyReturns`;
`GetReturns`; `CallsEnd`.

Some hold under a condition that is part of the statement, and the condition
is a fact about the code:

- A functor that the loop thread queues for itself before loop() is announced
  by nobody. It runs after the poll timeout or another event, and that is what
  `QueuedTasksRun` says of it; of all others it says that they run without a
  timeout.
- `OwnerReturns` requires, for the destructor, that quit() came after loop()
  began; `ClosedIsForgotten` says the same of the server's destructor.
- `DownOnce` is checked for users that send or shut down, but not both. With
  both in one thread it fails: shutdown() may store `kDisconnecting` over
  `kDisconnceted`, the send queued after it passes the test of sendInLoop(),
  and enableWriting() puts the channel back into epoll. A second handleClose()
  then reports the connection down again.
- A user gives its pointer back only when nothing it queued is left
  (`UserDrop`). send() and shutdown() bind a raw `this`, so a careless user
  would leave a functor with a dangling pointer. What the string passed to
  send() points to is not modelled.
- `ConnectionsAreOwned` speaks of loops that may still poll. A loop that
  stops drops its functors, so that a connection may be freed while epoll
  still has its channel; nobody asks that epoll again.
- `UpDownDestroyed` lets a connection that its user has shut down go without a
  down callback: connectDestroyed() reports only those in state `kConnected`.
- `ClosedIsForgotten` requires, for a closed connection, that the base loop is
  not told to quit. Of the destructor it says that it ends or that it has come
  to the join of a thread whose loop() had not begun (`QuitTooEarly`): then
  `EventLoop.cc:70` may erase the quit(), and the join waits forever.
- `ProducerIsCalled` excepts a queue that the scanner emptied: nobody tells
  the producer, and callers time out below the limit.
- `GetReturns` and the other properties of the pool end where front() of an
  empty queue is read.
- `CallsAreFaithful` lets arguments be missing if TCP cut the request, and a
  call report success without having been executed if the answer came short:
  zero bytes parse as a response. `CallsEnd` excepts a request that was cut.
- `RegistryFollowsSessions` excepts znodes that still belonged to the session
  of an earlier process when the provider asked for them.
- `AllocationsAreDisjoint` lets memory lie behind the end of a pool whose size
  is no multiple of 8, and large blocks leak for which there was no entry.
- `LogInOrder` lets the message that ends a wait over midnight come under the
  old date, and labels be mixed up once both levels have been used.
- `TasksRun` and `DestroyReturns` except the case that pthread_cond_init()
  forgot a sleeping worker; `DestroyReturns` also the second destory().

### Fairness

- EventLoop: the thread is scheduled and callbacks return (`WF` of `Progress`);
  a caller inside wakeup() finishes; a poll returns while the eventfd is
  readable, which level-triggered epoll guarantees. No timeout is assumed.
- EventLoopThread: both threads are scheduled; no spurious wakeup is assumed;
  nobody has to start the loop or to destroy it.
- TcpConnection: as above; in addition strong fairness of the poll that returns
  with this channel, of one that finds room in the send buffer, and of a write
  that takes something. These are the kernel's: the poll alternates between
  reporting this channel and others, and a peer that stays connected makes
  room again and again. The server's loop runs.
- ThreadPool: creation goes on, tasks return, and a worker that wants the
  mutex gets it while it is free. Nobody has to post or destroy, and no wait
  ends by itself.

- TcpServer: every loop goes on, also into loop(), and so does main() once it is in the
  destructor. Nobody has to connect, to close, or to quit the base loop.
- ConnectionPool: the producer and a caller that wants the mutex get it, a wait
  times out, what was taken is given back, and spurious wakeups are not for
  ever. The scanner need not come.
- Mprpc: a provider that was launched and a caller go on, ZooKeeper answers,
  and what was sent arrives, but for the rest of a cut request on a connection
  that its caller has closed. Nobody has to launch or crash a provider, and no
  session has to expire.

## 4. Proofs

All theorems hold for every value of the constants that the assumptions
`LoopAssumption`, `OwnerAssumption`, `ConnectionAssumption`,
`ServerAssumption`, `BufferAssumption`, `LoggerAssumption`, `RpcAssumption`,
`AlgorithmsAssumption` and `PoolAssumption` (one each in ThreadPool,
ConnectionPool and NgxMemPool) admit: any number of threads, tasks, messages,
units, slots, workers, loops and connections, any configuration and any number of callers, buffers, blocks and
pieces of any size, and any number of crashes, expired sessions and pieces of a
request, which is one of those the example programs make.
`ConnectionAssumption` also says that a message is not one of the three marks
of a thread's place, so that a thread that holds one is in send().
Library runs one of Buffer, NgxMemPool, AsyncLogger and
Algorithms with the others unchanged. The theorems are about each part by
itself, `BufferSpec`, `PoolSpec` and `LoggerSpec`, which Library's `Spec`
implies (`PartsAreRight`). Those about the sequential programs and the codecs of
the messages need no state: they hold for every input, in mazes for every side
above 1, in messages for unknown fields that are none or one number (`Foreign`).
`ProgramsAreRight` puts them together for the set `Inputs` of Algorithms, with
any values of its constants.

| theorem | property | argument |
|---|---|---|
| `TypeCorrect` | `TypeOK` of EventLoop | inductive as stated; the relations between `loopPc`, `calling`, `functors` and `active` are what makes it so |
| `WakeupNotLost` | `NoLostWakeup` | inductive with `TypeOK`: the test skips the wakeup only where the loop thread is on its way to the swap, `handle`, which the property excepts |
| `QuitNotLost` | `NoLostQuit` | inductive with `TypeOK` |
| `FirstInFirstOut` | `Fifo` | inductive with `TypeOK`, on associativity of concatenation |
| `LoopImplementsExecutor` | `ExecutorSpec` | step simulation under `Fifo` and `TypeOK`, and that no task is handed over twice |
| `ThreadTypeCorrect` | `ThreadTypeOK` | `HandshakeOK` with `TypeOK` of the loop |
| `LoopKeepsItsPromises` | `NoLostWakeup`, `NoLostQuit`, `Fifo` on the loop's own thread | ThreadSpec implements the loop's Spec |
| `OwnerIsSafe` | `OwnedLoopIsAlive` | `OwnerInv`: as long as the destructor has not called quit() the loop has not stopped |
| `ConnectionTypeCorrect` | `TypeOK` of TcpConnection | `Typed`, `CallbackInv` and `ConnInv` |
| `StreamIsInOrder` | `StreamInOrder` | `ConnInv` |
| `OutputStaysWatched` | `OutputIsWatched` | `ConnInv` |
| `FinFollowsData` | `FinAfterData` | `ConnInv` |
| `ReportedDownOnce` | `DownOnce`, under `OneKindOfCall` | `LifeInv` |
| `RemovedWhenFreed` | `FreedIsRemoved`, under `OneKindOfCall` | `LifeInv` |
| `ServerTypeCorrect` | `ServerTypeOK` of TcpServer, with the round robin | `ServerInv`, by `Deal` |
| `PolledIsOwned` | `ConnectionsAreOwned` | `ServerInv`, by `Life` |
| `ReportedOnce` | `UpDownDestroyed` | `ServerInv`, by `Queues` and `Life` |
| `PoolTypeCorrect` | `TypeOK` of ThreadPool | `QueueInv` |
| `PoolIsQueue` | `QueueOrder` | `QueueInv` |
| `NobodySleepsThroughAPost` | `NoIdleWorker` | `IdleInv`, by counting the awake workers |
| `DestroyedPoolIsQuiet` | `DestroyedIsQuiet` | `LeftInv`: what was taken is executed or in the hands of a worker that runs |
| `PoolTypeCorrect` (ConnectionPoolProofs) | `PoolTypeOK` | `PoolInv` |
| `FrontIsOldest` | `FrontExpiresFirst` | `PoolInv`, by `Ordered` |
| `ProducerIsAwake` | `ProducerIsCalled` | `PoolInv` |
| `RegistryIsTrue` | `RegistryFollowsSessions` | `RegistryInv` |
| `VarintIsRead` (ProtobufProofs) | every number is read back from its varint | least counterexample, one group of seven bits at a time |
| `MessageIsRead` (ProtobufProofs) | three optional fields are read as written; cut anywhere, they fail or some are missing | `Encodes` for strings and numbers, `Spells` for their sequence |
| `HeaderCodec`, `LoginRequestCodec`, `RegisterRequestCodec`, `FriendsRequestCodec`, `CodeCodec`, `AnswerCodec`, `FriendsAnswerCodec` (ProtobufProofs) | every message has the size it announces and is parsed as it was serialized; two, one behind the other, are parsed as they are merged; for the list of friends, of any length | `Carries`, field by field |
| `HeaderIsRead`, `LoginRequestIsRead`, `RegisterRequestIsRead`, `FriendsRequestIsRead` | the same of the messages, with defaults for what is missing | `MessageIsRead`, and a fold over at most three fields |
| `RequestsAreExecutedAsSent` | `CallsAreFaithful` | `CallsInv` and `RestsInv`, on the four lines above |
| `MprpcTyped` | `MprpcTypeOK` | `RegistryInv`, `CallsInv` and `Bounded` |
| `BufferIsQueue` | `BufferIsFifo` | `Valid`, and the readable bytes are `content` |
| `LoggerKeepsOrder` | `LogInOrder` | `LoggerInv` |
| `PoolKeepsApart` | `AllocationsAreDisjoint` | `PoolInv` of LibraryProofs |
| `PartsAreRight` | these three, of Library | a step of Library is one of a part, or leaves it unchanged |
| `SumIsRight`, `DifferenceIsRight` | BigInt of any two numbers | place by place: carry and borrow compare the numbers without their last digits |
| `TopIsRight` | `TopIsKept` for any counts | `Kept`, value by value |
| `DepthFirstIsRight`, `BreadthFirstIsRight`, `MazesAreRight` | `MazesAreSolved` in every maze | `DepthInv`, `BreadthInv`, and what is left to do gets less |
| `ProgramsAreRight` | `ResultsAreRight` | the theorems on each program and each message, for the inputs of Algorithms with any sides, numbers, counts and K |
| `ConfigIsRight` | `FirstItemCounts` for files of any number of lines, of any characters | `Holds`, line by line; `Trimmed` for one item |

Inductive invariants and why they are needed:

- `ConnInv` (TcpConnectionProofs) joins four facts that need one another.
  handleWrite() is right to trust `writing` only if there is output
  (`WatchInv`); after the connection went down output may be left behind and
  only that direction remains, so the invariant must know in which functors
  the connection may be destroyed: a queued `destroyed` and a removal that is
  under way imply an earlier down callback (`RemovalInv`). `DataInv` has the
  stream. `FinAfterData` needs that a shut socket cannot be written, so that
  sendInLoop() buffers nothing after FIN.
- `LifeInv` (TcpConnectionProofs) follows the connection from the callback up to
  the last owner. That the connection is reported down once depends on what
  waits in the loop: between a thread's test of `state_` and the functor it
  queues the connection may go down, so the invariant says which calls are
  under way, which functors are queued, and what each still may do. Under
  `OneKindOfCall` no functor can put the channel back into the poller after
  the connection is down; without that the invariant fails as section 3 says.
- `RegistryInv` (MprpcProofs) has for each service that start() returns once
  (`StartInv`), whose sessions the znodes belong to (`TreeInv`), and what the
  provider still has to create (`ProviderInv`). A provider that died between
  zoo_exists() and zoo_create() leaves a session behind which is not its
  successor's; that is why `missed` is in the invariant.
- `CallsInv` (MprpcProofs) says for each caller what is on its way to the
  provider: before the first read the whole request, after it a rest that is
  `Quiet`. A provider executes what its first read holds of a request, if that
  is enough to be parsed, and takes the rest for another request. That the rest
  is none is a matter of bytes: of those from the fourth on none is zero, so
  that the four bytes read as a length say more than has come, or there are
  fewer than four.
  The property itself only counts executions; it is not inductive, since
  nothing in it bounds what a later read could execute. `RestsInv` says of the
  connections the caller has closed that what is left on them is `Quiet` too.
- `Valid` (LibraryProofs) keeps the two indices of Buffer in order behind the
  eight bytes in front; makeSpace() either moves the bytes or grows the vector,
  and both lemmas say that what is readable stays.
- `LoggerInv` says where the writer is, splits what was pushed into logged,
  held and queued, and ties the file of the day to the clock: the pop that waits
  over midnight is the one message with the old date.
- `PoolInv` (LibraryProofs) has the block (`BlockInv`: the pieces in the order
  they were cut, the last below `last`), the list (`ListInv`: each entry is one
  of the pieces) and the large blocks (`HeapInv`: each that is not lost is in
  one entry). That the entry is unique is needed for ngx_pfree(), which stops at
  the first one. A pool may become undefined in the middle of an operation;
  `Outcome` says what the others leave behind.
- `ServerInv` (TcpServerProofs) has four parts besides the type invariant.
  `Control` says where main() and the loops are: a loop that does not run has an
  empty batch, and a joined one has stopped. `Deal` says which loops got the
  latest `numThreads` connections, counting back from `nextLoop`; that no two
  of them share a loop does not follow from one step without it. `Queues` says
  what may wait in a loop, batch before queue (`Waiting`): of one connection at
  most connectEstablished() and after it connectDestroyed(), each with what it
  tells of the connection meanwhile (`MayEstablish`, `MayDestroy`,
  `MayRemove`). A connection that closes by itself leaves a removal behind in
  the base loop; the destructor of the server, which takes the same connection
  out of the map, comes only when the base loop has stopped, so that the
  removal does not run and connectDestroyed() is queued once. `Life` ties the
  callbacks reported to `state` and the connection to what holds it: the map or
  the queued connectDestroyed(). Each functor that runs is one lemma; that it
  changes one connection and leaves the others alone is `OneChanges`.
- `QueueInv` (ThreadPoolProofs) is the type invariant, with
  `tail = (head + count) % QueueSize`, the queue order, and that a running
  worker holds a task. The arithmetic is in two lemmas: one step around the
  array (`Wrap`) and that different positions are different slots
  (`AtIsInjective`).
- `PoolInv` (ConnectionPoolProofs) adds to the type invariant that the queue is
  ordered by the time of last use (`Ordered`), without which the first
  connection says nothing of the others, and who woke the producer last.
  Two lemmas say what taking the first and appending a connection do to the
  sets of queued and held connections.
- `DepthInv` (LibraryProofs) says that the stack leads from the start to its
  top, and that the start and each free cell with a closed door is on the stack
  or has no open door left (`NothingMissed`), so that an empty stack means that
  everything there is a way to was visited. `BreadthInv` says the latter of the
  queue, that the queue holds cells of two distances, the nearer ones in front,
  and that the path leads from each cell that was reached to one that is one
  step nearer. The code closes doors and not cells: a cell may be reached again
  and its path be overwritten, but only from the same distance, for cells next
  to each other have different colours (`NearDiffers`).
- `Holds` (LibraryProofs) says of the configuration map, after some lines, that
  each entry is of the first item with its key and that each item's key has an
  entry: without the second half a later item with the same key could be taken
  for the first. A line is an item, with any spaces before its key and before
  "=", a comment, a note or blank (`IsItem`, `IsOther`).
- `Carries` (ProtobufProofs) is no invariant but takes its place in the codecs:
  some bytes are fields, whatever comes behind them (`Opens`), and the step of
  the class, taken for each of these fields, leads from one message to another
  (`Moves`). It holds of bytes put behind each other if it holds of both
  (`CarriesOn`), so that a message is followed field by field: each that is
  present moves the cleared message closer to the one that was written, each
  that is absent leaves it alone. The step is the whole switch of
  MergePartialFromCodedStream, where the field of another number or wire type
  goes to the unknown bytes. Serialized behind a first message the same fields
  lead on from that one, and they lead to what MergeFrom() makes of the two; in
  an answer the result within is parsed into the result that is there already.
  The list of friends is a fold over its names, one field each.
- `OwnerInv` (EventLoopProofs) ties the place of the owner to the place
  of the thread, and `quit_` to the destructor.

Varint, ReadVarint, Fields and the folds are recursive functions, which are
CHOOSE expressions: that a function with the equation exists has to be proved
before anything else. `RecursionDefines` (ProtobufProofs) does it once, for a
set of arguments, a measure that decreases and one step of the recursion, all
of them constants; a step that needs induction is by the least number for which
it fails (`Least`). No induction theorem of the library, which would take an
operator, is needed.

Model-checked only: all liveness (fairness and ENABLED are out of the prover's
reach). Every safety invariant that a run checks is proved, two of TcpConnection
under `OneKindOfCall`. Not proved, nor checked, is that messages with unknown
fields of any kind or in any number come back; the theorems on requests
(`HeaderIsRead` and its like) are about messages without unknown fields, as the
example programs send them.

## 5. Disagreements with comments in the source

- `EventLoop.cc:93` says that quit() ends the loop. quit() before loop()
  has stored `quit_ = false` (line 70) is erased, and the destructor of
  EventLoopThread joins forever. The destructor of TcpServer joins its I/O
  threads in the same way, and does so forever if it comes before one of them
  has begun loop().
- `EventLoop.cc:97` wakes a loop of another thread up after storing `quit_`; by
  then the loop may have returned and been destroyed.
- `TcpConnection.cc:84` says that nothing is sent after shutdown(); the test
  is for `kDisconnceted`, which shutdown() does not set.
- `thrd_pool.c:236` says that wait_all_done() waits until the threads have
  left; a second destory() returns with the mutex locked (line 181), and they
  never leave.

Seen while reading, with no property that says otherwise:

- Thread pool: a destroyed pool is never freed, because thread_pool_free()
  refuses a pool without threads; workers leave a closed pool at once and the
  tasks still queued are dropped; `main.c` waits for the workers before anybody
  closes the pool.
- TcpServer: start() does not pass `threadInitCallback_` on.
- Connection pool: at the limit the producer's notifications restart
  wait_for() again and again, so that the timeout is not kept while it runs
  (for `maxSize=0` always); giving a connection back notifies nobody; after
  the scanner emptied the queue callers time out although the limit allows
  more connections (`ConnectionPool.h:145` says the producer would be told);
  ConnectionMain uses the null pointer; the result of connect() is ignored;
  `ConnectionPool.cpp` is an older copy of the header.
- Memory pool: ngx_palloc_block() writes through an uninitialised pointer, so
  that a full block is undefined behaviour; a reset keeps cleanup entries whose
  memory is handed out again; a large block without an entry leaks, since
  ngx_pfree() does not find it.
- mprpc: a request cut by TCP kills the provider (`substr` throws), is executed
  without some arguments, or is dropped without an answer; end of file from a
  dead provider is reported as success; `calluserservice.cc` passes no
  controller, so that any failure ends it; the watcher may post a semaphore not
  yet stored, and a reconnection posts one that start() has left on its stack;
  GetData() returns a buffer without a final zero; a failed lookup leaks the
  socket.
- Logger: the level is one for all threads; messages queued at exit are lost.
- `bfs.cpp` indexes its path by `x * _row + y`, right for square mazes only,
  and finds no way in a maze of one cell; a negative difference in `bigint.cpp`
  has its sign at the end; the configuration keeps spaces before and behind a
  value.

## 6. Not modelled in these modules

- TcpConnection has one connection; TcpServer has several, without their data.
  Many channels on one poller, and the growth of its event list, are in
  neither.
- Memory: the string a queued send() refers to, functors with a dangling
  `this`, growth of buffers and of the poller's event list.
- Failing system calls that end the process (LOG_FATAL), failing allocations,
  and failing lock calls in the thread pool.
- Data races on `bool` members have the outcomes of an interleaving; the
  atomics of the code are sequentially consistent.
- SIGPIPE: a write to a socket the peer has broken returns an error, as it does
  for a process that ignores the signal; no code in the repository ignores it.
- A second block of the memory pool, which no defined execution reaches.
- `TopK.cpp`: `partation` and `selectNoK` take the vector by value, so the index
  they return belongs to a partitioned copy and `main` prints that entry of the
  unsorted original; no definition of the k-th element describes the result.
  `BigData.cpp`, whose `main` is empty but for code under `# if 0`.
- Long lines and command line options of mprpc's configuration; descriptors,
  arenas and reflection of protobuf; the demos listed in section 1.
- mprpc's provider on several I/O threads: each connection is served by one.

## 7. Plan

What is left to do, in this order:

1. Messages with any unknown fields. `Carries` admits it: what is missing is
   that the bytes of a field that has been read are that field again.
2. TcpConnection with several channels on one poller, and with growing buffers
   in place of `stream` (Buffer is proved to be first in first out).
3. The provider of mprpc on several I/O threads.

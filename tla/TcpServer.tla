----------------------------- MODULE TcpServer -----------------------------
(***************************************************************************)
(* A TcpServer of mymuduo: the Acceptor in the base loop, the pool of I/O  *)
(* loops that connections are dealt to, the map of connections, and the    *)
(* way of a connection through both loops until nobody refers to it, with  *)
(* the server's destructor at the end.                                     *)
(*                                                                         *)
(* A loop is the one of module EventLoop with its wakeups taken for        *)
(* granted: it clears quit_ as loop() begins, polls and handles events,    *)
(* swaps its queue, runs the batch, and only then looks at quit_. The      *)
(* thread that started it does not wait for loop() to begin. A connection  *)
(* is the one of module TcpConnection without its data: what counts here   *)
(* is which functor or map entry owns it, and what its user is told.       *)
(***************************************************************************)
EXTENDS Naturals, Sequences, FiniteSets, Functions

CONSTANTS MaxThreads,   \* bound: I/O loops
          ThreadNums,   \* what setThreadNum() may be given
          MaxConns,     \* bound: connections accepted
          MaxStarts     \* bound: calls of start()

ASSUME ServerAssumption == /\ MaxThreads \in Nat
                           /\ ThreadNums \subseteq 0..MaxThreads
                           /\ MaxConns \in Nat
                           /\ MaxStarts \in Nat \ {0}

Base == 0
Threads == 1..MaxThreads
Loops == {Base} \cup Threads
Conns == 1..MaxConns
NoConn == 0

VARIABLES
    numThreads,         \* threadPool_->numThreads_
    loops,              \* loops_ of the thread pool
    nextLoop,           \* next_ of the thread pool
    started,            \* started_ of the server
    listening,          \* the listening socket is in the base loop's poller
    nextConnId,         \* nextConnId_, the number in the next name
    accepted,           \* how many connections were accepted; c is the c-th
    connections,        \* connections_, by the number in the name
    name, home,         \* of each connection: its number and its loop
    state,              \* of each connection: state_
    polled,             \* of each connection: epoll has its Channel pointer
    queue, batch,       \* of each loop: pendingFunctors_ and what is being run
    loopPc, quit,       \* of each loop
    mainPc,             \* setup, loop, destroy, quit, join or done
    joined,             \* how many I/O threads the destructor has joined
    ups, downs,         \* history: connection callbacks of each connection
    destroyed           \* history: connectDestroyed() calls of each connection

poolVars == <<numThreads, loops, nextLoop>>
serverVars == <<started, listening, nextConnId, accepted, connections>>
connVars == <<name, home, state, polled, ups, downs, destroyed>>
loopVars == <<queue, batch, loopPc, quit>>
mainVars == <<mainPc, joined>>
vars == <<poolVars, serverVars, connVars, loopVars, mainVars>>

Functor(op, c) == [op |-> op, conn |-> c]

Init ==
  /\ numThreads \in ThreadNums
  /\ loops = << >> /\ nextLoop = 0
  /\ started = 0 /\ listening = FALSE
  /\ nextConnId = 1 /\ accepted = 0
  /\ connections = [n \in Conns |-> NoConn]
  /\ name = [c \in Conns |-> 0]
  /\ home = [c \in Conns |-> Base]
  /\ state = [c \in Conns |-> "none"]
  /\ polled = [c \in Conns |-> FALSE]
  /\ queue = [l \in Loops |-> << >>]
  /\ batch = [l \in Loops |-> << >>]
  /\ loopPc = [l \in Loops |-> "off"]
  /\ quit = [l \in Loops |-> FALSE]
  /\ mainPc = "setup" /\ joined = 0
  /\ ups = [c \in Conns |-> 0]
  /\ downs = [c \in Conns |-> 0]
  /\ destroyed = [c \in Conns |-> 0]

-----------------------------------------------------------------------------
(* The main thread sets the server up and enters the base loop.            *)

\* EventLoopThreadPool::start(): one more loop per thread.  startLoop() returns
\* as soon as the loop exists, and its thread calls loop() later.
StartThreads ==
  /\ loops' = loops \o [i \in 1..numThreads |-> i]
  /\ loopPc' = [l \in Loops |-> IF l \in 1..numThreads THEN "init"
                                ELSE loopPc[l]]

\* TcpServer::start(), on the base loop's thread, so that listen() is called
\* at once; only the first call counts.
Start ==
  /\ mainPc = "setup"
  /\ started < MaxStarts
  /\ started' = started + 1
  /\ IF started = 0
     THEN StartThreads /\ listening' = TRUE
     ELSE UNCHANGED <<loops, loopPc, listening>>
  /\ UNCHANGED <<numThreads, nextLoop, nextConnId, accepted, connections,
                 connVars, queue, batch, quit, mainVars>>

EnterLoop ==
  /\ mainPc = "setup"
  /\ started > 0
  /\ mainPc' = "loop"
  /\ loopPc' = [loopPc EXCEPT ![Base] = "init"]
  /\ UNCHANGED <<poolVars, serverVars, connVars, queue, batch, quit, joined>>

-----------------------------------------------------------------------------
(* The bodies of the functors; each runs in the thread of its loop.        *)

\* TcpConnection::connectEstablished().
ConnectEstablished(c) ==
  /\ state' = [state EXCEPT ![c] = "connected"]
  /\ polled' = [polled EXCEPT ![c] = TRUE]
  /\ ups' = [ups EXCEPT ![c] = @ + 1]
  /\ UNCHANGED <<downs, destroyed>>

\* Variant: the state is not looked at.
ReportDown_Always(c) == TRUE
ReportDown(c) == state[c] = "connected"

\* TcpConnection::connectDestroyed(): only a connection that is connected is
\* reported down; one that the user shut down is taken out of the poller
\* without a word.
ConnectDestroyed(c) ==
  /\ IF ReportDown(c)
     THEN /\ state' = [state EXCEPT ![c] = "disconnected"]
          /\ downs' = [downs EXCEPT ![c] = @ + 1]
     ELSE UNCHANGED <<state, downs>>
  /\ polled' = [polled EXCEPT ![c] = FALSE]
  /\ destroyed' = [destroyed EXCEPT ![c] = @ + 1]
  /\ UNCHANGED ups

\* Variant: connectDestroyed() is not queued.
RemoveConnectionInLoop_EraseOnly(c, q) ==
  /\ connections' = [connections EXCEPT ![name[c]] = NoConn]
  /\ queue' = q

\* TcpServer::removeConnectionInLoop(), with q for the queues so far.
RemoveConnectionInLoop(c, q) ==
  /\ connections' = [connections EXCEPT ![name[c]] = NoConn]
  /\ queue' = [q EXCEPT ![home[c]] = Append(@, Functor("destroyed", c))]

-----------------------------------------------------------------------------
(* Events, while a loop handles what its poll returned.                    *)

\* EventLoopThreadPool::getNextLoop().
NextLoop == IF loops = << >> THEN Base ELSE loops[nextLoop + 1]

\* Variant: the index wraps one too early.
AdvanceLoop_Early == nextLoop' = IF nextLoop + 2 >= Len(loops) THEN 0
                                 ELSE nextLoop + 1
AdvanceLoop ==
  nextLoop' = IF loops = << >> \/ nextLoop + 1 >= Len(loops) THEN 0
              ELSE nextLoop + 1

\* Variant: the number is used again.
NextName_Same == nextConnId
NextName == nextConnId + 1

\* Acceptor::handleRead() and TcpServer::newConnection().
Accept ==
  LET c == accepted + 1 IN
  /\ loopPc[Base] = "poll" /\ listening
  /\ accepted < MaxConns
  /\ accepted' = c
  /\ AdvanceLoop
  /\ nextConnId' = NextName
  /\ connections' = [connections EXCEPT ![nextConnId] = c]
  /\ name' = [name EXCEPT ![c] = nextConnId]
  /\ home' = [home EXCEPT ![c] = NextLoop]
  /\ IF NextLoop = Base
     THEN ConnectEstablished(c) /\ UNCHANGED queue
     ELSE /\ state' = [state EXCEPT ![c] = "connecting"]
          /\ queue' = [queue EXCEPT ![NextLoop] =
                         Append(@, Functor("established", c))]
          /\ UNCHANGED <<polled, ups, downs, destroyed>>
  /\ UNCHANGED <<numThreads, loops, started, listening, batch, loopPc, quit,
                 mainVars>>

\* The user answers a message and shuts the connection down (testserver.cc).
Message(c) ==
  /\ state[c] = "connected" /\ polled[c]
  /\ loopPc[home[c]] = "poll"
  /\ state' = [state EXCEPT ![c] = "disconnecting"]
  /\ UNCHANGED <<poolVars, serverVars, name, home, polled, ups, downs,
                 destroyed, loopVars, mainVars>>

\* The peer closes: TcpConnection::handleClose(), TcpServer::removeConnection().
Close(c) ==
  /\ state[c] \in {"connected", "disconnecting"} /\ polled[c]
  /\ loopPc[home[c]] = "poll"
  /\ state' = [state EXCEPT ![c] = "disconnected"]
  /\ polled' = [polled EXCEPT ![c] = FALSE]
  /\ downs' = [downs EXCEPT ![c] = @ + 1]
  /\ IF home[c] = Base
     THEN RemoveConnectionInLoop(c, queue)
     ELSE /\ queue' = [queue EXCEPT ![Base] = Append(@, Functor("remove", c))]
          /\ UNCHANGED connections
  /\ UNCHANGED <<poolVars, started, listening, nextConnId, accepted, name,
                 home, ups, destroyed, batch, loopPc, quit, mainVars>>

-----------------------------------------------------------------------------
(* A loop and its functors.                                                *)

\* loop() begins: quit_ = false, also when quit() has been called already.  The
\* test of quit_ that follows is the one behind an empty batch.
BeginLoop(l) ==
  /\ loopPc[l] = "init"
  /\ quit' = [quit EXCEPT ![l] = FALSE]
  /\ loopPc' = [loopPc EXCEPT ![l] = "run"]
  /\ UNCHANGED <<poolVars, serverVars, connVars, queue, batch, mainVars>>

\* The poll is over, after a wakeup, events or ten seconds.
Swap(l) ==
  /\ loopPc[l] = "poll"
  /\ loopPc' = [loopPc EXCEPT ![l] = "run"]
  /\ batch' = [batch EXCEPT ![l] = queue[l]]
  /\ queue' = [queue EXCEPT ![l] = << >>]
  /\ UNCHANGED <<poolVars, serverVars, connVars, quit, mainVars>>

RunFunctor(l) ==
  LET f == Head(batch[l]) IN
  /\ loopPc[l] = "run" /\ batch[l] # << >>
  /\ batch' = [batch EXCEPT ![l] = Tail(@)]
  /\ \/ /\ f.op = "established"
        /\ ConnectEstablished(f.conn)
        /\ UNCHANGED <<queue, connections>>
     \/ /\ f.op = "destroyed"
        /\ ConnectDestroyed(f.conn)
        /\ UNCHANGED <<queue, connections>>
     \/ /\ f.op = "remove"
        /\ RemoveConnectionInLoop(f.conn, queue)
        /\ UNCHANGED <<state, polled, ups, downs, destroyed>>
  /\ UNCHANGED <<poolVars, started, listening, nextConnId, accepted, name,
                 home, loopPc, quit, mainVars>>

\* A loop that shall quit drops what was queued meanwhile: an I/O loop is
\* destroyed by its thread at once, the base loop at the end of main().
FinishBatch(l) ==
  /\ loopPc[l] = "run" /\ batch[l] = << >>
  /\ loopPc' = [loopPc EXCEPT ![l] = IF quit[l] THEN "stopped" ELSE "poll"]
  /\ queue' = [queue EXCEPT ![l] = IF quit[l] /\ l # Base THEN << >> ELSE @]
  /\ UNCHANGED <<poolVars, serverVars, connVars, batch, quit, mainVars>>

Loop(l) == BeginLoop(l) \/ Swap(l) \/ RunFunctor(l) \/ FinishBatch(l)

-----------------------------------------------------------------------------
(* The end: the base loop is told to quit and the server destroyed.        *)

QuitBase ==
  /\ mainPc = "loop"
  /\ ~quit[Base]
  /\ quit' = [quit EXCEPT ![Base] = TRUE]
  /\ UNCHANGED <<poolVars, serverVars, connVars, queue, batch, loopPc, mainVars>>

LeaveLoop ==
  /\ mainPc = "loop"
  /\ loopPc[Base] = "stopped"
  /\ mainPc' = "destroy"
  /\ UNCHANGED <<poolVars, serverVars, connVars, loopVars, joined>>

\* ~TcpServer(), the body: one entry of connections_ after another.
DestroyEntry(n) ==
  LET c == connections[n] IN
  /\ mainPc = "destroy"
  /\ c # NoConn
  /\ connections' = [connections EXCEPT ![n] = NoConn]
  /\ IF home[c] = Base
     THEN ConnectDestroyed(c) /\ UNCHANGED queue
     ELSE /\ queue' = [queue EXCEPT ![home[c]] =
                         Append(@, Functor("destroyed", c))]
          /\ UNCHANGED <<state, polled, ups, downs, destroyed>>
  /\ UNCHANGED <<poolVars, started, listening, nextConnId, accepted, name,
                 home, batch, loopPc, quit, mainVars>>

DestroyMembers ==
  /\ mainPc = "destroy"
  /\ \A n \in Conns : connections[n] = NoConn
  /\ mainPc' = "quit"
  /\ UNCHANGED <<poolVars, serverVars, connVars, loopVars, joined>>

\* ~EventLoopThreadPool(): one ~EventLoopThread() after another, each quits
\* its loop, once, and joins its thread.
QuitThread ==
  /\ mainPc = "quit"
  /\ joined < Len(loops)
  /\ quit' = [quit EXCEPT ![joined + 1] = TRUE]
  /\ mainPc' = "join"
  /\ UNCHANGED <<poolVars, serverVars, connVars, queue, batch, loopPc, joined>>

JoinThread ==
  /\ mainPc = "join"
  /\ loopPc[joined + 1] = "stopped"
  /\ joined' = joined + 1
  /\ mainPc' = "quit"
  /\ UNCHANGED <<poolVars, serverVars, connVars, loopVars>>

\* ~Acceptor() takes the listening socket out of the poller; main() ends, and
\* with it the base loop and what is still queued in it.
EndMain ==
  /\ mainPc = "quit"
  /\ joined = Len(loops)
  /\ mainPc' = "done"
  /\ listening' = FALSE
  /\ queue' = [queue EXCEPT ![Base] = << >>]
  /\ UNCHANGED <<poolVars, started, nextConnId, accepted, connections,
                 connVars, batch, loopPc, quit, joined>>

Destructor == \/ LeaveLoop
              \/ \E n \in Conns : DestroyEntry(n)
              \/ DestroyMembers
              \/ QuitThread \/ JoinThread
              \/ EndMain

Terminated == mainPc = "done" /\ UNCHANGED vars

-----------------------------------------------------------------------------
Next == \/ Start \/ EnterLoop
        \/ Accept
        \/ \E c \in Conns : Message(c) \/ Close(c)
        \/ \E l \in Loops : Loop(l)
        \/ QuitBase
        \/ Destructor
        \/ Terminated

Spec == Init /\ [][Next]_vars

\* Every thread goes on with what it is doing.  Nobody has to connect, to
\* close or to quit the base loop.
Fairness == /\ \A l \in Loops : WF_vars(Loop(l))
            /\ WF_vars(Destructor)

FairSpec == Spec /\ Fairness

-----------------------------------------------------------------------------
(* Properties.                                                             *)

Functors == [op : {"established", "destroyed", "remove"}, conn : Conns]
Pending(l) == Range(batch[l]) \cup Range(queue[l])
Owned(c) == \/ \E n \in Conns : connections[n] = c
            \/ \E l \in Loops : \E f \in Pending(l) : f.conn = c

\* Connections are dealt in turn: of as many in a row as there are I/O loops,
\* no two get the same one, across any number of turns of next_.
RoundRobin ==
  \A c, d \in 1..accepted :
    c < d /\ d < c + numThreads => home[c] # home[d]

\* The type invariant, with the round robin of getNextLoop() and one start of
\* the thread pool for any number of start() calls
\* (TcpServer.cc:51-56, 59-99; EventLoopThreadPool.cc:15-45).
ServerTypeOK ==
  /\ numThreads \in ThreadNums
  /\ loops = [i \in 1..(IF started = 0 THEN 0 ELSE numThreads) |-> i]
  /\ nextLoop \in 0..MaxThreads
  /\ started \in 0..MaxStarts /\ listening \in BOOLEAN
  /\ accepted \in 0..MaxConns
  /\ nextConnId = accepted + 1
  /\ connections \in [Conns -> Conns \cup {NoConn}]
  /\ name \in [Conns -> Conns \cup {0}]
  /\ home \in [Conns -> Loops]
  /\ state \in [Conns -> {"none", "connecting", "connected", "disconnecting",
                          "disconnected"}]
  /\ polled \in [Conns -> BOOLEAN]
  /\ queue \in [Loops -> Seq(Functors)]
  /\ batch \in [Loops -> Seq(Functors)]
  /\ loopPc \in [Loops -> {"off", "init", "poll", "run", "stopped"}]
  /\ quit \in [Loops -> BOOLEAN]
  /\ mainPc \in {"setup", "loop", "destroy", "quit", "join", "done"}
  /\ joined \in 0..MaxThreads
  /\ ups \in [Conns -> Nat] /\ downs \in [Conns -> Nat]
  /\ destroyed \in [Conns -> Nat]
  /\ RoundRobin

\* While a loop may yet poll, every Channel pointer epoll has given it
\* belongs to a connection that the map or a functor owns, also while the
\* connection is handed from the map to a loop by removeConnectionInLoop() or
\* by the destructor; and the base loop lives until the I/O threads, which
\* queue removals in it, are joined
\* (TcpServer.cc:33-43, 86-98, 107-116; EPollPoller.cc:98-105).
ConnectionsAreOwned ==
  /\ \A c \in Conns :
       polled[c] /\ loopPc[home[c]] \in {"init", "poll", "run"} => Owned(c)
  /\ mainPc = "done" => \A l \in 1..numThreads : loopPc[l] = "stopped"

\* A connection is reported up once and down at most once, and connectDestroyed()
\* runs once, after it was up; then it has been reported down, unless its user
\* had shut it down (TcpServer.cc:33-43, 98, 107-116;
\* TcpConnection.cc:152-169, 210-218).
UpDownDestroyed ==
  \A c \in Conns :
    /\ ups[c] <= 1 /\ downs[c] <= ups[c] /\ destroyed[c] <= ups[c]
    /\ destroyed[c] = 1 => ~polled[c]
                           /\ (downs[c] = 1 \/ state[c] = "disconnecting")

\* The destructor has called quit() on a loop whose loop() has not begun.
QuitTooEarly == mainPc = "join" /\ loopPc[joined + 1] = "init"

\* A connection whose peer closed is forgotten by the server and destroyed in
\* its loop, unless the base loop is told to quit; and the destructor, once
\* begun, comes to its end, unless it calls quit() before that thread's loop()
\* has begun: loop() erases the call, and the join waits for ever
\* (TcpServer.cc:33-43, 101-116; EventLoopThread.cc:15-22; EventLoop.cc:70).
ClosedIsForgotten ==
  /\ \A c \in Conns :
       downs[c] = 1 ~> \/ destroyed[c] = 1
                          /\ \A n \in Conns : connections[n] # c
                       \/ quit[Base]
  /\ mainPc = "destroy" ~> mainPc = "done" \/ QuitTooEarly
=============================================================================

--------------------------- MODULE TcpConnection ---------------------------
(***************************************************************************)
(* One TcpConnection of mymuduo with its Channel, its entry in the         *)
(* EPollPoller and its socket.  Everything that touches the socket runs in *)
(* the connection's own loop: as an event of the channel or as a functor   *)
(* of the loop (the loop is the one of the module EventLoop; here it is    *)
(* its queue and the batch being run).  Other threads that hold the        *)
(* connection call send() and shutdown(), which read and write the atomic  *)
(* state_ and queue functors; the server's loop removes the connection     *)
(* from its map.                                                           *)
(*                                                                         *)
(* The data is a set of messages of Size units, sent at most once each, so *)
(* that a write may be partial.  The kernel takes any part of a write, the *)
(* peer sends, closes or resets as it likes.                               *)
(***************************************************************************)
EXTENDS Naturals, Sequences, FiniteSets, Functions

CONSTANTS Users,        \* threads other than the loop's that use the connection
          UserCalls,    \* the sets of calls a user may confine itself to
          Messages,     \* what may be sent
          NoMsg,        \* in place of a message in other functors
          Size,         \* units of a message
          HighWater,    \* highWaterMark_
          MaxIn         \* bound: messages the peer sends

ASSUME ConnectionAssumption == /\ Size \in Nat \ {0}
                               /\ HighWater \in Nat \ {0}
                               /\ MaxIn \in Nat
                               /\ NoMsg \notin Messages
                               /\ Messages \cap {"idle", "setState", "queue"} = {}
                               /\ UserCalls \subseteq SUBSET {"send", "shutdown"}

VARIABLES
    state,              \* state_
    reading, writing,   \* EPOLLIN and EPOLLOUT in channel_->events_
    index,              \* channel_->index_: new, added or deleted
    output,             \* outputBuffer_, a sequence of units
    stream,             \* history: the units accepted by sendInLoop()
    wire,               \* the units the kernel took
    sndShut,            \* SHUT_WR has been done
    peer,               \* open, closed or reset
    soError,            \* an error is pending on the socket
    inbox,              \* messages of the peer not read yet
    peerSent,           \* how many it sent
    loopPc,             \* poll, close, read, write (in handleEvent) or run
    inUser,             \* the loop thread is in a callback of the user
    revents,            \* channel_->revents_
    functors, pending,  \* the batch being run and pendingFunctors_ of the loop
    batchRef,           \* a functor run in this batch owns the connection
    inMap,              \* the server's connections_ owns the connection
    removals,           \* removeConnectionInLoop functors in the server's loop
    userPc,             \* where each user is in send() or shutdown()
    hasRef,             \* which users own the connection
    calls,              \* which calls each user makes (never changes)
    used,               \* history: messages handed to send()
    ups, downs          \* history: connection callbacks made

channelVars == <<reading, writing, index>>
socketVars == <<wire, sndShut, peer, soError, inbox, peerSent>>
dataVars == <<output, stream>>
queueVars == <<functors, pending, batchRef>>
loopVars == <<loopPc, inUser, revents>>
ownerVars == <<inMap, removals, hasRef, calls>>
historyVars == <<used, ups, downs>>
vars == <<state, channelVars, dataVars, socketVars, loopVars, queueVars,
          ownerVars, userPc, historyVars>>

Units(m) == [k \in 1..Size |-> <<m, k>>]
Functor(op) == [op |-> op, msg |-> NoMsg]

\* A functor bound to shared_from_this() owns the connection, one bound to
\* this does not (TcpConnection::send and shutdown bind this).
Owns(f) == f.op \in {"established", "destroyed", "complete", "highWater"}

\* handleEvent() and the functors of a batch keep the connection alive.
Freed == /\ ~inMap
         /\ removals = 0
         /\ \A u \in Users : ~hasRef[u]
         /\ ~batchRef
         /\ loopPc \in {"poll", "swap", "run"}
         /\ \A f \in Range(functors) \cup Range(pending) : ~Owns(f)

\* TcpServer::newConnection puts the connection in its map, on the server's
\* thread, and queues connectEstablished().
Init ==
  /\ state = "connecting"
  /\ reading = FALSE /\ writing = FALSE /\ index = "new"
  /\ output = << >> /\ stream = << >>
  /\ wire = << >> /\ sndShut = FALSE
  /\ peer = "open" /\ soError = FALSE /\ inbox = 0 /\ peerSent = 0
  /\ loopPc = "poll" /\ inUser = FALSE /\ revents = {}
  /\ functors = << >> /\ batchRef = FALSE
  /\ pending = <<Functor("established")>>
  /\ inMap = TRUE /\ removals = 0
  /\ userPc = [u \in Users |-> "idle"]
  /\ hasRef = [u \in Users |-> FALSE]
  /\ calls \in [Users -> UserCalls]
  /\ used = {} /\ ups = 0 /\ downs = 0

-----------------------------------------------------------------------------
(* Channel and EPollPoller: what a change of events_ does to index_.       *)

\* Channel::update() => EPollPoller::updateChannel(); a channel that is not
\* in the epoll set is added even when it has no events left.
Update(r, w) ==
  /\ reading' = r
  /\ writing' = w
  /\ index' = IF index = "added" /\ ~r /\ ~w THEN "deleted" ELSE "added"

-----------------------------------------------------------------------------
(* The bodies of TcpConnection's member functions, in the loop thread.     *)

\* write() takes some of the units, or none: with EAGAIN, which counts as
\* zero, or with EPIPE or ECONNRESET when the socket cannot be written.
CanWrite == ~sndShut /\ peer # "reset"

\* Variant: buffered output is overtaken by what is sent later.
MayWriteAtOnce_Always == TRUE
MayWriteAtOnce == ~writing /\ output = << >>

\* The callback that sendInLoop() queues when left units were not taken.
Notice(left) ==
  IF left = 0 THEN <<Functor("complete")>>
  ELSE IF Len(output) < HighWater /\ Len(output) + left >= HighWater
       THEN <<Functor("highWater")>>
       ELSE << >>

\* sendInLoop() of message m.
SendInLoop(m) ==
  \E n \in (IF MayWriteAtOnce THEN 0..Size ELSE {0}) :
    IF MayWriteAtOnce /\ ~CanWrite
    THEN UNCHANGED <<channelVars, dataVars, socketVars, pending>>
    ELSE /\ stream' = stream \o Units(m)
         /\ wire' = wire \o SubSeq(Units(m), 1, n)
         /\ output' = output \o SubSeq(Units(m), n + 1, Size)
         /\ pending' = pending \o Notice(Size - n)
         /\ IF n < Size /\ ~writing
            THEN Update(reading, TRUE)
            ELSE UNCHANGED channelVars
         /\ UNCHANGED <<sndShut, peer, soError, inbox, peerSent>>

\* Variant: shutdownInLoop() does not wait for the buffered output.
ShutdownInLoop_Always == sndShut' = TRUE

\* shutdownInLoop() leaves a channel that is writing to handleWrite().
ShutdownInLoop == sndShut' = (sndShut \/ ~writing)

\* Variant: the server is not told.
HandleClose_NoRemoval ==
  /\ state' = "disconnected"
  /\ Update(FALSE, FALSE)
  /\ downs' = downs + 1
  /\ UNCHANGED removals

\* handleClose(): the connection goes down, and the server is asked to remove
\* it.  The server's loop is another thread, so this is a queued functor.
HandleClose ==
  /\ state' = "disconnected"
  /\ Update(FALSE, FALSE)
  /\ downs' = downs + 1
  /\ removals' = removals + 1

-----------------------------------------------------------------------------
(* The loop thread.                                                        *)

\* What epoll_wait() finds for the channel; the room in the send buffer is
\* the environment's choice.  HUP and ERR are reported without being asked.
Readiness(room) ==
  (IF reading /\ (inbox > 0 \/ peer # "open") THEN {"IN"} ELSE {})
  \cup (IF writing /\ room THEN {"OUT"} ELSE {})
  \cup (IF peer = "reset" \/ (peer = "closed" /\ sndShut) THEN {"HUP"} ELSE {})
  \cup (IF soError THEN {"ERR"} ELSE {})

\* The poll returns with this channel's events.
PollChannel ==
  /\ loopPc = "poll"
  /\ index = "added"
  /\ \E room \in (IF CanWrite THEN BOOLEAN ELSE {TRUE}) :
       revents' = Readiness(room)
  /\ revents' # {}
  /\ loopPc' = "close"
  /\ UNCHANGED <<state, channelVars, dataVars, socketVars, queueVars,
                 ownerVars, userPc, historyVars, inUser>>

\* The poll returns without it (another channel, the wakeup, a timeout), and
\* the loop swaps its queue.
PollOther ==
  /\ loopPc = "poll"
  /\ loopPc' = "run"
  /\ functors' = pending
  /\ pending' = << >>
  /\ UNCHANGED <<state, channelVars, dataVars, socketVars, batchRef,
                 ownerVars, userPc, historyVars, inUser, revents>>

\* handleEventWithGuard(): the close callback, if the peer hung up and there
\* is nothing to read; then the error callback, which clears the error.
EventClose ==
  /\ loopPc = "close"
  /\ loopPc' = "read"
  /\ IF "HUP" \in revents /\ "IN" \notin revents
     THEN HandleClose
     ELSE UNCHANGED <<state, channelVars, downs, removals>>
  /\ soError' = IF "ERR" \in revents THEN FALSE ELSE soError
  /\ UNCHANGED <<dataVars, wire, sndShut, peer, inbox, peerSent, queueVars,
                 inMap, hasRef, calls, userPc, used, ups, inUser, revents>>

\* The read callback runs for every event.  What it reads decides: data goes
\* to the message callback, end of file to handleClose(), an error is logged.
EventRead ==
  /\ loopPc = "read"
  /\ loopPc' = "write"
  /\ \/ /\ inbox > 0 /\ ~soError
        /\ inbox' = 0
        /\ inUser' = TRUE
        /\ UNCHANGED <<state, channelVars, downs, removals, soError>>
     \/ /\ inbox = 0 /\ ~soError /\ peer # "open"
        /\ HandleClose
        /\ UNCHANGED <<inbox, inUser, soError>>
     \/ /\ soError \/ (inbox = 0 /\ peer = "open")
        /\ soError' = FALSE
        /\ UNCHANGED <<state, channelVars, downs, removals, inbox, inUser>>
  /\ UNCHANGED <<dataVars, wire, sndShut, peer, peerSent, queueVars, inMap,
                 hasRef, calls, userPc, used, ups, revents>>

\* Variants: writing is disabled after any progress; it is never disabled;
\* a shutdown that had to wait is forgotten.
Drained_AnyProgress(n) == n > 0
Drained(n) == n > 0 /\ n = Len(output)

DisableWriting_Not == UNCHANGED channelVars
DisableWriting == Update(reading, FALSE)

ShutdownIsDue_Never == FALSE
ShutdownIsDue == state = "disconnecting"

\* The write callback runs for every event, after the read callback.
HandleWrite ==
  \/ /\ ~writing
     /\ UNCHANGED <<channelVars, output, wire, pending, sndShut>>
  \/ /\ writing
     /\ \E n \in (IF CanWrite THEN 0..Len(output) ELSE {0}) :
          /\ wire' = wire \o SubSeq(output, 1, n)
          /\ output' = SubSeq(output, n + 1, Len(output))
          /\ IF Drained(n)
             THEN /\ DisableWriting
                  /\ pending' = Append(pending, Functor("complete"))
                  /\ sndShut' = (sndShut \/ ShutdownIsDue)
             ELSE UNCHANGED <<channelVars, pending, sndShut>>

\* After the last callback of handleEvent() the loop swaps its queue.
EventWrite ==
  /\ loopPc = "write"
  /\ ~inUser
  /\ HandleWrite
  /\ loopPc' = "swap"
  /\ revents' = {}
  /\ UNCHANGED <<state, stream, peer, soError, inbox, peerSent, functors,
                 batchRef, ownerVars, userPc, historyVars, inUser>>

Swap ==
  /\ loopPc = "swap"
  /\ loopPc' = "run"
  /\ functors' = pending
  /\ pending' = << >>
  /\ UNCHANGED <<state, channelVars, dataVars, socketVars, batchRef,
                 ownerVars, userPc, historyVars, inUser, revents>>

\* One functor of the batch.
StartFunctor(op) ==
  /\ loopPc = "run"
  /\ ~inUser
  /\ functors # << >>
  /\ Head(functors).op = op
  /\ functors' = Tail(functors)
  /\ batchRef' = (batchRef \/ Owns(Head(functors)))
  /\ UNCHANGED <<userPc, used, loopPc, revents, inMap, removals, calls>>

ConnectEstablished ==
  /\ StartFunctor("established")
  /\ state' = "connected"
  /\ Update(TRUE, writing)
  /\ ups' = ups + 1
  /\ inUser' = TRUE
  /\ hasRef' = [u \in Users |-> TRUE]
  /\ UNCHANGED <<dataVars, socketVars, pending, downs>>

\* Variant: the state is not looked at.
ReportDown_Always == TRUE
ReportDown == state = "connected"

ConnectDestroyed ==
  /\ StartFunctor("destroyed")
  /\ IF ReportDown
     THEN /\ state' = "disconnected"
          /\ reading' = FALSE /\ writing' = FALSE
          /\ downs' = downs + 1
     ELSE UNCHANGED <<state, reading, writing, downs>>
  /\ index' = "new"
  /\ UNCHANGED <<dataVars, socketVars, pending, hasRef, ups, inUser>>

\* sendInLoop() gives up only when the connection is down.
RunSend ==
  /\ StartFunctor("send")
  /\ IF state = "disconnected"
     THEN UNCHANGED <<channelVars, dataVars, socketVars, pending>>
     ELSE SendInLoop(Head(functors).msg)
  /\ UNCHANGED <<state, hasRef, ups, downs, inUser>>

RunShutdown ==
  /\ StartFunctor("shutdown")
  /\ ShutdownInLoop
  /\ UNCHANGED <<state, channelVars, dataVars, wire, peer, soError, inbox,
                 peerSent, pending, hasRef, ups, downs, inUser>>

\* The write-complete and high-water callbacks are the user's.
RunNotice ==
  /\ StartFunctor("complete") \/ StartFunctor("highWater")
  /\ inUser' = TRUE
  /\ UNCHANGED <<state, channelVars, dataVars, socketVars, pending, hasRef,
                 ups, downs>>

\* The vector of functors is destroyed, and with it what they own.
EndBatch ==
  /\ loopPc = "run"
  /\ ~inUser
  /\ functors = << >>
  /\ loopPc' = "poll"
  /\ batchRef' = FALSE
  /\ UNCHANGED <<state, channelVars, dataVars, socketVars, functors, pending,
                 ownerVars, userPc, historyVars, inUser, revents>>

\* Inside a callback of the user, the loop thread calls send() ...
LoopSend(m) ==
  /\ inUser
  /\ m \notin used
  /\ used' = used \cup {m}
  /\ IF state = "connected"
     THEN SendInLoop(m)
     ELSE UNCHANGED <<channelVars, dataVars, socketVars, pending>>
  /\ UNCHANGED <<state, loopVars, functors, batchRef, ownerVars, userPc, ups,
                 downs>>

\* ... or shutdown(), which both act at once.
LoopShutdown ==
  /\ inUser
  /\ state = "connected"
  /\ state' = "disconnecting"
  /\ ShutdownInLoop
  /\ UNCHANGED <<channelVars, dataVars, wire, peer, soError, inbox, peerSent,
                 loopVars, queueVars, ownerVars, userPc, historyVars>>

EndUser ==
  /\ inUser
  /\ inUser' = FALSE
  /\ UNCHANGED <<state, channelVars, dataVars, socketVars, queueVars,
                 ownerVars, userPc, historyVars, loopPc, revents>>

-----------------------------------------------------------------------------
(* Other threads.                                                          *)

\* send(): the state is read, and only then sendInLoop() is queued.
UserSend(u, m) ==
  /\ hasRef[u] /\ userPc[u] = "idle" /\ "send" \in calls[u]
  /\ m \notin used
  /\ used' = used \cup {m}
  /\ userPc' = IF state = "connected" THEN [userPc EXCEPT ![u] = m] ELSE userPc
  /\ UNCHANGED <<state, channelVars, dataVars, socketVars, loopVars,
                 queueVars, ownerVars, ups, downs>>

UserQueueSend(u) ==
  /\ userPc[u] \in Messages
  /\ pending' = Append(pending, [op |-> "send", msg |-> userPc[u]])
  /\ userPc' = [userPc EXCEPT ![u] = "idle"]
  /\ UNCHANGED <<state, channelVars, dataVars, socketVars, loopVars, functors,
                 batchRef, ownerVars, historyVars>>

\* shutdown(): the state is read, then written, then shutdownInLoop() queued.
UserShutdown(u) ==
  /\ hasRef[u] /\ userPc[u] = "idle" /\ "shutdown" \in calls[u]
  /\ state = "connected"
  /\ userPc' = [userPc EXCEPT ![u] = "setState"]
  /\ UNCHANGED <<state, channelVars, dataVars, socketVars, loopVars,
                 queueVars, ownerVars, historyVars>>

UserSetState(u) ==
  /\ userPc[u] = "setState"
  /\ state' = "disconnecting"
  /\ userPc' = [userPc EXCEPT ![u] = "queue"]
  /\ UNCHANGED <<channelVars, dataVars, socketVars, loopVars, queueVars,
                 ownerVars, historyVars>>

UserQueueShutdown(u) ==
  /\ userPc[u] = "queue"
  /\ pending' = Append(pending, Functor("shutdown"))
  /\ userPc' = [userPc EXCEPT ![u] = "idle"]
  /\ UNCHANGED <<state, channelVars, dataVars, socketVars, loopVars, functors,
                 batchRef, ownerVars, historyVars>>

\* A user gives its shared_ptr back; a careful one does so only when nothing
\* it queued with a raw pointer is left.
UserDrop(u) ==
  /\ hasRef[u] /\ userPc[u] = "idle"
  /\ \A f \in Range(functors) \cup Range(pending) : Owns(f)
  /\ hasRef' = [hasRef EXCEPT ![u] = FALSE]
  /\ UNCHANGED <<state, channelVars, dataVars, socketVars, loopVars,
                 queueVars, inMap, removals, calls, userPc, historyVars>>

\* Variant: the server only forgets the connection.
ServerRemove_Forget ==
  /\ removals > 0
  /\ removals' = removals - 1
  /\ inMap' = FALSE
  /\ UNCHANGED <<state, channelVars, dataVars, socketVars, loopVars, queueVars,
                 hasRef, calls, userPc, historyVars>>

\* TcpServer::removeConnectionInLoop() on the server's thread.
ServerRemove ==
  /\ removals > 0
  /\ removals' = removals - 1
  /\ inMap' = FALSE
  /\ pending' = Append(pending, Functor("destroyed"))
  /\ UNCHANGED <<state, channelVars, dataVars, socketVars, loopVars, functors,
                 batchRef, hasRef, calls, userPc, historyVars>>

-----------------------------------------------------------------------------
(* The peer.                                                               *)

PeerSend ==
  /\ peer = "open"
  /\ peerSent < MaxIn
  /\ peerSent' = peerSent + 1
  /\ inbox' = inbox + 1
  /\ UNCHANGED <<state, channelVars, dataVars, wire, sndShut, peer, soError,
                 loopVars, queueVars, ownerVars, userPc, historyVars>>

PeerClose ==
  /\ peer = "open"
  /\ peer' = "closed"
  /\ UNCHANGED <<state, channelVars, dataVars, wire, sndShut, soError, inbox,
                 peerSent, loopVars, queueVars, ownerVars, userPc,
                 historyVars>>

\* A reset throws away what was not read.
PeerReset ==
  /\ peer # "reset"
  /\ peer' = "reset"
  /\ soError' = TRUE
  /\ inbox' = 0
  /\ UNCHANGED <<state, channelVars, dataVars, wire, sndShut, peerSent,
                 loopVars, queueVars, ownerVars, userPc, historyVars>>

-----------------------------------------------------------------------------
Dispatch == EventClose \/ EventRead \/ EventWrite \/ Swap
RunFunctor == \/ ConnectEstablished \/ ConnectDestroyed
              \/ RunSend \/ RunShutdown \/ RunNotice
              \/ EndBatch
LoopUser == (\E m \in Messages : LoopSend(m)) \/ LoopShutdown
UserFinish(u) == UserQueueSend(u) \/ UserSetState(u) \/ UserQueueShutdown(u)
User(u) == \/ \E m \in Messages : UserSend(u, m)
           \/ UserShutdown(u)
           \/ UserFinish(u)
           \/ UserDrop(u)
Peer == PeerSend \/ PeerClose \/ PeerReset

Next == \/ PollChannel \/ PollOther
        \/ Dispatch
        \/ RunFunctor
        \/ LoopUser \/ EndUser
        \/ \E u \in Users : User(u)
        \/ ServerRemove
        \/ Peer

Spec == Init /\ [][Next]_vars

\* The loop runs what is there, callbacks return, the kernel takes output
\* again and again as long as it can, and the server's loop runs too.
Fairness == /\ WF_vars(pending # << >> /\ PollOther)
            /\ SF_vars(PollChannel)
            /\ SF_vars(PollChannel /\ "OUT" \in revents')
            /\ WF_vars(Dispatch)
            /\ SF_vars(EventWrite /\ (output' # output \/ ~CanWrite))
            /\ WF_vars(RunFunctor)
            /\ WF_vars(EndUser)
            /\ \A u \in Users : WF_vars(UserFinish(u))
            /\ WF_vars(ServerRemove)

FairSpec == Spec /\ Fairness

-----------------------------------------------------------------------------
(* Properties.                                                             *)

\* The type invariant; write events are asked for only while there is output,
\* and only of a channel in the epoll set or one that left the poller after
\* the connection went down (TcpConnection.cc:118-134, 185-207).
TypeOK ==
  /\ state \in {"connecting", "connected", "disconnecting", "disconnected"}
  /\ reading \in BOOLEAN /\ writing \in BOOLEAN
  /\ index \in {"new", "added", "deleted"}
  /\ sndShut \in BOOLEAN
  /\ peer \in {"open", "closed", "reset"}
  /\ soError \in BOOLEAN
  /\ loopPc \in {"poll", "close", "read", "write", "swap", "run"}
  /\ inUser \in BOOLEAN
  /\ revents \subseteq {"IN", "OUT", "HUP", "ERR"}
  /\ batchRef \in BOOLEAN /\ inMap \in BOOLEAN
  /\ writing => output # << >>
  /\ writing => index = "added" \/ downs > 0
  /\ loopPc \in {"poll", "close", "swap"} => ~inUser

\* Other threads send, or they shut down, but not both.
OneKindOfCall ==
  \A u, v \in Users : ~("send" \in calls[u] /\ "shutdown" \in calls[v])

\* The user is told once that the connection is up, then at most once that it
\* is down, and it has been told when the channel leaves the poller; shown for
\* users that send or shut down from other threads, but not both
\* (TcpConnection.cc:152-169, 210-218; Channel.cc:60-82).
DownOnce ==
  /\ downs <= ups /\ ups <= 1
  /\ ups = 1 /\ index = "new" => downs = 1

\* What the kernel took followed by what is buffered is what sendInLoop()
\* accepted: no partial write, drained or direct, loses, repeats or swaps
\* data (TcpConnection.cc:91-134, 185-192).
StreamInOrder == wire \o output = stream

\* Until the connection goes down, output is buffered exactly while the poller
\* watches the socket for room to write: output cannot be forgotten and the
\* loop cannot spin (TcpConnection.cc:112-134, 191-192).
OutputIsWatched ==
  downs = 0 => /\ output # << >> <=> writing
               /\ writing => index = "added"

\* FIN follows the last unit: the write side is shut down only when nothing is
\* buffered, and nothing is buffered after it (TcpConnection.cc:136-149,
\* 199-201).
FinAfterData == sndShut /\ downs = 0 => output = << >>

\* When its last owner lets go of the connection, the poller has forgotten the
\* channel that dies with it (TcpConnection.cc:162-169, TcpServer.cc:107-116,
\* EPollPoller.cc:82-95).
FreedIsRemoved == Freed => index = "new"

\* A shutdown() that found the connection up ends in a FIN, unless the
\* connection goes down first (TcpConnection.cc:136-149, 199-201).
ShutdownCompletes == state = "disconnecting" ~> sndShut \/ downs > 0

\* A peer that closes or resets makes the server forget the connection
\* (TcpConnection.cc:171-184, 210-218, TcpServer.cc:101-116).
CloseCompletes == peer # "open" ~> ~inMap

\* The comment at TcpConnection.cc:84 says that nothing is sent once the
\* connection's shutdown has been called; here, once it has taken effect.
NoSendAfterShutdown ==
  ~ /\ loopPc = "run" /\ ~inUser
    /\ functors # << >> /\ Head(functors).op = "send"
    /\ state # "disconnected" /\ MayWriteAtOnce
    /\ sndShut
=============================================================================

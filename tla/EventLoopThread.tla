-------------------------- MODULE EventLoopThread --------------------------
(***************************************************************************)
(* EventLoopThread: the owner starts a thread, waits for the EventLoop     *)
(* that lives on that thread's stack, uses it, and in the destructor quits *)
(* the loop and joins the thread.  The loop itself is the module EventLoop *)
(* with the owner as its only caller; this module says when each of its    *)
(* actions is possible, and adds the handshake around it.                  *)
(*                                                                         *)
(* The constant MayQuit is the set of threads that call quit() apart from  *)
(* the destructor.  Nothing in the repository does, so it is empty except  *)
(* where a run asks what happens otherwise.                                *)
(***************************************************************************)
EXTENDS EventLoop

CONSTANTS Owner,        \* the thread that owns the EventLoopThread
          MayQuit       \* threads that call quit() as a user of the loop

ASSUME OwnerAssumption == Callers = {Owner} /\ MayQuit \subseteq Threads

VARIABLES ownerPc,      \* where the owner is in startLoop() and ~EventLoopThread()
          threadPc,     \* where the thread is in threadFunc()
          published     \* loop_ # nullptr

handshakeVars == <<ownerPc, threadPc, published>>
threadVars == <<vars, handshakeVars>>

\* The EventLoop is a local variable of threadFunc().
Alive == threadPc \in {"callback", "loop", "cleared"}

ThreadInit ==
  /\ Init
  /\ ownerPc = "idle"
  /\ threadPc = "none"
  /\ published = FALSE

-----------------------------------------------------------------------------
(* The owner.                                                              *)

\* thread_.start() returns when the new thread runs.
StartLoop ==
  /\ ownerPc = "idle"
  /\ ownerPc' = "lock"
  /\ threadPc' = "callback"
  /\ UNCHANGED <<vars, published>>

\* Variant: startLoop() does not wait.
AwaitLoop_NoWait ==
  /\ ownerPc = "lock"
  /\ ownerPc' = "running"
  /\ UNCHANGED <<vars, threadPc, published>>

\* while (loop_ == nullptr) cond_.wait(lock);
AwaitLoop ==
  /\ ownerPc = "lock"
  /\ ownerPc' = IF published THEN "running" ELSE "wait"
  /\ UNCHANGED <<vars, threadPc, published>>

SpuriousWakeup ==
  /\ ownerPc = "wait"
  /\ ownerPc' = "lock"
  /\ UNCHANGED <<vars, threadPc, published>>

\* The destructor reads loop_ without the mutex; if it is null, the Thread is
\* left alone or detached.
Destroy ==
  /\ ownerPc \in {"idle", "running"}
  /\ Owner \notin waking
  /\ ownerPc' = IF published THEN "quit" ELSE "gone"
  /\ UNCHANGED <<vars, threadPc, published>>

\* Variant: the destructor sets the flag only.
QuitLoop_NoWakeup ==
  /\ ownerPc = "quit"
  /\ published
  /\ quit' = TRUE
  /\ ownerPc' = "join"
  /\ UNCHANGED <<loopPc, calling, wakeupFd, active, functors, pending, waking,
                 historyVars, threadPc, published>>

\* It reads loop_ again and calls quit() on it ...
QuitLoop ==
  /\ ownerPc = "quit"
  /\ published
  /\ Quit(Owner)
  /\ ownerPc' = "join"
  /\ UNCHANGED <<threadPc, published>>

\* Variant: the destructor does not wait for the thread.
Join_Detach ==
  /\ ownerPc = "join"
  /\ Owner \notin waking
  /\ ownerPc' = "gone"
  /\ UNCHANGED <<vars, threadPc, published>>

\* ... and joins the thread once quit() has returned.
Join ==
  /\ ownerPc = "join"
  /\ Owner \notin waking
  /\ threadPc = "exited"
  /\ ownerPc' = "gone"
  /\ UNCHANGED <<vars, threadPc, published>>

-----------------------------------------------------------------------------
(* threadFunc().                                                           *)

\* Variant: the owner is not notified.
Publish_NoNotify ==
  /\ threadPc = "callback"
  /\ threadPc' = "loop"
  /\ published' = TRUE
  /\ UNCHANGED <<vars, ownerPc>>

\* The initialisation callback has returned: publish the loop, notify.
Publish ==
  /\ threadPc = "callback"
  /\ threadPc' = "loop"
  /\ published' = TRUE
  /\ ownerPc' = IF ownerPc = "wait" THEN "lock" ELSE ownerPc
  /\ UNCHANGED vars

\* Variant: loop_ keeps pointing to the destroyed loop.
Unpublish_KeepPointer ==
  /\ threadPc = "loop"
  /\ loopPc = "stopped"
  /\ threadPc' = "cleared"
  /\ UNCHANGED <<vars, ownerPc, published>>

\* loop() has returned.
Unpublish ==
  /\ threadPc = "loop"
  /\ loopPc = "stopped"
  /\ threadPc' = "cleared"
  /\ published' = FALSE
  /\ UNCHANGED <<vars, ownerPc>>

\* The end of threadFunc() destroys the EventLoop.
Exit ==
  /\ threadPc = "cleared"
  /\ threadPc' = "exited"
  /\ UNCHANGED <<vars, ownerPc, published>>

-----------------------------------------------------------------------------
(* The loop.                                                               *)

\* User code has the loop: the owner between startLoop() and the destructor,
\* the loop's own thread in the initialisation callback and inside loop().
HasLoop(t) == \/ t = Owner /\ ownerPc = "running"
              \/ t = Loop /\ threadPc = "callback"
              \/ t = Loop /\ threadPc = "loop" /\ loopPc # "init"

UserCall(t) ==
  /\ HasLoop(t)
  /\ \/ \E f \in Tasks : QueueInLoop(t, f) \/ RunInLoop(t, f)
     \/ t \in MayQuit /\ Quit(t)
  /\ UNCHANGED handshakeVars

FinishCall(t) == Wakeup(t) /\ UNCHANGED handshakeVars

LoopProgress == threadPc = "loop" /\ Progress /\ UNCHANGED handshakeVars
LoopPoll == threadPc = "loop" /\ PollReturn /\ UNCHANGED handshakeVars
LoopTimeout == threadPc = "loop" /\ PollTimeout /\ UNCHANGED handshakeVars

\* The destructor has returned and the thread has ended.
Terminated == /\ ownerPc = "gone"
              /\ threadPc \in {"none", "exited"}
              /\ UNCHANGED threadVars

OwnerStep == AwaitLoop \/ QuitLoop \/ Join
ThreadStep == Publish \/ Unpublish \/ Exit

ThreadNext == \/ StartLoop
        \/ SpuriousWakeup
        \/ Destroy
        \/ OwnerStep
        \/ ThreadStep
        \/ \E t \in Threads : UserCall(t) \/ FinishCall(t)
        \/ LoopProgress
        \/ LoopPoll
        \/ LoopTimeout
        \/ Terminated

ThreadSpec == ThreadInit /\ [][ThreadNext]_threadVars

\* As in EventLoop; and both threads are scheduled.  Nobody has to start the
\* loop or to destroy the object, and no wait ends without a notification.
ThreadFairness == /\ WF_threadVars(OwnerStep)
            /\ WF_threadVars(ThreadStep)
            /\ WF_threadVars(LoopProgress)
            /\ WF_threadVars(wakeupFd /\ LoopPoll)
            /\ \A t \in Threads : WF_threadVars(FinishCall(t))

FairThreadSpec == ThreadSpec /\ ThreadFairness

-----------------------------------------------------------------------------
(* Properties.                                                             *)

\* The type invariant of the handshake; it ties loop_ to the stretch of
\* threadFunc() in which the loop may be used, and what the loop thread does
\* to that stretch (EventLoopThread.cc:46-63).
ThreadTypeOK ==
  /\ TypeOK
  /\ ownerPc \in {"idle", "lock", "wait", "running", "quit", "join", "gone"}
  /\ threadPc \in {"none", "callback", "loop", "cleared", "exited"}
  /\ published \in BOOLEAN
  /\ published <=> threadPc = "loop"
  /\ threadPc \in {"none", "callback"} => loopPc = "init"
  /\ threadPc \in {"cleared", "exited"} => loopPc = "stopped"
  /\ ownerPc = "idle" => threadPc = "none"

\* Between the return of startLoop() and the quit() of the destructor, the
\* loop the owner holds is initialised, published and alive, provided that
\* nobody but the destructor quits it (EventLoopThread.cc:15-43); after the
\* destructor the thread is over, and does not outlive the object whose
\* members it uses (EventLoopThread.cc:15-21, 61-62).
OwnedLoopIsAlive ==
  MayQuit = {} =>
    /\ ownerPc \in {"running", "quit"} => published /\ Alive
    /\ ownerPc = "gone" => threadPc \in {"none", "exited"}

\* The owner is not stuck: startLoop() returns, for the notification cannot be
\* missed (EventLoopThread.cc:34-41, 53-57), and the destructor returns if its
\* quit() came after loop() had begun (15-21, EventLoop.cc:68-101).
OwnerReturns ==
  /\ ownerPc \in {"lock", "wait"} ~> ownerPc = "running"
  /\ (ownerPc = "join" /\ quit /\ loopPc # "init") ~> ownerPc = "gone"

\* What EventLoop.cc:93-97 says of quit(): called by another thread, it ends
\* the loop, so that the join after it returns.
QuitEndsLoop == ownerPc = "join" ~> ownerPc = "gone"

\* What EventLoop.cc:97-100 takes for granted: the loop that quit() wakes up
\* still exists when quit() gets to wakeup().
QuitWakesLiveLoop == waking # {} => Alive
=============================================================================

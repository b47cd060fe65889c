----------------------------- MODULE EventLoop -----------------------------
(***************************************************************************)
(* mymuduo's EventLoop: one thread polls file descriptors, runs the        *)
(* callbacks of the active ones, then runs the functors that any thread    *)
(* queued for it.  Other threads interrupt the poll by writing to an       *)
(* eventfd.  A call of queueInLoop() or quit() takes two steps, as in the  *)
(* code: the queue or the flag changes first, and only then, without any   *)
(* lock, is the eventfd written.                                           *)
(*                                                                         *)
(* The file descriptors other than the eventfd are one source of events,   *)
(* "io", that may be ready at any time.  A functor is a task that is       *)
(* handed over once; what it does, apart from calling this loop again, is  *)
(* left out.                                                               *)
(***************************************************************************)
EXTENDS Naturals, Sequences, Functions

CONSTANTS Callers,      \* the threads that hold a pointer to the loop
          Loop,         \* the thread that created the loop and runs it
          Tasks         \* functors, each of them handed over at most once

ASSUME LoopAssumption == Loop \notin Callers

Threads == Callers \cup {Loop}

VARIABLES loopPc,       \* where the loop thread is in EventLoop::loop()
          quit,         \* quit_
          calling,      \* callingPendingFunctors_
          wakeupFd,     \* is wakeupFd_ readable (its counter above zero)?
          active,       \* activeChannels_ that are not handled yet
          functors,     \* the swapped-out vector, its head is being run
          pending,      \* pendingFunctors_
          waking,       \* threads that are about to call wakeup()
          accepted,     \* history: the tasks queued, in order
          ran,          \* history: the queued tasks executed, in order
          early,        \* history: queued by Loop itself before loop()
          direct        \* history: run at once by runInLoop()

loopVars == <<loopPc, quit, calling, wakeupFd, active, functors>>
historyVars == <<accepted, ran, early, direct>>
vars == <<loopPc, quit, calling, wakeupFd, active, functors, pending, waking,
          accepted, ran, early, direct>>

Init ==
  /\ loopPc = "init"
  /\ quit = FALSE
  /\ calling = FALSE
  /\ wakeupFd = FALSE
  /\ active = {}
  /\ functors = << >>
  /\ pending = << >>
  /\ waking = {}
  /\ accepted = << >>
  /\ ran = << >>
  /\ early = {}
  /\ direct = {}

-----------------------------------------------------------------------------
(* The calls any thread may make.                                          *)

\* A thread is free to call when it is not inside a call already.  The loop
\* thread runs user code before loop(), in an I/O callback and in a functor.
CanCall(t) ==
  /\ t \notin waking
  /\ \/ t \in Callers
     \/ /\ t = Loop
        /\ \/ loopPc = "init"
           \/ loopPc = "handle" /\ "io" \in active
           \/ loopPc = "run" /\ functors # << >>

NotHandedOver(f) == f \notin Range(accepted) \cup direct

\* Variants: the two halves of that test, each without the other.
MustWakeup_OthersOnly(t) == t # Loop
MustWakeup_CallingOnly(t) == calling

\* After the unlock the caller decides whether the loop has to be woken up.
\* callingPendingFunctors_ is written by the loop thread only, so its value
\* cannot change before that thread reads it here.
MustWakeup(t) == t # Loop \/ calling

QueueInLoop(t, f) ==
  /\ CanCall(t)
  /\ NotHandedOver(f)
  /\ pending' = Append(pending, f)
  /\ waking' = IF MustWakeup(t) THEN waking \cup {t} ELSE waking
  /\ accepted' = Append(accepted, f)
  /\ early' = IF t = Loop /\ loopPc = "init" THEN early \cup {f} ELSE early
  /\ UNCHANGED <<loopVars, ran, direct>>

\* In the loop thread runInLoop() runs the functor at once; anywhere else it
\* is queueInLoop().
RunInLoop(t, f) ==
  \/ t # Loop /\ QueueInLoop(t, f)
  \/ /\ t = Loop
     /\ CanCall(t)
     /\ NotHandedOver(f)
     /\ direct' = direct \cup {f}
     /\ UNCHANGED <<loopVars, pending, waking, accepted, ran, early>>

\* Variants: quit() wakes the loop up only if functors are running, as the
\* loop thread's own queueInLoop() does; it relies on the poll timeout.
Quit_CallingOnly(t) ==
  /\ CanCall(t)
  /\ quit' = TRUE
  /\ waking' = IF calling THEN waking \cup {t} ELSE waking
  /\ UNCHANGED <<loopPc, calling, wakeupFd, active, functors, pending,
                 historyVars>>

Quit_NoWakeup(t) ==
  /\ CanCall(t)
  /\ quit' = TRUE
  /\ UNCHANGED <<loopPc, calling, wakeupFd, active, functors, pending, waking,
                 historyVars>>

Quit(t) ==
  /\ CanCall(t)
  /\ quit' = TRUE
  /\ waking' = IF t # Loop THEN waking \cup {t} ELSE waking
  /\ UNCHANGED <<loopPc, calling, wakeupFd, active, functors, pending,
                 historyVars>>

\* The write() to the eventfd that ends queueInLoop() and quit().
Wakeup(t) ==
  /\ t \in waking
  /\ wakeupFd' = TRUE
  /\ waking' = waking \ {t}
  /\ UNCHANGED <<loopPc, quit, calling, active, functors, pending,
                 historyVars>>

-----------------------------------------------------------------------------
(* The loop thread.  It takes no step of loop() while a call it made from  *)
(* a callback has not returned.                                            *)

Returned == Loop \notin waking

Enter ==
  /\ loopPc = "init"
  /\ Returned
  /\ loopPc' = "check"
  /\ quit' = FALSE
  /\ UNCHANGED <<calling, wakeupFd, active, functors, pending, waking,
                 historyVars>>

CheckQuit ==
  /\ loopPc = "check"
  /\ loopPc' = IF quit THEN "stopped" ELSE "poll"
  /\ UNCHANGED <<quit, calling, wakeupFd, active, functors, pending, waking,
                 historyVars>>

Ready == IF wakeupFd THEN {"io", "wakeup"} ELSE {"io"}

\* epoll_wait() is level-triggered; it returns some of the ready channels,
\* or none of them after kPollTimeMs or a signal.
PollReturn ==
  /\ loopPc = "poll"
  /\ \E events \in (SUBSET Ready) \ {{}} : active' = events
  /\ loopPc' = "handle"
  /\ UNCHANGED <<quit, calling, wakeupFd, functors, pending, waking,
                 historyVars>>

\* Variant: a poll without events skips doPendingFunctors().
PollTimeout_SkipFunctors ==
  /\ loopPc = "poll"
  /\ loopPc' = "check"
  /\ UNCHANGED <<quit, calling, wakeupFd, active, functors, pending, waking,
                 historyVars>>

PollTimeout ==
  /\ loopPc = "poll"
  /\ loopPc' = "handle"
  /\ UNCHANGED <<quit, calling, wakeupFd, active, functors, pending, waking,
                 historyVars>>

\* The read callback of the wakeup channel reads the eventfd down to zero.
HandleRead ==
  /\ loopPc = "handle"
  /\ Returned
  /\ "wakeup" \in active
  /\ wakeupFd' = FALSE
  /\ active' = active \ {"wakeup"}
  /\ UNCHANGED <<loopPc, quit, calling, functors, pending, waking,
                 historyVars>>

\* The callbacks of the other channels return.
HandleEvent ==
  /\ loopPc = "handle"
  /\ Returned
  /\ "io" \in active
  /\ active' = active \ {"io"}
  /\ UNCHANGED <<loopPc, quit, calling, wakeupFd, functors, pending, waking,
                 historyVars>>

\* Variant: the queue is copied, not swapped.
SwapPendingFunctors_Copy ==
  /\ loopPc = "handle"
  /\ Returned
  /\ active = {}
  /\ loopPc' = "run"
  /\ calling' = TRUE
  /\ functors' = pending
  /\ UNCHANGED <<quit, wakeupFd, active, pending, waking, historyVars>>

\* doPendingFunctors() up to the end of its critical section.
SwapPendingFunctors ==
  /\ loopPc = "handle"
  /\ Returned
  /\ active = {}
  /\ loopPc' = "run"
  /\ calling' = TRUE
  /\ functors' = pending
  /\ pending' = << >>
  /\ UNCHANGED <<quit, wakeupFd, active, waking, historyVars>>

\* Variant: functors are taken from the back.
FinishFunctor_Last ==
  /\ loopPc = "run"
  /\ Returned
  /\ functors # << >>
  /\ functors' = SubSeq(functors, 1, Len(functors) - 1)
  /\ ran' = Append(ran, functors[Len(functors)])
  /\ UNCHANGED <<loopPc, quit, calling, wakeupFd, active, pending, waking,
                 accepted, early, direct>>

\* The functor at the head returns.
FinishFunctor ==
  /\ loopPc = "run"
  /\ Returned
  /\ functors # << >>
  /\ functors' = Tail(functors)
  /\ ran' = Append(ran, Head(functors))
  /\ UNCHANGED <<loopPc, quit, calling, wakeupFd, active, pending, waking,
                 accepted, early, direct>>

\* Variant: callingPendingFunctors_ is not reset.
FinishFunctors_NoReset ==
  /\ loopPc = "run"
  /\ functors = << >>
  /\ Returned
  /\ loopPc' = "check"
  /\ UNCHANGED <<quit, calling, wakeupFd, active, functors, pending, waking,
                 historyVars>>

FinishFunctors ==
  /\ loopPc = "run"
  /\ functors = << >>
  /\ Returned
  /\ loopPc' = "check"
  /\ calling' = FALSE
  /\ UNCHANGED <<quit, wakeupFd, active, functors, pending, waking,
                 historyVars>>

-----------------------------------------------------------------------------
Call(t) == \/ \E f \in Tasks : QueueInLoop(t, f) \/ RunInLoop(t, f)
           \/ Quit(t)

\* What the loop thread does by itself, a poll without the eventfd aside.
Progress == \/ Enter
            \/ CheckQuit
            \/ HandleRead
            \/ HandleEvent
            \/ SwapPendingFunctors
            \/ FinishFunctor
            \/ FinishFunctors

Next == \/ \E t \in Threads : Call(t) \/ Wakeup(t)
        \/ Progress
        \/ PollReturn
        \/ PollTimeout

Spec == Init /\ [][Next]_vars

\* The scheduler runs every thread and callbacks return.  A poll returns when
\* the eventfd is readable; nothing is assumed about timeouts, about other
\* file descriptors, or about anybody ever calling.
Fairness == /\ WF_vars(Progress)
            /\ WF_vars(wakeupFd /\ PollReturn)
            /\ \A t \in Threads : WF_vars(Wakeup(t))

FairSpec == Spec /\ Fairness

-----------------------------------------------------------------------------
(* Properties.                                                             *)

\* The type invariant, with what ties the loop thread's place to its data:
\* callingPendingFunctors_ is true exactly while functors run, there is no
\* swapped-out vector at any other time, the active channels are all handled
\* when the dispatch is over, and the loop thread is inside wakeup() only in
\* a functor (EventLoop.cc:74-87, 121-123, 147-161).
TypeOK ==
  /\ loopPc \in {"init", "check", "poll", "handle", "run", "stopped"}
  /\ quit \in BOOLEAN
  /\ calling \in BOOLEAN
  /\ wakeupFd \in BOOLEAN
  /\ active \subseteq {"wakeup", "io"}
  /\ functors \in Seq(Tasks)
  /\ pending \in Seq(Tasks)
  /\ waking \subseteq Threads
  /\ accepted \in Seq(Tasks)
  /\ ran \in Seq(Tasks)
  /\ early \subseteq Tasks
  /\ direct \subseteq Tasks
  /\ calling <=> loopPc = "run"
  /\ loopPc # "run" => functors = << >>
  /\ loopPc # "handle" => active = {}
  /\ Loop \in waking => loopPc = "run" /\ functors # << >>

\* Tasks that somebody queued and that are owed a wakeup: all but those the
\* loop thread queued for itself before it called loop().
Owed == Range(pending) \ early

\* The wakeup protocol: while the loop thread is not about to swap the queue,
\* an owed task implies that the eventfd is readable or soon will be.  The
\* test in queueInLoop() skips the wakeup in the loop thread's I/O callbacks;
\* this is what it must not break (EventLoop.cc:113-124, 147-161).
NoLostWakeup ==
  loopPc # "handle" /\ Owed # {} => wakeupFd \/ waking # {}

\* A loop that goes to sleep with quit_ set is going to be woken up
\* (EventLoop.cc:74, 94-101).
NoLostQuit ==
  loopPc = "poll" /\ quit => wakeupFd \/ waking # {}

\* Queued tasks are executed in the order of their acceptance, none is lost
\* and none runs twice, across any number of swaps and of calls made by the
\* tasks themselves (EventLoop.cc:113-117, 147-158).
Fifo == accepted = ran \o functors \o pending

\* Every owed task is executed, unless the loop stops first; the poll timeout
\* is not needed for it (EventLoop.cc:112-124).  A task the loop thread queued
\* before loop() is owed nothing: it needs the poll timeout or some other
\* event, but no more than that (EventLoop.cc:121, EventLoopThread.cc:49-51).
QueuedTasksRun ==
  LET Runs(f) == f \in Range(ran) \/ loopPc = "stopped" IN
  \A f \in Tasks : /\ f \in Owed ~> Runs(f)
                   /\ WF_vars(PollTimeout) => (f \in early ~> Runs(f))

\* Once loop() has been entered, quit() ends it, whichever thread calls
\* (EventLoop.cc:74, 93-101).
QuitStops == (quit /\ loopPc # "init") ~> loopPc = "stopped"

\* The loop implements the abstract executor: the queue is what was swapped
\* out and not run yet, followed by what is pending.
Executor == INSTANCE SerialExecutor
              WITH queue <- functors \o pending,
                   done <- ran,
                   open <- loopPc # "stopped"

ExecutorSpec == Executor!Spec
=============================================================================

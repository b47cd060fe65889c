-------------------------- MODULE EventLoopProofs --------------------------
(***************************************************************************)
(* Proofs about EventLoop, for any set of calling threads and of functors: *)
(* type correctness, no lost wakeup, no lost quit, first in first out, and *)
(* that the loop implements SerialExecutor.  Then about EventLoopThread:   *)
(* type correctness of the handshake, and, if nobody but the destructor    *)
(* calls quit(), that the owner only uses a loop that is alive and that    *)
(* the thread does not outlive the object that owns it.                    *)
(***************************************************************************)
EXTENDS EventLoopThread, SequenceTheorems, TLAPS

\* Appending one element adds it to the range, nothing else.
LEMMA RangeOfAppend ==
  ASSUME NEW S, NEW s \in Seq(S), NEW e \in S
  PROVE  Range(Append(s, e)) = Range(s) \cup {e}
<1>1. <<e>> \in Seq(S) /\ Append(s, e) = s \o <<e>>
  BY AppendIsConcat
<1>2. Range(s \o <<e>>) = Range(s) \cup Range(<<e>>)
  BY <1>1, RangeConcatenation
<1>3. Range(<<e>>) = {e}
  BY DEF Range
<1> QED BY <1>1, <1>2, <1>3

\* A sequence is its head followed by its tail.
LEMMA HeadThenTail ==
  ASSUME NEW S, NEW s \in Seq(S), s # << >>
  PROVE  /\ Head(s) \in S
         /\ Tail(s) \in Seq(S)
         /\ s = <<Head(s)>> \o Tail(s)
<1>1. Head(s) \in S /\ Tail(s) \in Seq(S) /\ Len(Tail(s)) = Len(s) - 1
      /\ \A i \in 1 .. Len(Tail(s)) : Tail(s)[i] = s[i+1]
  BY HeadTailProperties
<1>2. <<Head(s)>> \in Seq(S) /\ Len(<<Head(s)>>) = 1
      /\ <<Head(s)>>[1] = s[1]
  BY <1>1
<1> DEFINE c == <<Head(s)>> \o Tail(s)
<1>3. /\ c \in Seq(S)
      /\ Len(c) = 1 + Len(Tail(s))
      /\ \A i \in 1 .. 1 + Len(Tail(s)) :
           c[i] = IF i <= 1 THEN <<Head(s)>>[i] ELSE Tail(s)[i - 1]
  BY <1>1, <1>2, ConcatProperties
<1>4. Len(s) \in Nat \ {0}
  BY EmptySeq
<1>5. Len(c) = Len(s)
  BY <1>1, <1>3, <1>4
<1>6. ASSUME NEW i \in 1 .. Len(s) PROVE s[i] = c[i]
  <2>1. CASE i = 1
    BY <2>1, <1>2, <1>3, <1>4, <1>5
  <2>2. CASE i # 1
    <3>1. i - 1 \in 1 .. Len(Tail(s)) /\ i \in 1 .. 1 + Len(Tail(s))
      BY <2>2, <1>1, <1>4
    <3>2. Tail(s)[i - 1] = s[(i - 1) + 1]
      BY <3>1, <1>1
    <3>3. c[i] = Tail(s)[i - 1]
      BY <2>2, <3>1, <1>3
    <3> QED BY <3>2, <3>3
  <2> QED BY <2>1, <2>2
<1> HIDE DEF c
<1>7. s = c
  BY <1>3, <1>5, <1>6, SeqEqual
<1> QED BY <1>1, <1>7 DEF c

\* A sequence that starts with e has the head e.
LEMMA HeadOfCons ==
  ASSUME NEW S, NEW e \in S, NEW s \in Seq(S), NEW q, q = <<e>> \o s
  PROVE  q # << >> /\ Head(q) = e /\ Tail(q) = s
<1>1. <<e>> \in Seq(S) /\ Len(<<e>>) = 1 /\ <<e>>[1] = e
  OBVIOUS
<1>2. /\ q \in Seq(S)
      /\ Len(q) = 1 + Len(s)
      /\ \A i \in 1 .. 1 + Len(s) :
           q[i] = IF i <= 1 THEN <<e>>[i] ELSE s[i - 1]
  BY <1>1, ConcatProperties
<1>3. Len(s) \in Nat /\ q # << >>
  BY <1>2, LenProperties, EmptySeq
<1>4. Head(q) = e
  BY <1>1, <1>2, <1>3
<1>5. /\ Tail(q) \in Seq(S)
      /\ Len(Tail(q)) = Len(s)
      /\ \A i \in 1 .. Len(s) : Tail(q)[i] = q[i + 1]
  BY <1>2, <1>3, HeadTailProperties
<1>6. \A i \in 1 .. Len(s) : Tail(q)[i] = s[i]
  BY <1>2, <1>3, <1>5
<1>7. Tail(q) = s
  BY <1>5, <1>6, SeqEqual
<1> QED BY <1>3, <1>4, <1>7

-----------------------------------------------------------------------------
(* Type correctness.                                                       *)

\* The initial state has the type of the variables.
LEMMA InitTypeOK == Init => TypeOK
BY EmptySeq DEF Init, TypeOK, Threads

\* Every step keeps the type invariant: one step of the proof per action.
LEMMA NextTypeOK == TypeOK /\ [Next]_vars => TypeOK'
<1> SUFFICES ASSUME TypeOK, [Next]_vars PROVE TypeOK'
  OBVIOUS
<1> USE LoopAssumption DEF TypeOK, Threads
<1>1. ASSUME NEW t \in Threads, NEW f \in Tasks, QueueInLoop(t, f)
      PROVE  TypeOK'
  <2>1. pending' \in Seq(Tasks) /\ accepted' \in Seq(Tasks)
    BY <1>1, AppendProperties DEF QueueInLoop
  <2> QED
    BY <1>1, <2>1 DEF QueueInLoop, CanCall, MustWakeup, loopVars
<1>2. ASSUME NEW t \in Threads, NEW f \in Tasks, RunInLoop(t, f)
      PROVE  TypeOK'
  <2>1. CASE QueueInLoop(t, f)
    BY <1>1, <2>1
  <2>2. CASE ~QueueInLoop(t, f)
    <3>1. /\ direct' = direct \cup {f}
          /\ UNCHANGED <<loopVars, pending, waking, accepted, ran, early>>
      BY <1>2, <2>2 DEF RunInLoop
    <3> QED BY <3>1 DEF loopVars
  <2> QED BY <2>1, <2>2
<1>3. ASSUME NEW t \in Threads, Quit(t) PROVE TypeOK'
  BY <1>3 DEF Quit, CanCall, historyVars
<1>4. ASSUME NEW t \in Threads, Wakeup(t) PROVE TypeOK'
  BY <1>4 DEF Wakeup, historyVars
<1>5. CASE Enter
  BY <1>5 DEF Enter, historyVars, Returned
<1>6. CASE CheckQuit
  BY <1>6 DEF CheckQuit, historyVars
<1>7. CASE PollReturn
  BY <1>7 DEF PollReturn, historyVars, Ready
<1>8. CASE PollTimeout
  BY <1>8 DEF PollTimeout, historyVars
<1>9. CASE HandleRead
  BY <1>9 DEF HandleRead, historyVars, Returned
<1>10. CASE HandleEvent
  BY <1>10 DEF HandleEvent, historyVars, Returned
<1>11. CASE SwapPendingFunctors
  BY <1>11, EmptySeq DEF SwapPendingFunctors, historyVars, Returned
<1>12. CASE FinishFunctor
  <2>1. functors' \in Seq(Tasks) /\ ran' \in Seq(Tasks)
    BY <1>12, HeadThenTail, AppendProperties DEF FinishFunctor
  <2> QED BY <1>12, <2>1 DEF FinishFunctor, Returned
<1>13. CASE FinishFunctors
  BY <1>13 DEF FinishFunctors, historyVars, Returned
<1>14. CASE UNCHANGED vars
  BY <1>14 DEF vars
<1> QED
  BY <1>1, <1>2, <1>3, <1>4, <1>5, <1>6, <1>7, <1>8, <1>9, <1>10, <1>11,
     <1>12, <1>13, <1>14 DEF Next, Call, Progress

\* The type invariant, with the flag callingPendingFunctors_, the swapped-out
\* vector and the active channels tied to the loop thread's place in loop(),
\* holds in every reachable state (EventLoop.cc:74-87, 147-161).
THEOREM TypeCorrect == Spec => []TypeOK
BY InitTypeOK, NextTypeOK, PTL DEF Spec

-----------------------------------------------------------------------------
(* The wakeup protocol.                                                    *)

\* NoLostWakeup is inductive relative to the type invariant: a call that adds
\* an owed task without announcing a wakeup is made in an I/O callback, and
\* the eventfd is read only there, before the swap.
LEMMA NextNoLostWakeup ==
  TypeOK /\ NoLostWakeup /\ [Next]_vars => NoLostWakeup'
<1> SUFFICES ASSUME TypeOK, NoLostWakeup, [Next]_vars PROVE NoLostWakeup'
  OBVIOUS
<1> USE LoopAssumption DEF TypeOK, NoLostWakeup, Threads
<1>1. ASSUME NEW t \in Threads, NEW f \in Tasks, QueueInLoop(t, f)
      PROVE  NoLostWakeup'
  <2>1. CASE MustWakeup(t)
    BY <1>1, <2>1 DEF QueueInLoop
  <2>2. CASE ~MustWakeup(t) /\ loopPc = "init"
    <3>1. t = Loop /\ waking' = waking
      BY <1>1, <2>2 DEF QueueInLoop, MustWakeup
    <3>2. Range(pending') = Range(pending) \cup {f} /\ early' = early \cup {f}
      BY <1>1, <2>2, <3>1, RangeOfAppend DEF QueueInLoop
    <3>3. Owed' \subseteq Owed
      BY <3>2 DEF Owed
    <3> QED BY <1>1, <3>1, <3>3 DEF QueueInLoop, loopVars
  <2>3. CASE ~MustWakeup(t) /\ loopPc # "init"
    <3>1. loopPc' = "handle"
      BY <1>1, <2>3 DEF QueueInLoop, MustWakeup, CanCall, loopVars
    <3> QED BY <3>1
  <2> QED BY <2>1, <2>2, <2>3
<1>2. ASSUME NEW t \in Threads, NEW f \in Tasks, RunInLoop(t, f)
      PROVE  NoLostWakeup'
  BY <1>1, <1>2 DEF RunInLoop, loopVars, Owed
<1>3. ASSUME NEW t \in Threads, Quit(t) PROVE NoLostWakeup'
  BY <1>3 DEF Quit, historyVars, Owed
<1>4. ASSUME NEW t \in Threads, Wakeup(t) PROVE NoLostWakeup'
  BY <1>4 DEF Wakeup
<1>5. CASE Enter
  BY <1>5 DEF Enter, historyVars, Owed
<1>6. CASE CheckQuit
  BY <1>6 DEF CheckQuit, historyVars, Owed
<1>7. CASE PollReturn
  BY <1>7 DEF PollReturn
<1>8. CASE PollTimeout
  BY <1>8 DEF PollTimeout
<1>9. CASE HandleRead
  BY <1>9 DEF HandleRead
<1>10. CASE HandleEvent
  BY <1>10 DEF HandleEvent
<1>11. CASE SwapPendingFunctors
  <2>1. Range(<< >>) = {}
    BY DEF Range
  <2> QED BY <1>11, <2>1 DEF SwapPendingFunctors, Owed
<1>12. CASE FinishFunctor
  BY <1>12 DEF FinishFunctor, Owed
<1>13. CASE FinishFunctors
  BY <1>13 DEF FinishFunctors, historyVars, Owed
<1>14. CASE UNCHANGED vars
  BY <1>14 DEF vars, Owed
<1> QED
  BY <1>1, <1>2, <1>3, <1>4, <1>5, <1>6, <1>7, <1>8, <1>9, <1>10, <1>11,
     <1>12, <1>13, <1>14 DEF Next, Call, Progress

\* No wakeup is ever lost: outside of the dispatch of events, a queued task
\* that is owed a wakeup finds the eventfd readable or about to be
\* (EventLoop.cc:113-124).
THEOREM WakeupNotLost == Spec => []NoLostWakeup
<1>1. Init => NoLostWakeup
  <2>1. Range(<< >>) = {}
    BY DEF Range
  <2> QED BY <2>1 DEF Init, NoLostWakeup, Owed
<1>2. TypeOK /\ NoLostWakeup /\ [Next]_vars => NoLostWakeup'
  BY NextNoLostWakeup
<1> QED BY <1>1, <1>2, TypeCorrect, PTL DEF Spec

\* A loop thread that sleeps with quit_ set will be woken up, whichever thread
\* called quit() and whenever (EventLoop.cc:94-101).
THEOREM QuitNotLost == Spec => []NoLostQuit
<1>1. Init => NoLostQuit
  BY DEF Init, NoLostQuit
<1>2. TypeOK /\ NoLostQuit /\ [Next]_vars => NoLostQuit'
  <2> SUFFICES ASSUME TypeOK, NoLostQuit, [Next]_vars PROVE NoLostQuit'
    OBVIOUS
  <2> USE LoopAssumption DEF TypeOK, NoLostQuit, Threads
  <2>1. ASSUME NEW t \in Threads, NEW f \in Tasks, QueueInLoop(t, f)
        PROVE  NoLostQuit'
    BY <2>1 DEF QueueInLoop, loopVars
  <2>2. ASSUME NEW t \in Threads, NEW f \in Tasks, RunInLoop(t, f)
        PROVE  NoLostQuit'
    BY <2>1, <2>2 DEF RunInLoop, loopVars
  <2>3. ASSUME NEW t \in Threads, Quit(t) PROVE NoLostQuit'
    BY <2>3 DEF Quit, CanCall
  <2>4. ASSUME NEW t \in Threads, Wakeup(t) PROVE NoLostQuit'
    BY <2>4 DEF Wakeup
  <2>5. CASE Progress
    BY <2>5 DEF Progress, Enter, CheckQuit, HandleRead, HandleEvent,
                SwapPendingFunctors, FinishFunctor, FinishFunctors
  <2>6. CASE PollReturn \/ PollTimeout
    BY <2>6 DEF PollReturn, PollTimeout
  <2>7. CASE UNCHANGED vars
    BY <2>7 DEF vars
  <2> QED BY <2>1, <2>2, <2>3, <2>4, <2>5, <2>6, <2>7 DEF Next, Call
<1> QED BY <1>1, <1>2, TypeCorrect, PTL DEF Spec

-----------------------------------------------------------------------------
(* First in, first out.                                                    *)

\* Fifo is inductive relative to the type invariant; only three actions touch
\* the four sequences it relates.
LEMMA NextFifo == TypeOK /\ Fifo /\ [Next]_vars => Fifo'
<1> SUFFICES ASSUME TypeOK, Fifo, [Next]_vars PROVE Fifo'
  OBVIOUS
<1> DEFINE seqs == <<accepted, ran, functors, pending>>
<1>a. /\ accepted \in Seq(Tasks)
      /\ ran \in Seq(Tasks)
      /\ functors \in Seq(Tasks)
      /\ pending \in Seq(Tasks)
      /\ ran \o functors \in Seq(Tasks)
      /\ functors \o pending \in Seq(Tasks)
      /\ accepted = (ran \o functors) \o pending
  BY ConcatProperties DEF TypeOK, Fifo
<1>b. UNCHANGED seqs => Fifo'
  BY DEF Fifo
<1>1. ASSUME NEW t \in Threads, NEW f \in Tasks, QueueInLoop(t, f)
      PROVE  Fifo'
  <2>1. /\ pending' = pending \o <<f>>
        /\ accepted' = accepted \o <<f>>
        /\ ran' = ran /\ functors' = functors
    BY <1>1, <1>a, AppendIsConcat DEF QueueInLoop, loopVars
  <2>2. ((ran \o functors) \o pending) \o <<f>>
          = (ran \o functors) \o (pending \o <<f>>)
    <3>1. <<f>> \in Seq(Tasks)
      OBVIOUS
    <3> QED BY <3>1, <1>a, ConcatAssociative, SMTT(60)
  <2> QED BY <1>a, <2>1, <2>2 DEF Fifo
<1>2. ASSUME NEW t \in Threads, NEW f \in Tasks, RunInLoop(t, f)
      PROVE  Fifo'
  BY <1>1, <1>2, <1>b DEF RunInLoop, loopVars
<1>3. ASSUME NEW t \in Threads, Quit(t) \/ Wakeup(t) PROVE Fifo'
  BY <1>3, <1>b DEF Quit, Wakeup, historyVars
<1>4. CASE SwapPendingFunctors
  <2>1. /\ functors = << >>
        /\ functors' = pending
        /\ pending' = << >>
        /\ ran' = ran /\ accepted' = accepted
    BY <1>4 DEF SwapPendingFunctors, historyVars, TypeOK
  <2>2. ran \o functors = ran /\ ran \o pending \in Seq(Tasks)
    BY <2>1, <1>a, ConcatEmptySeq, ConcatProperties
  <2>3. (ran \o pending) \o << >> = ran \o pending
    BY <2>2, ConcatEmptySeq
  <2> QED BY <1>a, <2>1, <2>2, <2>3 DEF Fifo
<1>5. CASE FinishFunctor
  <2> DEFINE first == <<Head(functors)>>
             rest == Tail(functors)
  <2>1. /\ first \in Seq(Tasks) /\ rest \in Seq(Tasks)
        /\ functors = first \o rest
    BY <1>5, <1>a, HeadThenTail DEF FinishFunctor
  <2>2. /\ ran' = ran \o first
        /\ functors' = rest
        /\ pending' = pending /\ accepted' = accepted
    BY <1>5, <1>a, HeadThenTail, AppendIsConcat DEF FinishFunctor
  <2> HIDE DEF first, rest
  <2>3. ran \in Seq(Tasks) /\ first \in Seq(Tasks) /\ rest \in Seq(Tasks)
    BY <1>a, <2>1
  <2>4. (ran \o first) \o rest = ran \o (first \o rest)
    BY <2>3, ConcatAssociative, SMTT(60)
  <2> QED BY <1>a, <2>1, <2>2, <2>4 DEF Fifo
<1>6. CASE Enter \/ CheckQuit \/ HandleRead \/ HandleEvent \/ FinishFunctors
  BY <1>6, <1>b DEF Enter, CheckQuit, HandleRead, HandleEvent,
                    FinishFunctors, historyVars
<1>7. CASE PollReturn \/ PollTimeout
  BY <1>7, <1>b DEF PollReturn, PollTimeout, historyVars
<1>8. CASE UNCHANGED vars
  BY <1>8, <1>b DEF vars
<1> QED
  BY <1>1, <1>2, <1>3, <1>4, <1>5, <1>6, <1>7, <1>8 DEF Next, Call, Progress

\* What was queued is what ran, then what is being run, then what is pending,
\* in that order: nothing is lost, duplicated or reordered
\* (EventLoop.cc:113-117, 147-158).
THEOREM FirstInFirstOut == Spec => []Fifo
<1>1. Init => Fifo
  <2>1. << >> \o << >> = << >>
    BY EmptySeq, ConcatEmptySeq
  <2> QED BY <2>1 DEF Init, Fifo
<1>2. TypeOK /\ Fifo /\ [Next]_vars => Fifo'
  BY NextFifo
<1> QED BY <1>1, <1>2, TypeCorrect, PTL DEF Spec

-----------------------------------------------------------------------------
(* Refinement.                                                             *)

\* A step of the loop is a step of the abstract executor or leaves it alone:
\* queueInLoop() is Submit, the return of a functor is Execute, the loop's
\* last test of quit_ is Close, and all the rest is invisible.
LEMMA StepSimulation ==
  TypeOK /\ Fifo /\ [Next]_vars => [Executor!Next]_(Executor!vars)
<1> SUFFICES ASSUME TypeOK, Fifo, [Next]_vars
             PROVE  Executor!Next \/ UNCHANGED Executor!vars
  OBVIOUS
<1>a. /\ accepted \in Seq(Tasks)
      /\ ran \in Seq(Tasks)
      /\ functors \in Seq(Tasks)
      /\ pending \in Seq(Tasks)
      /\ ran \o functors \in Seq(Tasks)
      /\ functors \o pending \in Seq(Tasks)
      /\ accepted = (ran \o functors) \o pending
  BY ConcatProperties DEF TypeOK, Fifo
<1>c. ran \in Seq(Tasks) /\ functors \in Seq(Tasks) /\ pending \in Seq(Tasks)
  BY <1>a
<1>b. /\ UNCHANGED <<functors, pending, ran>>
      /\ (loopPc # "stopped") <=> (loopPc' # "stopped")
      => UNCHANGED Executor!vars
  BY DEF Executor!vars
<1>1. ASSUME NEW t \in Threads, NEW f \in Tasks, QueueInLoop(t, f)
      PROVE  Executor!Submit(f)
  <2>1. Range(accepted) = Range(ran) \cup Range(functors \o pending)
    <3>1. (ran \o functors) \o pending = ran \o (functors \o pending)
      BY <1>c, ConcatAssociative, SMTT(60)
    <3>2. functors \o pending \in Seq(Tasks)
      BY <1>a
    <3>3. ASSUME NEW q \in Seq(Tasks)
          PROVE  Range(ran \o q) = Range(ran) \cup Range(q)
      BY <1>c, RangeConcatenation
    <3> QED BY <1>a, <3>1, <3>2, <3>3
  <2>2. f \notin Range(functors \o pending) \cup Range(ran)
    BY <1>1, <2>1 DEF QueueInLoop, NotHandedOver
  <2>3. functors \o Append(pending, f) = Append(functors \o pending, f)
    <3>1. <<f>> \in Seq(Tasks)
      OBVIOUS
    <3>2. Append(pending, f) = pending \o <<f>>
      BY <1>a, AppendIsConcat
    <3>3. Append(functors \o pending, f) = (functors \o pending) \o <<f>>
      BY <1>a, AppendIsConcat
    <3>4. functors \o (pending \o <<f>>) = (functors \o pending) \o <<f>>
      BY <1>a, <3>1, ConcatAssociative, SMTT(60)
    <3> QED BY <3>2, <3>3, <3>4
  <2>4. /\ UNCHANGED <<loopPc, functors, ran>>
        /\ pending' = Append(pending, f)
    BY <1>1 DEF QueueInLoop, loopVars
  <2>5. (functors \o pending)' = Append(functors \o pending, f)
    BY <2>3, <2>4
  <2> QED BY <2>2, <2>4, <2>5 DEF Executor!Submit, Executor!Range, Range
<1>2. ASSUME NEW t \in Threads, NEW f \in Tasks, RunInLoop(t, f)
      PROVE  Executor!Submit(f) \/ UNCHANGED Executor!vars
  BY <1>1, <1>2, <1>b DEF RunInLoop, loopVars
<1>3. ASSUME NEW t \in Threads, Quit(t) \/ Wakeup(t)
      PROVE  UNCHANGED Executor!vars
  BY <1>3, <1>b DEF Quit, Wakeup, historyVars
<1>4. CASE FinishFunctor
  <2> DEFINE first == <<Head(functors)>>
             rest == Tail(functors)
             queue == functors \o pending
             left == rest \o pending
  <2>1. /\ first \in Seq(Tasks) /\ rest \in Seq(Tasks)
        /\ functors = first \o rest
    BY <1>4, <1>a, HeadThenTail DEF FinishFunctor
  <2>2. left \in Seq(Tasks) /\ queue = first \o left
    <3> HIDE DEF first, rest
    <3> QED BY <1>a, <2>1, ConcatProperties, ConcatAssociative
  <2>3. queue # << >> /\ Head(queue) = Head(functors) /\ Tail(queue) = left
    BY <1>4, <1>a, <2>1, <2>2, HeadOfCons
  <2>4. Executor!Execute
    BY <1>4, <2>3 DEF FinishFunctor, Executor!Execute
  <2> QED BY <2>4 DEF Executor!Next
<1>5. CASE SwapPendingFunctors
  <2>1. /\ functors = << >> /\ functors' = pending /\ pending' = << >>
        /\ ran' = ran /\ loopPc = "handle" /\ loopPc' = "run"
    BY <1>5 DEF SwapPendingFunctors, historyVars, TypeOK
  <2>2. (functors \o pending)' = functors \o pending
    BY <1>a, <2>1, ConcatEmptySeq
  <2> QED BY <2>1, <2>2 DEF Executor!vars
<1>6. CASE CheckQuit
  <2>1. CASE quit
    BY <1>6, <2>1 DEF CheckQuit, historyVars, Executor!Close, Executor!Next
  <2>2. CASE ~quit
    BY <1>6, <2>2, <1>b DEF CheckQuit, historyVars
  <2> QED BY <2>1, <2>2
<1>7. CASE Enter \/ HandleRead \/ HandleEvent \/ FinishFunctors
  BY <1>7, <1>b DEF Enter, HandleRead, HandleEvent, FinishFunctors,
                    historyVars
<1>8. CASE PollReturn \/ PollTimeout
  BY <1>8, <1>b DEF PollReturn, PollTimeout, historyVars
<1>9. CASE UNCHANGED vars
  BY <1>9, <1>b DEF vars
<1> QED
  BY <1>1, <1>2, <1>3, <1>4, <1>5, <1>6, <1>7, <1>8, <1>9
  DEF Next, Call, Progress, Executor!Next

\* The event loop implements the serial executor
\* (EventLoop.cc:68-91, 104-124, 147-161).
THEOREM LoopImplementsExecutor == Spec => ExecutorSpec
<1>1. Init => Executor!Init
  <2>1. << >> \o << >> = << >>
    BY EmptySeq, ConcatEmptySeq
  <2> QED BY <2>1 DEF Init, Executor!Init
<1>2. TypeOK /\ Fifo /\ [Next]_vars => [Executor!Next]_(Executor!vars)
  BY StepSimulation
<1> QED
  BY <1>1, <1>2, TypeCorrect, FirstInFirstOut, PTL
  DEF Spec, ExecutorSpec, Executor!Spec

-----------------------------------------------------------------------------
(* EventLoopThread: the handshake.                                         *)

\* A step of the composed system is a step of the loop or leaves it alone.
LEMMA LoopStep == [ThreadNext]_threadVars => [Next]_vars
<1> SUFFICES ASSUME [ThreadNext]_threadVars PROVE [Next]_vars
  OBVIOUS
<1>1. CASE StartLoop \/ SpuriousWakeup \/ Destroy
  BY <1>1 DEF StartLoop, SpuriousWakeup, Destroy
<1>2. CASE OwnerStep
  <2>1. Owner \in Threads
    BY OwnerAssumption DEF Threads
  <2> QED BY <1>2, <2>1 DEF OwnerStep, AwaitLoop, QuitLoop, Join, Next, Call
<1>3. CASE ThreadStep
  BY <1>3 DEF ThreadStep, Publish, Unpublish, Exit
<1>4. ASSUME NEW t \in Threads, UserCall(t) \/ FinishCall(t) PROVE Next
  BY <1>4 DEF UserCall, FinishCall, Next, Call
<1>5. CASE LoopProgress \/ LoopPoll \/ LoopTimeout
  BY <1>5 DEF LoopProgress, LoopPoll, LoopTimeout, Next
<1>6. CASE Terminated \/ UNCHANGED threadVars
  BY <1>6 DEF Terminated, threadVars
<1> QED BY <1>1, <1>2, <1>3, <1>4, <1>5, <1>6 DEF ThreadNext

\* What the loop's own steps do to the two variables the handshake reads.
LEMMA LoopStepEffect ==
  ASSUME TypeOK
  PROVE  /\ \A t \in Threads : Wakeup(t) =>
              loopPc' = loopPc /\ quit' = quit
         /\ \A t \in Threads, f \in Tasks :
              QueueInLoop(t, f) \/ RunInLoop(t, f) =>
                loopPc' = loopPc /\ quit' = quit
         /\ \A t \in Threads : Quit(t) => loopPc' = loopPc
         /\ Progress =>
              /\ loopPc' # "init"
              /\ loopPc' = "stopped" => quit /\ loopPc # "stopped"
              /\ loopPc # "stopped"
              /\ quit' => quit
         /\ PollReturn \/ PollTimeout =>
              loopPc = "poll" /\ loopPc' = "handle" /\ quit' = quit
<1>1. \A t \in Threads, f \in Tasks : QueueInLoop(t, f) =>
        loopPc' = loopPc /\ quit' = quit
  BY DEF QueueInLoop, loopVars
<1>2. \A t \in Threads, f \in Tasks : RunInLoop(t, f) =>
        loopPc' = loopPc /\ quit' = quit
  BY <1>1 DEF RunInLoop, loopVars
<1>3. Progress => /\ loopPc' # "init"
                  /\ loopPc' = "stopped" => quit /\ loopPc # "stopped"
                  /\ loopPc # "stopped"
                  /\ quit' => quit
  BY DEF Progress, Enter, CheckQuit, HandleRead, HandleEvent,
         SwapPendingFunctors, FinishFunctor, FinishFunctors, TypeOK
<1>4. PollReturn \/ PollTimeout =>
        loopPc = "poll" /\ loopPc' = "handle" /\ quit' = quit
  BY DEF PollReturn, PollTimeout
<1> QED BY <1>1, <1>2, <1>3, <1>4 DEF Wakeup, Quit

\* The part of the type invariant that is about the handshake.
HandshakeOK ==
  /\ ownerPc \in {"idle", "lock", "wait", "running", "quit", "join", "gone"}
  /\ threadPc \in {"none", "callback", "loop", "cleared", "exited"}
  /\ published \in BOOLEAN
  /\ published <=> threadPc = "loop"
  /\ threadPc \in {"none", "callback"} => loopPc = "init"
  /\ threadPc \in {"cleared", "exited"} => loopPc = "stopped"
  /\ ownerPc = "idle" => threadPc = "none"

\* Every step of the composed system keeps it: one proof step per action.
LEMMA NextHandshakeOK ==
  TypeOK /\ HandshakeOK /\ [ThreadNext]_threadVars => HandshakeOK'
<1> SUFFICES ASSUME TypeOK, HandshakeOK, [ThreadNext]_threadVars
             PROVE  HandshakeOK'
  OBVIOUS
<1> USE DEF HandshakeOK
<1>1. CASE StartLoop
  BY <1>1 DEF StartLoop, vars
<1>2. CASE SpuriousWakeup
  BY <1>2 DEF SpuriousWakeup, vars
<1>3. CASE Destroy
  BY <1>3 DEF Destroy, vars
<1>4. CASE AwaitLoop
  BY <1>4 DEF AwaitLoop, vars
<1>5. CASE QuitLoop
  BY <1>5 DEF QuitLoop, Quit
<1>6. CASE Join
  BY <1>6 DEF Join, vars
<1>7. CASE Publish
  BY <1>7 DEF Publish, vars
<1>8. CASE Unpublish
  BY <1>8 DEF Unpublish, vars
<1>9. CASE Exit
  BY <1>9 DEF Exit, vars
<1>10. ASSUME NEW t \in Threads, UserCall(t) PROVE HandshakeOK'
  <2>1. loopPc' = loopPc /\ UNCHANGED handshakeVars
    BY <1>10, LoopStepEffect DEF UserCall
  <2> QED BY <2>1 DEF handshakeVars
<1>11. ASSUME NEW t \in Threads, FinishCall(t) PROVE HandshakeOK'
  BY <1>11 DEF FinishCall, Wakeup, handshakeVars
<1>12. CASE LoopProgress
  BY <1>12 DEF LoopProgress, handshakeVars
<1>13. CASE LoopPoll \/ LoopTimeout
  BY <1>13 DEF LoopPoll, LoopTimeout, handshakeVars
<1>14. CASE Terminated \/ UNCHANGED threadVars
  BY <1>14 DEF Terminated, threadVars, handshakeVars, vars
<1> QED
  BY <1>1, <1>2, <1>3, <1>4, <1>5, <1>6, <1>7, <1>8, <1>9, <1>10, <1>11,
     <1>12, <1>13, <1>14 DEF ThreadNext, OwnerStep, ThreadStep

\* loop_ is set exactly while the thread is between the initialisation
\* callback and the end of loop(), and the loop is stopped when it is
\* destroyed (EventLoopThread.cc:46-63).
THEOREM ThreadTypeCorrect == ThreadSpec => []ThreadTypeOK
<1>1. ThreadInit => TypeOK /\ HandshakeOK
  BY InitTypeOK DEF ThreadInit, Init, HandshakeOK
<1>2. TypeOK /\ HandshakeOK /\ [ThreadNext]_threadVars
        => (TypeOK /\ HandshakeOK)'
  BY LoopStep, NextTypeOK, NextHandshakeOK
<1>3. TypeOK /\ HandshakeOK => ThreadTypeOK
  BY DEF HandshakeOK, ThreadTypeOK
<1> QED BY <1>1, <1>2, <1>3, PTL DEF ThreadSpec

\* What the loop guarantees by itself it guarantees on its own thread: no
\* wakeup and no quit is lost once it is set, and functors run in order.
THEOREM LoopKeepsItsPromises ==
  ThreadSpec => [](NoLostWakeup /\ NoLostQuit /\ Fifo)
<1>1. ThreadInit => Init
  BY DEF ThreadInit
<1>2. ThreadSpec => Spec
  BY <1>1, LoopStep, PTL DEF ThreadSpec, Spec
<1> QED BY <1>2, WakeupNotLost, QuitNotLost, FirstInFirstOut, PTL

-----------------------------------------------------------------------------
(* The owner's view, when only the destructor calls quit().                *)

\* quit_ is set, and the loop stopped, only after the destructor called
\* quit(); until then the thread stays where the owner expects it.
OwnerInv ==
  /\ quit \/ loopPc = "stopped" => ownerPc \in {"join", "gone"}
  /\ ownerPc \in {"lock", "wait"} => threadPc \in {"callback", "loop"}
  /\ ownerPc \in {"running", "quit"} => threadPc = "loop"
  /\ ownerPc = "gone" => threadPc \in {"none", "exited"}

\* OwnerInv is inductive relative to the type invariant.
LEMMA NextOwnerInv ==
  ASSUME MayQuit = {}
  PROVE  TypeOK /\ HandshakeOK /\ OwnerInv /\ [ThreadNext]_threadVars
           => OwnerInv'
<1> SUFFICES ASSUME TypeOK, HandshakeOK, OwnerInv, [ThreadNext]_threadVars
             PROVE  OwnerInv'
  OBVIOUS
<1> USE DEF OwnerInv
<1>1. CASE StartLoop
  BY <1>1 DEF StartLoop, vars, HandshakeOK
<1>2. CASE SpuriousWakeup
  BY <1>2 DEF SpuriousWakeup, vars
<1>3. CASE Destroy
  BY <1>3 DEF Destroy, vars, HandshakeOK
<1>4. CASE AwaitLoop
  BY <1>4 DEF AwaitLoop, vars, HandshakeOK
<1>5. CASE QuitLoop
  BY <1>5 DEF QuitLoop
<1>6. CASE Join
  BY <1>6 DEF Join, vars
<1>7. CASE Publish
  BY <1>7 DEF Publish, vars
<1>8. CASE Unpublish
  BY <1>8 DEF Unpublish, vars
<1>9. CASE Exit
  BY <1>9 DEF Exit, vars, HandshakeOK
<1>10. ASSUME NEW t \in Threads, UserCall(t) PROVE OwnerInv'
  <2>1. \E f \in Tasks : QueueInLoop(t, f) \/ RunInLoop(t, f)
    BY <1>10 DEF UserCall
  <2>2. loopPc' = loopPc /\ quit' = quit /\ UNCHANGED handshakeVars
    BY <1>10, <2>1, LoopStepEffect DEF UserCall
  <2> QED BY <2>2 DEF handshakeVars
<1>11. ASSUME NEW t \in Threads, FinishCall(t) PROVE OwnerInv'
  BY <1>11 DEF FinishCall, Wakeup, handshakeVars
<1>12. CASE LoopProgress
  <2>1. (quit' => quit) /\ (loopPc' = "stopped" => quit)
    BY <1>12, LoopStepEffect DEF LoopProgress
  <2> QED BY <1>12, <2>1 DEF LoopProgress, handshakeVars
<1>13. CASE LoopPoll \/ LoopTimeout
  <2>1. quit' = quit /\ loopPc' = "handle"
    BY <1>13, LoopStepEffect DEF LoopPoll, LoopTimeout
  <2> QED BY <1>13, <2>1 DEF LoopPoll, LoopTimeout, handshakeVars
<1>14. CASE Terminated \/ UNCHANGED threadVars
  BY <1>14 DEF Terminated, threadVars, handshakeVars, vars
<1> QED
  BY <1>1, <1>2, <1>3, <1>4, <1>5, <1>6, <1>7, <1>8, <1>9, <1>10, <1>11,
     <1>12, <1>13, <1>14 DEF ThreadNext, OwnerStep, ThreadStep

\* The owner uses only a loop that is initialised, published and alive, and
\* when the destructor has returned the thread has ended, if only the
\* destructor calls quit() (EventLoopThread.cc:15-63).
THEOREM OwnerIsSafe == ThreadSpec => []OwnedLoopIsAlive
<1>1. CASE MayQuit = {}
  <2>1. ThreadInit => TypeOK /\ HandshakeOK /\ OwnerInv
    BY InitTypeOK DEF ThreadInit, Init, HandshakeOK, OwnerInv
  <2>2. TypeOK /\ HandshakeOK /\ OwnerInv /\ [ThreadNext]_threadVars
          => (TypeOK /\ HandshakeOK /\ OwnerInv)'
    BY <1>1, LoopStep, NextTypeOK, NextHandshakeOK, NextOwnerInv
  <2>3. TypeOK /\ HandshakeOK /\ OwnerInv
          => OwnedLoopIsAlive
    BY DEF HandshakeOK, OwnerInv, OwnedLoopIsAlive, Alive
  <2> QED BY <2>1, <2>2, <2>3, PTL DEF ThreadSpec
<1>2. CASE MayQuit # {}
  <2>1. OwnedLoopIsAlive
    BY <1>2 DEF OwnedLoopIsAlive
  <2> QED BY <2>1, PTL
<1> QED BY <1>1, <1>2
=============================================================================

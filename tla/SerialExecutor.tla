--------------------------- MODULE SerialExecutor ---------------------------
(***************************************************************************)
(* What an event loop promises to those who hand it work: every task that  *)
(* was accepted is executed at most once, one after the other and in the   *)
(* order in which it was accepted, and none is executed after the executor *)
(* has closed.  Nothing is said about threads, locks, wakeups or polling:  *)
(* that is EventLoop's business, and EventLoop implements this one.        *)
(***************************************************************************)
EXTENDS Sequences, Functions

CONSTANT Tasks          \* the functors that may ever be handed over

VARIABLES queue,        \* accepted and not executed yet, oldest first
          done,         \* executed, in order of execution
          open          \* FALSE once the executor runs nothing any more

vars == <<queue, done, open>>

TypeOK == /\ queue \in Seq(Tasks)
          /\ done \in Seq(Tasks)
          /\ open \in BOOLEAN

Init == /\ queue = << >>
        /\ done = << >>
        /\ open = TRUE

Submit(f) == /\ f \notin Range(queue) \cup Range(done)
             /\ queue' = Append(queue, f)
             /\ UNCHANGED <<done, open>>

Execute == /\ open
           /\ queue # << >>
           /\ done' = Append(done, Head(queue))
           /\ queue' = Tail(queue)
           /\ UNCHANGED open

Close == /\ open
         /\ open' = FALSE
         /\ UNCHANGED <<queue, done>>

Next == \/ \E f \in Tasks : Submit(f)
        \/ Execute
        \/ Close

Spec == Init /\ [][Next]_vars
=============================================================================

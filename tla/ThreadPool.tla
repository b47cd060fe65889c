----------------------------- MODULE ThreadPool -----------------------------
(***************************************************************************)
(* The C thread pool (thread_pool/thrd_pool.c): a circular queue of tasks, *)
(* workers that sleep on one condition variable while it is empty, and     *)
(* clients that post tasks and destroy the pool.                           *)
(*                                                                         *)
(* Everything after the creation happens inside critical sections of one   *)
(* mutex, so a critical section is one step.  The exception is a second    *)
(* thread_pool_destory(), which returns without unlocking.                 *)
(*                                                                         *)
(* thread_pool_create() starts the workers before it initialises the mutex *)
(* and the condition variable.  On zeroed memory both work already, but    *)
(* pthread_cond_init() may make the condition variable forget the workers  *)
(* that sleep on it.                                                       *)
(***************************************************************************)
EXTENDS Naturals, Sequences, FiniteSets, Functions

CONSTANTS ThreadCount,  \* thrd_count
          QueueSize,    \* queue_size
          Early,        \* workers that may run before the pool is initialised
          Clients,      \* threads that post tasks
          Destroyers,   \* those of them that call thread_pool_destory(), once
          Tasks,        \* tasks, each of them posted at most once
          NoTask        \* the content of a slot that was never written

Workers == 1..ThreadCount
Slots == 0..(QueueSize - 1)

ASSUME PoolAssumption == /\ ThreadCount \in Nat \ {0}
                         /\ QueueSize \in Nat \ {0}
                         /\ Early \subseteq Workers
                         /\ Destroyers \subseteq Clients
                         /\ NoTask \notin Tasks

VARIABLES
    phase,              \* spawn, ready or failed
    spawned,            \* pool->thrd_count
    started,            \* pool->started
    closed,             \* pool->closed
    slots, head, tail, count,   \* pool->task_queue
    locked,             \* a client returned holding the mutex
    freed,              \* the pool's memory has been given back
    workerPc,           \* lock, wait, run or exited; none before its start
    task,               \* the task each worker took last
    stranded,           \* sleeping workers the condition variable forgot
    clientPc,           \* idle, join, or how thread_pool_destory() ended
    posted,             \* history: the accepted tasks, in order
    taken,              \* history: the tasks taken by workers, in order
    done                \* history: the tasks executed

createVars == <<phase, spawned>>
queueVars == <<slots, head, tail, count>>
poolVars == <<started, closed, locked, freed>>
workerVars == <<workerPc, task, stranded>>
historyVars == <<posted, taken, done>>
vars == <<createVars, queueVars, poolVars, workerVars, clientPc, historyVars>>

Init ==
  /\ phase = "spawn" /\ spawned = 0
  /\ started = 0 /\ closed = FALSE
  /\ slots = [i \in Slots |-> NoTask]
  /\ head = 0 /\ tail = 0 /\ count = 0
  /\ locked = FALSE /\ freed = FALSE
  /\ workerPc = [w \in Workers |-> "none"]
  /\ task = [w \in Workers |-> NoTask]
  /\ stranded = {}
  /\ clientPc = [c \in Clients |-> "idle"]
  /\ posted = << >> /\ taken = << >> /\ done = {}

-----------------------------------------------------------------------------
(* thread_pool_create().                                                   *)

Spawn ==
  /\ phase = "spawn"
  /\ spawned < ThreadCount
  /\ spawned' = spawned + 1
  /\ started' = started + 1
  /\ workerPc' = [workerPc EXCEPT ![spawned + 1] = "lock"]
  /\ UNCHANGED <<phase, closed, locked, freed, queueVars, task, stranded,
                 clientPc, historyVars>>

\* pthread_create() failed: the caller gets no pool, and what there is of it
\* is neither closed nor freed.
SpawnFails ==
  /\ phase = "spawn"
  /\ spawned < ThreadCount
  /\ phase' = "failed"
  /\ UNCHANGED <<spawned, queueVars, poolVars, workerVars, clientPc,
                 historyVars>>

Sleeping == {w \in Workers : workerPc[w] = "wait"} \ stranded

\* pthread_mutex_init() and pthread_cond_init(); then create() returns.
InitSync ==
  /\ phase = "spawn"
  /\ spawned = ThreadCount
  /\ phase' = "ready"
  /\ stranded' \in SUBSET Sleeping
  /\ UNCHANGED <<spawned, queueVars, poolVars, workerPc, task, clientPc,
                 historyVars>>

-----------------------------------------------------------------------------
(* thread_worker().                                                        *)

\* The worker gets the mutex, at the top of the loop or out of the wait.
Acquires(w) ==
  /\ workerPc[w] = "lock"
  /\ ~locked
  /\ phase = "ready" \/ w \in Early

Wait(w) ==
  /\ Acquires(w)
  /\ count = 0 /\ ~closed
  /\ workerPc' = [workerPc EXCEPT ![w] = "wait"]
  /\ UNCHANGED <<createVars, queueVars, poolVars, task, stranded, clientPc,
                 historyVars>>

\* Variant: the head stays where it is.
Take_SameHead(w) ==
  /\ Acquires(w)
  /\ count > 0 /\ ~closed
  /\ task' = [task EXCEPT ![w] = slots[head]]
  /\ taken' = Append(taken, slots[head])
  /\ count' = count - 1
  /\ workerPc' = [workerPc EXCEPT ![w] = "run"]
  /\ UNCHANGED <<createVars, slots, head, tail, poolVars, stranded, clientPc,
                 posted, done>>

Take(w) ==
  /\ Acquires(w)
  /\ count > 0 /\ ~closed
  /\ task' = [task EXCEPT ![w] = slots[head]]
  /\ taken' = Append(taken, slots[head])
  /\ head' = (head + 1) % QueueSize
  /\ count' = count - 1
  /\ workerPc' = [workerPc EXCEPT ![w] = "run"]
  /\ UNCHANGED <<createVars, slots, tail, poolVars, stranded, clientPc,
                 posted, done>>

\* The task returns, and the worker goes for the mutex again.
Finish(w) ==
  /\ workerPc[w] = "run"
  /\ done' = done \cup {task[w]}
  /\ workerPc' = [workerPc EXCEPT ![w] = "lock"]
  /\ UNCHANGED <<createVars, queueVars, poolVars, task, stranded, clientPc,
                 posted, taken>>

\* A closed pool is left at once, whatever the queue holds.
Exit(w) ==
  /\ Acquires(w)
  /\ closed
  /\ started' = started - 1
  /\ workerPc' = [workerPc EXCEPT ![w] = "exited"]
  /\ UNCHANGED <<createVars, queueVars, closed, locked, freed, task, stranded,
                 clientPc, historyVars>>

SpuriousWakeup(w) ==
  /\ workerPc[w] = "wait"
  /\ workerPc' = [workerPc EXCEPT ![w] = "lock"]
  /\ stranded' = stranded \ {w}
  /\ UNCHANGED <<createVars, queueVars, poolVars, task, clientPc, historyVars>>

-----------------------------------------------------------------------------
(* thread_pool_post().                                                     *)

CanCall(c) == phase = "ready" /\ clientPc[c] = "idle" /\ ~locked

\* Variant: a full queue is not noticed.
Full_Never == FALSE
Full == count = QueueSize

\* Variants: only the post that finds an empty queue wakes a worker, and no
\* post does.
Signal_WhenEmpty ==
  IF Sleeping = {} \/ count > 0
  THEN UNCHANGED workerPc
  ELSE \E w \in Sleeping : workerPc' = [workerPc EXCEPT ![w] = "lock"]

Signal_Never == UNCHANGED workerPc

\* pthread_cond_signal() wakes one of the workers that sleep.
Signal ==
  IF Sleeping = {}
  THEN UNCHANGED workerPc
  ELSE \E w \in Sleeping : workerPc' = [workerPc EXCEPT ![w] = "lock"]

Post(c, t) ==
  /\ CanCall(c)
  /\ t \notin Range(posted)
  /\ ~closed /\ ~Full
  /\ slots' = [slots EXCEPT ![tail] = t]
  /\ tail' = (tail + 1) % QueueSize
  /\ count' = count + 1
  /\ posted' = Append(posted, t)
  /\ Signal
  /\ UNCHANGED <<createVars, head, poolVars, task, stranded, clientPc,
                 taken, done>>

\* A closed pool and a full queue refuse: nothing changes, and the client may
\* try again.
PostRefused(c) ==
  /\ CanCall(c)
  /\ closed \/ Full
  /\ UNCHANGED vars

-----------------------------------------------------------------------------
(* thread_pool_destory().                                                  *)

\* Variant: one worker is woken up instead of all of them.
Broadcast_One == Signal
Broadcast == workerPc' = [w \in Workers |->
                            IF w \in Sleeping THEN "lock" ELSE workerPc[w]]

Destroy(c) ==
  /\ c \in Destroyers
  /\ CanCall(c)
  /\ ~closed
  /\ closed' = TRUE
  /\ Broadcast
  /\ clientPc' = [clientPc EXCEPT ![c] = "join"]
  /\ UNCHANGED <<createVars, queueVars, started, locked, freed, task, stranded,
                 historyVars>>

\* Another destory() has closed the pool: return -1, still holding the mutex.
DestroyAgain(c) ==
  /\ c \in Destroyers
  /\ CanCall(c)
  /\ closed
  /\ locked' = TRUE
  /\ clientPc' = [clientPc EXCEPT ![c] = "failed"]
  /\ UNCHANGED <<createVars, queueVars, started, closed, freed, workerVars,
                 historyVars>>

\* Variant: the workers are not waited for.
AllDone_NoJoin == TRUE
AllDone == \A i \in 1..spawned : workerPc[i] = "exited"

\* wait_all_done() returns; thread_pool_free() refuses a pool that has no
\* thread left.
Free(c) ==
  /\ clientPc[c] = "join"
  /\ AllDone
  /\ freed' = (started > 0)
  /\ clientPc' = [clientPc EXCEPT ![c] = "destroyed"]
  /\ UNCHANGED <<createVars, queueVars, started, closed, locked, workerVars,
                 historyVars>>

-----------------------------------------------------------------------------
Create == Spawn \/ SpawnFails \/ InitSync
Worker(w) == Wait(w) \/ Take(w) \/ Finish(w) \/ Exit(w)
Client(c) == \/ \E t \in Tasks : Post(c, t)
             \/ PostRefused(c)
             \/ Destroy(c) \/ DestroyAgain(c) \/ Free(c)

\* Nobody is left, or there is no pool.
Terminated ==
  /\ \/ phase = "failed"
     \/ \E c \in Clients : clientPc[c] \in {"destroyed", "failed"}
  /\ UNCHANGED vars

Next == \/ Create
        \/ \E w \in Workers : Worker(w) \/ SpuriousWakeup(w)
        \/ \E c \in Clients : Client(c)
        \/ Terminated

Spec == Init /\ [][Next]_vars

\* create() goes on, tasks return, and a thread that waits for the mutex gets
\* it.  Nobody has to post or to destroy, and no wait ends by itself.
Fairness == /\ WF_vars(Create)
            /\ \A w \in Workers : WF_vars(Worker(w))
            /\ \A c \in Clients : WF_vars(Free(c))

FairSpec == Spec /\ Fairness

-----------------------------------------------------------------------------
(* Properties.                                                             *)

Alive == {w \in Workers : workerPc[w] \in {"lock", "wait", "run"}}
Awake == {w \in Workers : workerPc[w] = "lock"}

\* The type invariant.  The indices stay in the array, the tail is where the
\* head and the count say, the counters count threads, and the pool is closed
\* by a client that got it whole (thrd_pool.c:77-86, 126-138, 184, 219-224).
TypeOK ==
  /\ phase \in {"spawn", "ready", "failed"}
  /\ spawned \in 0..ThreadCount
  /\ started \in 0..ThreadCount
  /\ closed \in BOOLEAN /\ locked \in BOOLEAN /\ freed \in BOOLEAN
  /\ slots \in [Slots -> Tasks \cup {NoTask}]
  /\ head \in Slots /\ tail \in Slots
  /\ count \in 0..QueueSize
  /\ workerPc \in [Workers -> {"none", "lock", "wait", "run", "exited"}]
  /\ task \in [Workers -> Tasks \cup {NoTask}]
  /\ stranded \subseteq {w \in Workers : workerPc[w] = "wait"}
  /\ clientPc \in [Clients -> {"idle", "join", "destroyed", "failed"}]
  /\ posted \in Seq(Tasks) /\ taken \in Seq(Tasks) /\ done \subseteq Tasks
  /\ tail = (head + count) % QueueSize
  /\ started = Cardinality(Alive)
  /\ \A w \in Workers : workerPc[w] = "none" <=> w > spawned
  /\ \A c \in Clients : clientPc[c] # "idle" => closed
  /\ closed => phase = "ready"
  /\ phase = "ready" => spawned = ThreadCount

\* The tasks in the circular queue, oldest first.
Queued == [i \in 1..count |-> slots[(head + i - 1) % QueueSize]]

\* The circular queue is a queue: workers take the accepted tasks in order,
\* each once, across any number of turns of the indices
\* (thrd_pool.c:77-79, 213-224).
QueueOrder == posted = taken \o Queued

\* Nobody sleeps while a task has no awake worker coming for it: one signal
\* per post is enough, whatever the workers that are awake are doing
\* (thrd_pool.c:62-69, 227).
NoIdleWorker ==
  Sleeping # {} => count <= Cardinality(Awake)

\* When thread_pool_destory() has returned 0, every worker has left, and an
\* accepted task was executed or is still in the queue, never half-way
\* (thrd_pool.c:72-88, 184-193, 236-246).
DestroyedIsQuiet ==
  \A c \in Clients : clientPc[c] = "destroyed" =>
    /\ \A w \in Workers : workerPc[w] = "exited"
    /\ Range(posted) = done \cup Range(Queued)

\* An accepted task is executed, unless the pool is closed first or every
\* worker slept through the initialisation (thrd_pool.c:62-82, 227).
TasksRun ==
  \A t \in Tasks : t \in Range(posted) ~>
    t \in done \/ closed \/ stranded = Workers

\* thread_pool_destory() returns, unless a worker slept through the
\* initialisation or another destory() kept the mutex
\* (thrd_pool.c:136-137, 180-191).
DestroyReturns ==
  \A c \in Clients : clientPc[c] = "join" ~>
    clientPc[c] = "destroyed" \/ stranded # {} \/ locked

\* The comment at thrd_pool.c:236 says that wait_all_done() waits until the
\* threads have finished their tasks and left; so the destory() that closed
\* the pool comes to an end.
WorkersLeave ==
  \A c \in Clients : clientPc[c] = "join" ~> clientPc[c] = "destroyed"
=============================================================================

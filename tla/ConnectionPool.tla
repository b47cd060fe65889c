--------------------------- MODULE ConnectionPool ---------------------------
(***************************************************************************)
(* The MySQL connection pool (pool/ConnectionPool.h): a queue of idle      *)
(* connections, a producer thread that opens one more when the queue is    *)
(* empty, a scanner thread that closes connections idle for too long, and  *)
(* callers that take a connection, use it and give it back.                *)
(*                                                                         *)
(* Everything happens under one mutex that only a wait releases, so a      *)
(* critical section is one step.  One condition variable serves producer   *)
(* and callers; only the producer and a caller that takes a connection     *)
(* notify it.  The scanner and a caller that gives back do not.            *)
(***************************************************************************)
EXTENDS Integers, Sequences, FiniteSets, FiniteSetsExt, Functions

CONSTANTS Users,        \* threads that call getConnection()
          MaxCalls,     \* bound: calls of each of them
          MaxTime,      \* bound: the last value of the clock
          Lines,        \* mysql.ini, a sequence of [key, value] records
          NoKey,        \* the key of a line without '='
          NoConn        \* the null pointer

VARIABLES
    loaded,             \* mysql.ini was found
    queue,              \* _connectionQue
    cnt,                \* _connectionCnt
    stamp,              \* _alivetime of each connection
    now,                \* clock()
    producer,           \* lock or wait
    userPc,             \* idle, lock, wait, timedOut or using
    conn,               \* the connection each user holds
    calls,              \* how often each user called
    scannedOut,         \* history: the scanner emptied the queue last
    undefined           \* front() of an empty queue was used

poolVars == <<queue, cnt, stamp>>
userVars == <<userPc, conn, calls>>
vars == <<loaded, poolVars, now, producer, userVars, scannedOut, undefined>>

\* LoadConfig() assigns line by line; what is not assigned is zero, the pool
\* being a static object.
Setting(key) ==
  LET at == {i \in DOMAIN Lines : Lines[i].key = key /\ key # NoKey}
  IN  IF at = {} THEN 0 ELSE Lines[Max(at)].value

InitSize == Setting("initSize")
MaxSize == Setting("maxSize")
MaxIdle == Setting("maxIdleTime")
Capacity == IF InitSize > MaxSize THEN InitSize ELSE MaxSize
Connections == 1..Capacity

ASSUME PoolAssumption == /\ InitSize \in Nat /\ MaxSize \in Nat
                         /\ MaxIdle \in Nat /\ MaxTime \in Nat
                         /\ MaxCalls \in Nat
                         /\ IsFiniteSet(Users)
                         /\ NoConn \notin Nat

Using == {u \in Users : userPc[u] = "using"}
Held == {conn[u] : u \in Using}
Existing == Range(queue) \cup Held

\* The constructor: without mysql.ini there are no connections and no threads.
Init ==
  /\ loaded \in BOOLEAN
  /\ cnt = IF loaded THEN InitSize ELSE 0
  /\ queue = [i \in 1..cnt |-> i]
  /\ stamp = [c \in Connections |-> 0]
  /\ now = 0
  /\ producer = "lock"
  /\ userPc = [u \in Users |-> "idle"]
  /\ conn = [u \in Users |-> NoConn]
  /\ calls = [u \in Users |-> 0]
  /\ scannedOut = FALSE
  /\ undefined = FALSE

Tick ==
  /\ ~undefined
  /\ now < MaxTime
  /\ now' = now + 1
  /\ UNCHANGED <<loaded, poolVars, producer, userVars, scannedOut, undefined>>

-----------------------------------------------------------------------------
(* produceConnectionTask().                                                *)

Produces == loaded /\ ~undefined /\ producer = "lock"

ProducerWait ==
  /\ Produces
  /\ queue # << >>
  /\ producer' = "wait"
  /\ UNCHANGED <<loaded, poolVars, now, userVars, scannedOut, undefined>>

WakeUsers == userPc' = [u \in Users |->
                          IF userPc[u] = "wait" THEN "lock" ELSE userPc[u]]

\* A round with an empty queue opens a connection if the limit allows it, and
\* notifies everybody in any case.  At the limit the producer goes round
\* without waiting.
Produce ==
  /\ Produces
  /\ queue = << >>
  /\ IF cnt < MaxSize
     THEN \E c \in Connections \ Existing :
            /\ queue' = Append(queue, c)
            /\ stamp' = [stamp EXCEPT ![c] = now]
            /\ cnt' = cnt + 1
            /\ scannedOut' = FALSE
     ELSE UNCHANGED <<poolVars, scannedOut>>
  /\ WakeUsers
  /\ UNCHANGED <<loaded, now, producer, conn, calls, undefined>>

-----------------------------------------------------------------------------
(* getConnection() and the deleter of the pointer it returns.              *)

Call(u) ==
  /\ ~undefined
  /\ userPc[u] = "idle" /\ calls[u] < MaxCalls
  /\ userPc' = [userPc EXCEPT ![u] = "lock"]
  /\ calls' = [calls EXCEPT ![u] = @ + 1]
  /\ UNCHANGED <<loaded, poolVars, now, producer, conn, scannedOut, undefined>>

UserWait(u) ==
  /\ ~undefined
  /\ userPc[u] = "lock"
  /\ queue = << >>
  /\ userPc' = [userPc EXCEPT ![u] = "wait"]
  /\ UNCHANGED <<loaded, poolVars, now, producer, conn, calls, scannedOut,
                 undefined>>

\* wait_for() gives up; the caller still has to get the mutex.
TimeOut(u) ==
  /\ ~undefined
  /\ userPc[u] = "wait"
  /\ userPc' = [userPc EXCEPT ![u] = "timedOut"]
  /\ UNCHANGED <<loaded, poolVars, now, producer, conn, calls, scannedOut,
                 undefined>>

\* A wait ends without a notification or a timeout.
SpuriousWakeup(u) ==
  /\ ~undefined
  /\ userPc[u] = "wait"
  /\ userPc' = [userPc EXCEPT ![u] = "lock"]
  /\ UNCHANGED <<loaded, poolVars, now, producer, conn, calls, scannedOut,
                 undefined>>

\* Variant: a caller whose wait timed out waits again.
GiveUp_Never(u) ==
  /\ ~undefined
  /\ userPc[u] = "timedOut"
  /\ queue = << >>
  /\ userPc' = [userPc EXCEPT ![u] = "lock"]
  /\ UNCHANGED <<loaded, poolVars, now, producer, conn, calls, scannedOut,
                 undefined>>

\* The timeout has passed and there is nothing to take: return nullptr.
GiveUp(u) ==
  /\ ~undefined
  /\ userPc[u] = "timedOut"
  /\ queue = << >>
  /\ userPc' = [userPc EXCEPT ![u] = "idle"]
  /\ UNCHANGED <<loaded, poolVars, now, producer, conn, calls, scannedOut,
                 undefined>>

\* Variant: the callers are not notified, nor is the producer.
NotifyAll_Nobody(u) ==
  /\ userPc' = [userPc EXCEPT ![u] = "using"]
  /\ UNCHANGED producer

\* notify_all() by a caller: the producer and the callers that wait.
NotifyAll(u) ==
  /\ producer' = "lock"
  /\ userPc' = [v \in Users |-> IF v = u THEN "using"
                                ELSE IF userPc[v] = "wait" THEN "lock"
                                ELSE userPc[v]]

\* Variant: the connection stays in the queue.
Pop_Not == queue
Pop == Tail(queue)

Take(u) ==
  /\ ~undefined
  /\ userPc[u] \in {"lock", "timedOut"}
  /\ queue # << >>
  /\ conn' = [conn EXCEPT ![u] = Head(queue)]
  /\ queue' = Pop
  /\ scannedOut' = FALSE
  /\ NotifyAll(u)
  /\ UNCHANGED <<loaded, cnt, stamp, now, calls, undefined>>

\* Variant: the time of the last use is not noted.
Refresh_Not(c) == stamp
Refresh(c) == [stamp EXCEPT ![c] = now]

\* The last shared_ptr goes: the connection is queued, nobody is notified.
GiveBack(u) ==
  /\ ~undefined
  /\ userPc[u] = "using"
  /\ queue' = Append(queue, conn[u])
  /\ stamp' = Refresh(conn[u])
  /\ conn' = [conn EXCEPT ![u] = NoConn]
  /\ userPc' = [userPc EXCEPT ![u] = "idle"]
  /\ scannedOut' = FALSE
  /\ UNCHANGED <<loaded, cnt, now, producer, calls, undefined>>

-----------------------------------------------------------------------------
(* scannerConnectionTask().                                                *)

Expired(c) == now - stamp[c] > MaxIdle

\* The scan closes the first k connections: it goes on while there are more
\* than InitSize of them and the first of the queue has expired.  It may come
\* to the end of the queue with connections in use, and then reads front() of
\* an empty queue.
Scan ==
  /\ loaded /\ ~undefined
  /\ \E k \in 0..Len(queue) :
       /\ \A i \in 1..k : Expired(queue[i])
       /\ k = 0 \/ cnt - k >= InitSize
       /\ cnt - k > InitSize /\ k < Len(queue) => ~Expired(queue[k + 1])
       /\ queue' = SubSeq(queue, k + 1, Len(queue))
       /\ cnt' = cnt - k
       /\ scannedOut' = (scannedOut \/ (k > 0 /\ k = Len(queue)))
       /\ undefined' = (k = Len(queue) /\ cnt - k > InitSize)
  /\ UNCHANGED <<loaded, stamp, now, producer, userVars>>

-----------------------------------------------------------------------------
Producer == ProducerWait \/ Produce
Get(u) == UserWait(u) \/ GiveUp(u) \/ Take(u)
User(u) == Call(u) \/ Get(u) \/ TimeOut(u) \/ SpuriousWakeup(u) \/ GiveBack(u)

\* Nobody calls any more, or nothing can be said.
Terminated ==
  /\ \/ undefined
     \/ \A u \in Users : userPc[u] = "idle" /\ calls[u] = MaxCalls
  /\ UNCHANGED vars

Next == \/ Tick
        \/ Producer
        \/ \E u \in Users : User(u)
        \/ Scan
        \/ Terminated

Spec == Init /\ [][Next]_vars

\* A thread that waits for the mutex gets it, waits time out, and what was
\* taken is given back.  Nobody has to call, the scanner need not come, and
\* waits do not end for no reason again and again.
Fairness == /\ WF_vars(Producer)
            /\ <>[][\A u \in Users : ~SpuriousWakeup(u)]_vars
            /\ \A u \in Users : /\ WF_vars(Get(u))
                                /\ WF_vars(TimeOut(u))
                                /\ WF_vars(GiveBack(u))

FairSpec == Spec /\ Fairness

-----------------------------------------------------------------------------
(* Properties.                                                             *)

\* The type invariant.  A connection is in the queue once or in the hands of
\* one caller, the atomic counter counts those that exist, and there are never
\* more than the configuration allows, whatever the scanner closes while
\* callers hold connections (ConnectionPool.h:146-152, 177-187, 201-206).
PoolTypeOK ==
  /\ loaded \in BOOLEAN
  /\ queue \in Seq(Connections)
  /\ stamp \in [Connections -> 0..MaxTime] /\ now \in 0..MaxTime
  /\ producer \in {"lock", "wait"}
  /\ userPc \in [Users -> {"idle", "lock", "wait", "timedOut", "using"}]
  /\ calls \in [Users -> 0..MaxCalls]
  /\ scannedOut \in BOOLEAN /\ undefined \in BOOLEAN
  /\ conn \in [Users -> Connections \cup {NoConn}]
  /\ \A u \in Users : u \in Using <=> conn[u] \in Connections
  /\ IsInjective(queue)
  /\ \A u \in Using : conn[u] \notin Range(queue)
  /\ \A u, v \in Using : conn[u] = conn[v] => u = v
  /\ cnt = Len(queue) + Cardinality(Using)
  /\ cnt <= Capacity

\* A scan may stop at the first connection that has not expired, because those
\* behind it were given back later: if the front of the queue has not expired,
\* nothing in the queue has, whoever gives back and opens connections when
\* (ConnectionPool.h:180-182, 201-210).
FrontExpiresFirst ==
  queue # << >> /\ ~Expired(Head(queue)) =>
    \A i \in DOMAIN queue : ~Expired(queue[i])

\* The producer is asleep while the queue is empty only if the scanner emptied
\* it: each caller that takes a connection wakes it up, and then it opens the
\* next one (ConnectionPool.h:140-155, 185-187).
ProducerIsCalled ==
  producer = "wait" /\ queue = << >> => scannedOut

\* Each getConnection() returns, with a connection or with null, although
\* notifications start its timeout anew and a connection given back is not
\* announced (ConnectionPool.h:161-169, 178-183).
GetReturns ==
  \A u \in Users :
    userPc[u] = "lock" ~> userPc[u] \in {"using", "idle"} \/ undefined
=============================================================================

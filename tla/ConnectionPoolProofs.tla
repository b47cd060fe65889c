------------------------ MODULE ConnectionPoolProofs ------------------------
(***************************************************************************)
(* Proofs about ConnectionPool, for any configuration file, any number of  *)
(* callers and calls: the counter counts the connections, each connection  *)
(* has one owner, the queue is ordered by the time of the last use, and    *)
(* the producer is not left asleep by a caller.                            *)
(***************************************************************************)
EXTENDS ConnectionPool, SequenceTheorems, FiniteSetTheorems, TLAPS

\* Along the queue the connections were given back later and later, and no
\* time of use lies in the future.
Ordered ==
  \A i, j \in 1..Len(queue) : i <= j => stamp[queue[i]] <= stamp[queue[j]]

PoolInv == /\ PoolTypeOK
           /\ Ordered
           /\ \A c \in Connections : stamp[c] <= now

LEMMA Sizes == InitSize \in Nat /\ MaxSize \in Nat /\ Capacity \in Nat
               /\ InitSize <= Capacity /\ MaxSize <= Capacity
BY PoolAssumption DEF Capacity

-----------------------------------------------------------------------------
(* What becomes of the queue.                                              *)

\* Closing or taking the first k connections leaves the rest as it was.
LEMMA DropFirst ==
  ASSUME queue \in Seq(Connections), IsInjective(queue), Ordered,
         stamp' = stamp, NEW k \in 0..Len(queue),
         queue' = SubSeq(queue, k + 1, Len(queue))
  PROVE  /\ queue' \in Seq(Connections)
         /\ Len(queue') = Len(queue) - k
         /\ IsInjective(queue')
         /\ Range(queue') \subseteq Range(queue)
         /\ \A i \in 1..k : queue[i] \notin Range(queue')
         /\ Ordered'
<1>1. /\ queue' \in Seq(Connections)
      /\ Len(queue') = Len(queue) - k
      /\ \A i \in 1..Len(queue') : queue'[i] = queue[i + k]
  OBVIOUS
<1>2. DOMAIN queue' = 1..Len(queue') /\ DOMAIN queue = 1..Len(queue)
  BY <1>1
<1>3. \A i \in 1..Len(queue') : i + k \in 1..Len(queue)
  BY <1>1
<1>4. \A i, j \in 1..Len(queue) : queue[i] = queue[j] => i = j
  BY <1>2 DEF IsInjective
<1>5. IsInjective(queue')
  <2> SUFFICES ASSUME NEW i \in 1..Len(queue'), NEW j \in 1..Len(queue'),
                      queue'[i] = queue'[j]
               PROVE  i = j
    BY <1>2 DEF IsInjective
  <2>1. i + k = j + k
    BY <1>1, <1>3, <1>4
  <2> QED BY <2>1
<1>6. Range(queue') \subseteq Range(queue)
  BY <1>1, <1>2, <1>3 DEF Range
<1>7. \A i \in 1..k : queue[i] \notin Range(queue')
  <2> SUFFICES ASSUME NEW i \in 1..k, NEW j \in 1..Len(queue'),
                      queue[i] = queue'[j]
               PROVE  FALSE
    BY <1>2 DEF Range
  <2>1. i \in 1..Len(queue) /\ j + k \in 1..Len(queue)
    BY <1>3
  <2>2. i = j + k
    BY <2>1, <1>1, <1>4
  <2> QED BY <2>2
<1>8. Ordered'
  <2> SUFFICES ASSUME NEW i \in 1..Len(queue'), NEW j \in 1..Len(queue'), i <= j
               PROVE  stamp[queue'[i]] <= stamp[queue'[j]]
    BY DEF Ordered
  <2>1. i + k <= j + k
    OBVIOUS
  <2>2. stamp[queue[i + k]] <= stamp[queue[j + k]]
    BY <2>1, <1>3 DEF Ordered
  <2> QED BY <2>2, <1>1
<1> QED BY <1>1, <1>5, <1>6, <1>7, <1>8

\* A connection that is not queued goes to the end with the latest time.
LEMMA PushLast ==
  ASSUME PoolInv, NEW c \in Connections, c \notin Range(queue),
         queue' = Append(queue, c), stamp' = [stamp EXCEPT ![c] = now],
         now' = now
  PROVE  /\ queue' \in Seq(Connections)
         /\ Len(queue') = Len(queue) + 1
         /\ IsInjective(queue')
         /\ Range(queue') = Range(queue) \cup {c}
         /\ stamp' \in [Connections -> 0..MaxTime]
         /\ \A d \in Connections : stamp'[d] <= now'
         /\ Ordered'
<1>1. /\ queue \in Seq(Connections)
      /\ stamp \in [Connections -> 0..MaxTime] /\ now \in 0..MaxTime
      /\ IsInjective(queue)
  BY DEF PoolInv, PoolTypeOK
<1>2. /\ queue' \in Seq(Connections)
      /\ Len(queue') = Len(queue) + 1
      /\ \A i \in 1..Len(queue) : queue'[i] = queue[i]
      /\ queue'[Len(queue) + 1] = c
  BY <1>1
<1>3. DOMAIN queue' = 1..(Len(queue) + 1) /\ DOMAIN queue = 1..Len(queue)
      /\ Len(queue) \in Nat
  BY <1>1, <1>2
<1>4. \A i \in 1..Len(queue) : queue[i] # c /\ queue[i] \in Connections
  BY <1>1, <1>3 DEF Range
<1>5. IsInjective(queue')
  BY <1>1, <1>2, <1>3, <1>4 DEF IsInjective
<1>6. Range(queue') = Range(queue) \cup {c}
  BY <1>2, <1>3 DEF Range
<1>7. stamp' \in [Connections -> 0..MaxTime]
      /\ \A d \in Connections : stamp'[d] <= now'
  BY <1>1, PoolAssumption DEF PoolInv
<1>8. Ordered'
  <2> SUFFICES ASSUME NEW i \in 1..(Len(queue) + 1),
                      NEW j \in 1..(Len(queue) + 1), i <= j
               PROVE  stamp'[queue'[i]] <= stamp'[queue'[j]]
    BY <1>2 DEF Ordered
  <2>1. CASE j = Len(queue) + 1
    <3>1. queue'[i] \in Connections /\ queue'[j] = c
      BY <2>1, <1>2, <1>3, <1>4
    <3>2. stamp'[c] = now /\ stamp'[queue'[i]] <= now
      BY <3>1, <1>1, <1>7
    <3> QED BY <3>1, <3>2
  <2>2. CASE j # Len(queue) + 1
    <3>1. i \in 1..Len(queue) /\ j \in 1..Len(queue)
      BY <2>2, <1>3
    <3>2. stamp[queue[i]] <= stamp[queue[j]]
      BY <3>1 DEF PoolInv, Ordered
    <3>3. stamp'[queue[i]] = stamp[queue[i]] /\ stamp'[queue[j]] = stamp[queue[j]]
      BY <3>1, <1>1, <1>4
    <3> QED BY <3>1, <3>2, <3>3, <1>2
  <2> QED BY <2>1, <2>2
<1> QED BY <1>2, <1>5, <1>6, <1>7, <1>8

-----------------------------------------------------------------------------
(* Who uses a connection.                                                  *)

LEMMA UsingIsFinite == IsFiniteSet(Using) /\ Cardinality(Using) \in Nat
BY PoolAssumption, FS_Subset, FS_CardinalityType DEF Using

-----------------------------------------------------------------------------
LEMMA InitInv == Init => PoolInv
<1> SUFFICES ASSUME Init PROVE PoolInv
  OBVIOUS
<1>1. cnt \in 0..Capacity /\ cnt \in Nat
  BY Sizes DEF Init
<1>2. queue = [i \in 1..cnt |-> i]
  BY DEF Init
<1>3. queue \in Seq(Connections) /\ Len(queue) = cnt /\ DOMAIN queue = 1..cnt
      /\ \A i \in 1..cnt : queue[i] = i
  <2>1. \A i \in 1..cnt : i \in Connections
    BY <1>1, Sizes DEF Connections
  <2> QED BY <1>1, <1>2, <2>1
<1>4. IsInjective(queue)
  BY <1>3 DEF IsInjective
<1>5. Using = {} /\ Cardinality(Using) = 0
  BY FS_EmptySet DEF Init, Using
<1>6. \A u \in Users : conn[u] = NoConn /\ conn[u] \notin Connections
  BY PoolAssumption, Sizes DEF Init, Connections
<1>7. /\ conn \in [Users -> Connections \cup {NoConn}]
      /\ stamp \in [Connections -> 0..MaxTime] /\ now \in 0..MaxTime
      /\ calls \in [Users -> 0..MaxCalls]
      /\ userPc \in [Users -> {"idle", "lock", "wait", "timedOut", "using"}]
  BY PoolAssumption DEF Init
<1>8. PoolTypeOK
  <2>1. loaded \in BOOLEAN /\ scannedOut \in BOOLEAN /\ undefined \in BOOLEAN
        /\ producer \in {"lock", "wait"}
    BY DEF Init
  <2>2. cnt = Len(queue) + Cardinality(Using) /\ cnt <= Capacity
    BY <1>1, <1>3, <1>5, Sizes
  <2>3. \A u \in Users : u \in Using <=> conn[u] \in Connections
    BY <1>5, <1>6
  <2> QED BY <1>3, <1>4, <1>5, <1>7, <2>1, <2>2, <2>3 DEF PoolTypeOK
<1>9. Ordered /\ \A c \in Connections : stamp[c] <= now
  BY <1>1, <1>3, Sizes DEF Init, Ordered, Connections
<1> QED BY <1>8, <1>9 DEF PoolInv

LEMMA StepInv == PoolInv /\ [Next]_vars => PoolInv'
<1> SUFFICES ASSUME PoolInv, [Next]_vars PROVE PoolInv'
  OBVIOUS
<1> USE DEF PoolInv
<1>1. CASE UNCHANGED vars
  BY <1>1 DEF vars, poolVars, userVars, PoolTypeOK, Ordered, Using
<1>2. CASE Tick
  <2>1. now' \in 0..MaxTime /\ now' >= now
    BY <1>2, PoolAssumption DEF Tick, PoolTypeOK
  <2>2. PoolTypeOK'
    BY <1>2, <2>1 DEF Tick, PoolTypeOK, poolVars, userVars, Using
  <2>3. (\A c \in Connections : stamp[c] <= now)'
    <3>1. \A c \in Connections : stamp[c] \in 0..MaxTime /\ stamp[c] <= now
      BY DEF PoolTypeOK
    <3> QED BY <3>1, <1>2, <2>1 DEF Tick, poolVars, PoolTypeOK
  <2> QED BY <1>2, <2>2, <2>3 DEF Tick, poolVars, Ordered
<1>3. CASE ProducerWait
  BY <1>3 DEF ProducerWait, Produces, PoolTypeOK, poolVars, userVars, Using, Ordered
<1>4. CASE Produce
  <2>1. userPc' \in [Users -> {"idle", "lock", "wait", "timedOut", "using"}]
        /\ Using' = Using
    BY <1>4 DEF Produce, WakeUsers, Using, PoolTypeOK
  <2>2. CASE cnt < MaxSize
    <3>1. PICK c \in Connections \ Existing :
            /\ queue' = Append(queue, c)
            /\ stamp' = [stamp EXCEPT ![c] = now]
            /\ cnt' = cnt + 1
            /\ scannedOut' = FALSE
      BY <1>4, <2>2 DEF Produce
    <3>2. /\ queue' \in Seq(Connections)
          /\ Len(queue') = Len(queue) + 1
          /\ IsInjective(queue')
          /\ Range(queue') = Range(queue) \cup {c}
          /\ stamp' \in [Connections -> 0..MaxTime]
          /\ \A d \in Connections : stamp'[d] <= now'
          /\ Ordered'
      BY <1>4, <3>1, PushLast DEF Produce, Existing
    <3>3. \A u \in Using : conn[u] # c
      BY <3>1 DEF Existing, Held
    <3>4. cnt' = Len(queue') + Cardinality(Using') /\ cnt' <= Capacity
      <4>1. Len(queue) \in Nat
        BY DEF PoolTypeOK
      <4> QED BY <2>1, <2>2, <3>1, <3>2, <4>1, UsingIsFinite, Sizes DEF PoolTypeOK
    <3>5. PoolTypeOK'
      BY <1>4, <2>1, <3>1, <3>2, <3>3, <3>4 DEF Produce, Produces, PoolTypeOK
    <3> QED BY <3>2, <3>5
  <2>3. CASE ~(cnt < MaxSize)
    <3>1. UNCHANGED <<loaded, poolVars, now, producer, conn, calls, scannedOut, undefined>>
      BY <1>4, <2>3 DEF Produce
    <3>2. PoolTypeOK'
      BY <3>1, <2>1 DEF PoolTypeOK, poolVars
    <3> QED BY <3>1, <3>2 DEF poolVars, Ordered
  <2> QED BY <2>2, <2>3
<1>5. ASSUME NEW u \in Users, Call(u) \/ UserWait(u) \/ TimeOut(u)
                              \/ SpuriousWakeup(u) \/ GiveUp(u)
      PROVE  PoolInv'
  <2>1. /\ userPc[u] # "using"
        /\ \E pc \in {"lock", "wait", "timedOut", "idle"} :
             userPc' = [userPc EXCEPT ![u] = pc]
        /\ UNCHANGED <<loaded, poolVars, now, producer, conn, scannedOut, undefined>>
    BY <1>5 DEF Call, UserWait, TimeOut, SpuriousWakeup, GiveUp
  <2>2. userPc' \in [Users -> {"idle", "lock", "wait", "timedOut", "using"}]
        /\ Using' = Using
    BY <2>1 DEF PoolTypeOK, Using
  <2>3. calls' \in [Users -> 0..MaxCalls]
    <3>1. CASE calls' = calls
      BY <3>1 DEF PoolTypeOK
    <3>2. CASE Call(u)
      <4>1. calls[u] + 1 \in 0..MaxCalls
        BY <3>2, PoolAssumption DEF Call, PoolTypeOK
      <4> QED BY <3>2, <4>1 DEF Call, PoolTypeOK
    <3> QED BY <1>5, <3>1, <3>2 DEF UserWait, TimeOut, SpuriousWakeup, GiveUp
  <2>4. PoolTypeOK'
    BY <2>1, <2>2, <2>3 DEF PoolTypeOK, poolVars
  <2> QED BY <2>1, <2>4 DEF poolVars, Ordered
<1>6. ASSUME NEW u \in Users, Take(u) PROVE PoolInv'
  <2>1. /\ queue \in Seq(Connections) /\ queue # << >>
        /\ userPc \in [Users -> {"idle", "lock", "wait", "timedOut", "using"}]
        /\ userPc[u] \in {"lock", "timedOut"}
    BY <1>6 DEF Take, PoolTypeOK
  <2>2. Len(queue) \in Nat /\ Len(queue) > 0
        /\ Head(queue) = queue[1] /\ queue[1] \in Connections
    BY <2>1
  <2>3. queue' = SubSeq(queue, 1 + 1, Len(queue)) /\ 1 \in 0..Len(queue)
    BY <1>6, <2>1, <2>2 DEF Take, Pop
  <2>4. /\ queue' \in Seq(Connections)
        /\ Len(queue') = Len(queue) - 1
        /\ IsInjective(queue')
        /\ Range(queue') \subseteq Range(queue)
        /\ \A i \in 1..1 : queue[i] \notin Range(queue')
        /\ Ordered'
    BY <1>6, <2>1, <2>3, DropFirst DEF Take, PoolTypeOK
  <2>5. userPc' \in [Users -> {"idle", "lock", "wait", "timedOut", "using"}]
        /\ Using' = Using \cup {u} /\ u \notin Using
        /\ producer' = "lock"
    BY <1>6, <2>1 DEF Take, NotifyAll, Using
  <2>6. conn' = [conn EXCEPT ![u] = queue[1]]
    BY <1>6, <2>2 DEF Take
  <2>7. conn' \in [Users -> Connections \cup {NoConn}]
        /\ conn'[u] = queue[1] /\ \A v \in Users : v # u => conn'[v] = conn[v]
    BY <2>2, <2>6 DEF PoolTypeOK
  <2>8. queue[1] \in Range(queue) /\ queue[1] \notin Range(queue')
    BY <2>2, <2>4, <2>1 DEF Range
  <2>9. \A v \in Users : v \in Using' <=> conn'[v] \in Connections
    BY <2>2, <2>5, <2>7 DEF PoolTypeOK
  <2>10. \A v \in Using : v # u /\ v \in Users /\ conn'[v] = conn[v]
                          /\ conn[v] \notin Range(queue)
    BY <2>5, <2>7 DEF PoolTypeOK, Using
  <2>11. \A v \in Using' : conn'[v] \notin Range(queue')
    BY <2>4, <2>5, <2>7, <2>8, <2>10
  <2>12. \A v, w \in Using' : conn'[v] = conn'[w] => v = w
    <3>1. \A v, w \in Using : conn'[v] = conn'[w] => v = w
      BY <2>10 DEF PoolTypeOK
    <3>2. \A v \in Using : conn'[v] # conn'[u]
      BY <2>7, <2>8, <2>10
    <3> QED BY <2>5, <3>1, <3>2
  <2>13. cnt' = Len(queue') + Cardinality(Using') /\ cnt' <= Capacity
    <3>1. Cardinality(Using') = Cardinality(Using) + 1
      BY <2>5, UsingIsFinite, FS_AddElement
    <3>2. cnt' = cnt
      BY <1>6 DEF Take
    <3> QED BY <2>2, <2>4, <3>1, <3>2, UsingIsFinite DEF PoolTypeOK
  <2>14. PoolTypeOK'
    BY <1>6, <2>4, <2>5, <2>7, <2>9, <2>11, <2>12, <2>13 DEF Take, PoolTypeOK
  <2>15. (\A c \in Connections : stamp[c] <= now)'
    BY <1>6 DEF Take
  <2> QED BY <2>4, <2>14, <2>15
<1>7. ASSUME NEW u \in Users, GiveBack(u) PROVE PoolInv'
  <2>1. u \in Using /\ conn[u] \in Connections /\ conn[u] \notin Range(queue)
    BY <1>7 DEF GiveBack, Using, PoolTypeOK
  <2>2. /\ queue' \in Seq(Connections)
        /\ Len(queue') = Len(queue) + 1
        /\ IsInjective(queue')
        /\ Range(queue') = Range(queue) \cup {conn[u]}
        /\ stamp' \in [Connections -> 0..MaxTime]
        /\ \A d \in Connections : stamp'[d] <= now'
        /\ Ordered'
    BY <1>7, <2>1, PushLast DEF GiveBack, Refresh
  <2>3. userPc' \in [Users -> {"idle", "lock", "wait", "timedOut", "using"}]
        /\ Using' = Using \ {u}
    BY <1>7 DEF GiveBack, Using, PoolTypeOK
  <2>4. conn' \in [Users -> Connections \cup {NoConn}]
        /\ conn'[u] = NoConn /\ \A v \in Users : v # u => conn'[v] = conn[v]
    BY <1>7 DEF GiveBack, PoolTypeOK
  <2>5. NoConn \notin Connections
    BY PoolAssumption, Sizes DEF Connections
  <2>6. \A v \in Users : v \in Using' <=> conn'[v] \in Connections
    BY <2>1, <2>3, <2>4, <2>5 DEF PoolTypeOK
  <2>7. \A v \in Using' : v \in Using /\ v \in Users /\ v # u /\ conn'[v] = conn[v]
    BY <2>3, <2>4 DEF Using
  <2>8. \A v \in Using' : conn'[v] \notin Range(queue')
    BY <2>1, <2>2, <2>7 DEF PoolTypeOK
  <2>9. \A v, w \in Using' : conn'[v] = conn'[w] => v = w
    BY <2>7 DEF PoolTypeOK
  <2>10. cnt' = Len(queue') + Cardinality(Using') /\ cnt' <= Capacity
    <3>1. Cardinality(Using') = Cardinality(Using) - 1
      BY <2>1, <2>3, UsingIsFinite, FS_RemoveElement
    <3>2. cnt' = cnt /\ Len(queue) \in Nat
      BY <1>7 DEF GiveBack, PoolTypeOK
    <3> QED BY <2>2, <3>1, <3>2, UsingIsFinite DEF PoolTypeOK
  <2>11. PoolTypeOK'
    BY <1>7, <2>2, <2>3, <2>4, <2>6, <2>8, <2>9, <2>10 DEF GiveBack, PoolTypeOK
  <2> QED BY <2>2, <2>11
<1>8. CASE Scan
  <2>1. PICK k \in 0..Len(queue) :
          /\ queue' = SubSeq(queue, k + 1, Len(queue))
          /\ cnt' = cnt - k
    BY <1>8 DEF Scan
  <2>2. UNCHANGED <<loaded, stamp, now, producer, userPc, conn, calls>>
        /\ scannedOut' \in BOOLEAN /\ undefined' \in BOOLEAN
    BY <1>8 DEF Scan, userVars, PoolTypeOK
  <2>3. /\ queue' \in Seq(Connections)
        /\ Len(queue') = Len(queue) - k
        /\ IsInjective(queue')
        /\ Range(queue') \subseteq Range(queue)
        /\ Ordered'
    BY <2>1, <2>2, DropFirst DEF PoolTypeOK
  <2>4. Using' = Using
    BY <2>2 DEF Using
  <2>5. cnt' = Len(queue') + Cardinality(Using') /\ cnt' <= Capacity
    <3>1. Len(queue) \in Nat
      BY DEF PoolTypeOK
    <3> QED BY <2>1, <2>3, <2>4, <3>1, UsingIsFinite, Sizes DEF PoolTypeOK
  <2>6. \A v \in Using' : conn'[v] \notin Range(queue')
    BY <2>2, <2>3, <2>4 DEF PoolTypeOK
  <2>7. PoolTypeOK'
    BY <2>2, <2>3, <2>4, <2>5, <2>6 DEF PoolTypeOK
  <2>8. (\A c \in Connections : stamp[c] <= now)'
    BY <2>2
  <2> QED BY <2>3, <2>7, <2>8
<1>9. CASE Terminated
  BY <1>1, <1>9 DEF Terminated
<1> QED BY <1>1, <1>2, <1>3, <1>4, <1>5, <1>6, <1>7, <1>8, <1>9
        DEF Next, Producer, User, Get

LEMMA InvHolds == Spec => []PoolInv
BY InitInv, StepInv, PTL DEF Spec

-----------------------------------------------------------------------------
(* The theorems.                                                           *)

\* The counter of the pool is the number of its connections, each of them is in
\* the queue once or held by one caller, and the limit is kept, for every
\* configuration (PoolTypeOK; ConnectionPool.h:146-152, 177-187, 201-206).
THEOREM PoolTypeCorrect == Spec => []PoolTypeOK
<1>1. PoolInv => PoolTypeOK
  BY DEF PoolInv
<1> QED BY <1>1, InvHolds, PTL

\* The early end of a scan is right: when the front of the queue has not
\* expired, nothing behind it has (FrontExpiresFirst;
\* ConnectionPool.h:180-182, 201-210).
THEOREM FrontIsOldest == Spec => []FrontExpiresFirst
<1>1. PoolInv => FrontExpiresFirst
  <2> SUFFICES ASSUME PoolInv, queue # << >>, ~Expired(Head(queue)),
                      NEW i \in DOMAIN queue
               PROVE  ~Expired(queue[i])
    BY DEF FrontExpiresFirst
  <2>1. queue \in Seq(Connections) /\ stamp \in [Connections -> 0..MaxTime]
        /\ now \in 0..MaxTime
    BY DEF PoolInv, PoolTypeOK
  <2>2. i \in 1..Len(queue) /\ 1 \in 1..Len(queue) /\ 1 <= i
        /\ Head(queue) = queue[1]
        /\ queue[1] \in Connections /\ queue[i] \in Connections
    BY <2>1
  <2>3. stamp[queue[1]] <= stamp[queue[i]]
    BY <2>2 DEF PoolInv, Ordered
  <2>4. stamp[queue[1]] \in Int /\ stamp[queue[i]] \in Int /\ now \in Int
    BY <2>1, <2>2
  <2> QED BY <2>2, <2>3, <2>4, PoolAssumption DEF Expired
<1> QED BY <1>1, InvHolds, PTL

\* No caller leaves the producer asleep with an empty queue: only the scanner
\* does (ProducerIsCalled; ConnectionPool.h:140-155, 185-187).
THEOREM ProducerIsAwake == Spec => []ProducerIsCalled
<1>1. Init => ProducerIsCalled
  BY DEF Init, ProducerIsCalled
<1>2. PoolInv /\ ProducerIsCalled /\ [Next]_vars => ProducerIsCalled'
  <2> SUFFICES ASSUME PoolInv, ProducerIsCalled, [Next]_vars
               PROVE  ProducerIsCalled'
    OBVIOUS
  <2>1. CASE UNCHANGED vars
    BY <2>1 DEF vars, poolVars, ProducerIsCalled
  <2>2. CASE Tick
    BY <2>2 DEF Tick, poolVars, ProducerIsCalled
  <2>3. CASE ProducerWait
    BY <2>3 DEF ProducerWait, poolVars, ProducerIsCalled
  <2>4. CASE Produce
    BY <2>4 DEF Produce, Produces, ProducerIsCalled
  <2>5. ASSUME NEW u \in Users, Call(u) \/ UserWait(u) \/ TimeOut(u)
                                \/ SpuriousWakeup(u) \/ GiveUp(u)
        PROVE  ProducerIsCalled'
    BY <2>5 DEF Call, UserWait, TimeOut, SpuriousWakeup, GiveUp, poolVars,
                ProducerIsCalled
  <2>6. ASSUME NEW u \in Users, Take(u) PROVE ProducerIsCalled'
    BY <2>6 DEF Take, NotifyAll, ProducerIsCalled
  <2>7. ASSUME NEW u \in Users, GiveBack(u) PROVE ProducerIsCalled'
    <3>1. queue \in Seq(Connections) /\ conn[u] \in Connections
      BY <2>7 DEF GiveBack, PoolInv, PoolTypeOK, Using
    <3>2. queue' # << >>
      BY <2>7, <3>1 DEF GiveBack
    <3> QED BY <3>2 DEF ProducerIsCalled
  <2>8. CASE Scan
    <3>1. PICK k \in 0..Len(queue) :
            /\ queue' = SubSeq(queue, k + 1, Len(queue))
            /\ scannedOut' = (scannedOut \/ (k > 0 /\ k = Len(queue)))
      BY <2>8 DEF Scan
    <3>2. queue \in Seq(Connections) /\ producer' = producer
          /\ scannedOut \in BOOLEAN
      BY <2>8 DEF Scan, PoolInv, PoolTypeOK
    <3>3. CASE k = Len(queue) /\ k > 0
      BY <3>1, <3>3 DEF ProducerIsCalled
    <3>4. CASE k = Len(queue) /\ k = 0
      <4>1. queue = << >>
        BY <3>2, <3>4, EmptySeq
      <4>2. scannedOut => scannedOut'
        BY <3>1
      <4> QED BY <3>2, <4>1, <4>2 DEF ProducerIsCalled
    <3>5. CASE k # Len(queue)
      <4>1. Len(queue) \in Nat /\ Len(queue') = Len(queue) - k
        BY <3>1, <3>2
      <4>2. Len(queue') # 0 /\ Len(<< >>) = 0
        BY <3>5, <4>1
      <4>3. queue' # << >>
        BY <4>2
      <4> QED BY <4>3 DEF ProducerIsCalled
    <3>6. k = 0 \/ k > 0
      OBVIOUS
    <3> QED BY <3>3, <3>4, <3>5, <3>6
  <2>9. CASE Terminated
    BY <2>1, <2>9 DEF Terminated
  <2> QED BY <2>1, <2>2, <2>3, <2>4, <2>5, <2>6, <2>7, <2>8, <2>9
          DEF Next, Producer, User, Get
<1> QED BY <1>1, <1>2, InvHolds, PTL DEF Spec
=============================================================================

-------------------------- MODULE ThreadPoolProofs --------------------------
(***************************************************************************)
(* Proofs about ThreadPool, for any number of workers, any queue size, any *)
(* clients and tasks: type correctness, the circular queue is a queue, and *)
(* no worker sleeps while a task has nobody coming for it.                 *)
(***************************************************************************)
EXTENDS ThreadPool, SequenceTheorems, FiniteSetTheorems, TLAPS

-----------------------------------------------------------------------------
(* The indices.                                                            *)

\* An index that runs at most one turn ahead needs at most one subtraction.
LEMMA Wrap ==
  ASSUME NEW N \in Nat \ {0}, NEW a \in 0..(2 * N - 1)
  PROVE  a % N = IF a < N THEN a ELSE a - N
<1>1. CASE a < N
  BY <1>1
<1>2. CASE a >= N
  BY <1>2
<1> QED BY <1>1, <1>2

\* The slot of the i-th queued task.
At(i) == (head + i - 1) % QueueSize

\* These slots are in the array, and they are different.
LEMMA AtIsSlot ==
  ASSUME TypeOK, PoolAssumption, NEW i \in 1..(QueueSize + 1)
  PROVE  /\ At(i) = IF head + i - 1 < QueueSize THEN head + i - 1
                                                ELSE head + i - 1 - QueueSize
         /\ At(i) \in Slots
<1>1. QueueSize \in Nat \ {0} /\ head \in 0..(QueueSize - 1)
  BY DEF TypeOK, Slots, PoolAssumption
<1>2. head + i - 1 \in 0..(2 * QueueSize - 1)
  BY <1>1
<1>3. At(i) = IF head + i - 1 < QueueSize THEN head + i - 1
                                          ELSE head + i - 1 - QueueSize
  <2>1. PICK k \in 0..(2 * QueueSize - 1) : k = head + i - 1
    BY <1>2
  <2>2. k % QueueSize = IF k < QueueSize THEN k ELSE k - QueueSize
    BY <1>1, Wrap
  <2> QED BY <1>1, <2>1, <2>2 DEF At
<1> QED BY <1>1, <1>3 DEF Slots

LEMMA AtIsInjective ==
  ASSUME TypeOK, PoolAssumption, NEW i \in 1..QueueSize, NEW j \in 1..QueueSize, i # j
  PROVE  At(i) # At(j)
<1>1. QueueSize \in Nat \ {0} /\ head \in 0..(QueueSize - 1)
  BY DEF TypeOK, Slots, PoolAssumption
<1>2. i \in 1..(QueueSize + 1) /\ j \in 1..(QueueSize + 1)
  BY <1>1
<1> QED BY <1>1, <1>2, AtIsSlot

\* A step that leaves the queue's variables alone leaves its content alone.
LEMMA SameQueue ==
  ASSUME UNCHANGED queueVars
  PROVE  Queued' = Queued
BY DEF queueVars, Queued

\* The content is a sequence whose elements are in the slots.
LEMMA QueuedIsSeq ==
  ASSUME TypeOK, PoolAssumption
  PROVE  /\ Queued \in Seq(Tasks \cup {NoTask})
         /\ Len(Queued) = count
         /\ \A i \in 1..count : Queued[i] = slots[At(i)]
<1>1. QueueSize \in Nat \ {0} /\ count \in 0..QueueSize
  BY DEF TypeOK, PoolAssumption
<1>2. \A i \in 1..count : slots[At(i)] \in Tasks \cup {NoTask}
  <2> SUFFICES ASSUME NEW i \in 1..count
               PROVE  slots[At(i)] \in Tasks \cup {NoTask}
    OBVIOUS
  <2>1. i \in 1..(QueueSize + 1)
    BY <1>1
  <2> QED BY <2>1, AtIsSlot DEF TypeOK
<1>3. Queued = [i \in 1..count |-> slots[At(i)]]
  BY DEF Queued, At
<1>4. count \in Nat
  BY <1>1
<1> QED BY <1>2, <1>3, <1>4

\* Writing the tail slot appends to the content.
LEMMA PostAppends ==
  ASSUME TypeOK, PoolAssumption, count < QueueSize, NEW t \in Tasks,
         slots' = [slots EXCEPT ![tail] = t],
         head' = head, count' = count + 1
  PROVE  Queued' = Append(Queued, t)
<1> DEFINE T == Tasks \cup {NoTask}
<1>1. QueueSize \in Nat \ {0} /\ count \in Nat /\ count < QueueSize
      /\ head \in Nat /\ slots \in [Slots -> T] /\ tail \in Slots
  BY DEF TypeOK, PoolAssumption, Slots
<1>2. tail = At(count + 1)
  BY <1>1 DEF TypeOK, At
<1>3. /\ Append(Queued, t) \in Seq(T)
      /\ Len(Append(Queued, t)) = count + 1
      /\ \A i \in 1..count : Append(Queued, t)[i] = slots[At(i)]
      /\ Append(Queued, t)[count + 1] = t
  BY QueuedIsSeq, AppendProperties
<1>4. Queued' = [i \in 1..(count + 1) |-> slots'[At(i)]]
  BY DEF Queued, At
<1>5. ASSUME NEW i \in 1..count PROVE slots'[At(i)] = slots[At(i)]
  <2>1. i \in 1..QueueSize /\ count + 1 \in 1..QueueSize /\ i # count + 1
        /\ i \in 1..(QueueSize + 1)
    BY <1>1
  <2>2. At(i) # tail /\ At(i) \in Slots
    BY <2>1, <1>2, AtIsInjective, AtIsSlot
  <2> QED BY <2>2, <1>1
<1>6. slots'[At(count + 1)] = t
  BY <1>1, <1>2
<1>7. \A i \in 1..(count + 1) : slots'[At(i)] = Append(Queued, t)[i]
  <2> TAKE i \in 1..(count + 1)
  <2>1. CASE i = count + 1
    BY <2>1, <1>3, <1>6
  <2>2. CASE i # count + 1
    <3>1. i \in 1..count
      BY <2>2, <1>1
    <3> QED BY <3>1, <1>3, <1>5
  <2> QED BY <2>1, <2>2
<1> DEFINE a == Append(Queued, t)
<1>8. a \in Seq(T) /\ Len(a) = count + 1
  BY <1>3
<1>9. Queued' = [i \in 1..(count + 1) |-> a[i]]
  BY <1>4, <1>7
<1> HIDE DEF a
<1>10. a = [i \in 1..(count + 1) |-> a[i]]
  BY <1>8
<1> QED BY <1>9, <1>10 DEF a

\* Moving the head takes the first element off the content.
LEMMA TakeRemovesHead ==
  ASSUME TypeOK, PoolAssumption, count > 0,
         head' = (head + 1) % QueueSize, count' = count - 1, slots' = slots
  PROVE  /\ Queued' \in Seq(Tasks \cup {NoTask})
         /\ Queued = <<slots[head]>> \o Queued'
<1> DEFINE T == Tasks \cup {NoTask}
<1>1. QueueSize \in Nat \ {0} /\ count \in 1..QueueSize
      /\ head \in 0..(QueueSize - 1) /\ slots \in [Slots -> T]
  BY DEF TypeOK, PoolAssumption, Slots
<1>2. /\ Queued \in Seq(T) /\ Len(Queued) = count
      /\ \A i \in 1..count : Queued[i] = slots[At(i)]
  BY QueuedIsSeq
<1>3. At(1) = head
  BY <1>1, AtIsSlot
<1>4. ASSUME NEW i \in 1..(count - 1)
      PROVE  (((head + 1) % QueueSize) + i - 1) % QueueSize = At(i + 1)
  <2>1. i \in 1..(QueueSize - 1) /\ i + 1 \in 1..(QueueSize + 1)
    BY <1>1
  <2> DEFINE h == (head + 1) % QueueSize
  <2>2. h = IF head + 1 < QueueSize THEN head + 1 ELSE head + 1 - QueueSize
    <3>1. PICK k \in 0..(2 * QueueSize - 1) : k = head + 1
      BY <1>1
    <3>2. k % QueueSize = IF k < QueueSize THEN k ELSE k - QueueSize
      BY <1>1, Wrap
    <3> QED BY <1>1, <3>1, <3>2
  <2>3. At(i + 1) = IF head + i < QueueSize THEN head + i
                                            ELSE head + i - QueueSize
    <3>1. At(i + 1) = IF head + (i + 1) - 1 < QueueSize
                      THEN head + (i + 1) - 1
                      ELSE head + (i + 1) - 1 - QueueSize
      BY <2>1, AtIsSlot
    <3> QED BY <1>1, <2>1, <3>1
  <2> HIDE DEF h
  <2>4. PICK k \in 0..(2 * QueueSize - 1) : k = h + i - 1
    BY <1>1, <2>1, <2>2
  <2>5. k % QueueSize = IF k < QueueSize THEN k ELSE k - QueueSize
    BY <1>1, Wrap
  <2>6. (h + i - 1) % QueueSize = At(i + 1)
    <3>1. (h + i - 1) % QueueSize = k % QueueSize
      BY <2>4
    <3>2. (IF k < QueueSize THEN k ELSE k - QueueSize)
            = IF head + i < QueueSize THEN head + i ELSE head + i - QueueSize
      BY <1>1, <2>1, <2>2, <2>4
    <3> QED BY <2>3, <2>5, <3>1, <3>2
  <2> QED BY <2>6 DEF h
<1>5. Queued' = [i \in 1..(count - 1) |->
                   slots[(((head + 1) % QueueSize) + i - 1) % QueueSize]]
  BY DEF Queued
<1>6. Queued' = [i \in 1..(count - 1) |-> Queued[i + 1]]
  <2>1. \A i \in 1..(count - 1) :
          slots[(((head + 1) % QueueSize) + i - 1) % QueueSize] = Queued[i + 1]
    <3> TAKE i \in 1..(count - 1)
    <3>1. i + 1 \in 1..count
      BY <1>1
    <3> QED BY <3>1, <1>2, <1>4
  <2> QED BY <1>5, <2>1
<1>7. Queued # << >> /\ Head(Queued) = slots[head]
  <2>1. 1 \in 1..count
    BY <1>1
  <2> QED BY <1>1, <1>2, <1>3, <2>1
<1>8. Tail(Queued) = [i \in 1..(count - 1) |-> Queued[i + 1]]
  <2> DEFINE q == Tail(Queued)
  <2>1. q \in Seq(T) /\ Len(q) = count - 1
        /\ \A i \in 1..(count - 1) : q[i] = Queued[i + 1]
    BY <1>2, <1>7, HeadTailProperties
  <2> HIDE DEF q
  <2>2. q = [i \in 1..(count - 1) |-> q[i]]
    BY <2>1
  <2> QED BY <2>1, <2>2 DEF q
<1>9. Queued' = Tail(Queued) /\ Queued' \in Seq(T)
  BY <1>2, <1>6, <1>7, <1>8, HeadTailProperties
<1>10. Queued = <<Head(Queued)>> \o Tail(Queued)
  BY <1>2, <1>7, HeadTailProperties, ConcatProperties
<1> QED BY <1>7, <1>9, <1>10

-----------------------------------------------------------------------------
(* Type correctness and the order of the queue.                            *)

\* A worker that runs has a task: this is what keeps done typed, and it holds
\* because the head slot of a queue that is not empty was written by a post.
RunsTask == \A w \in Workers : workerPc[w] = "run" => task[w] \in Tasks

QueueInv == TypeOK /\ QueueOrder /\ RunsTask

LEMMA HeadIsTask ==
  ASSUME QueueInv, PoolAssumption, count > 0
  PROVE  slots[head] \in Tasks
<1> DEFINE T == Tasks \cup {NoTask}
<1>1. /\ Queued \in Seq(T) /\ Len(Queued) = count
      /\ Queued[1] = slots[At(1)] /\ count \in Nat \ {0}
  <2>1. count \in Nat \ {0} /\ 1 \in 1..count
    BY DEF QueueInv, TypeOK
  <2> QED BY <2>1, QueuedIsSeq DEF QueueInv
<1>2. At(1) = head
  <2>1. 1 \in 1..(QueueSize + 1) /\ head \in 0..(QueueSize - 1)
        /\ QueueSize \in Nat \ {0}
    BY DEF QueueInv, TypeOK, Slots, PoolAssumption
  <2> QED BY <2>1, AtIsSlot DEF QueueInv
<1>3. taken \in Seq(T) /\ taken \in Seq(Tasks) /\ posted \in Seq(Tasks)
  BY DEF QueueInv, TypeOK
<1>4. Len(taken) \in Nat /\ posted = taken \o Queued
  BY <1>3 DEF QueueInv, QueueOrder
<1>5. Len(posted) = Len(taken) + count
      /\ posted[Len(taken) + 1] = Queued[1]
  <2>1. Len(taken \o Queued) = Len(taken) + Len(Queued)
        /\ \A i \in 1 .. Len(taken) + Len(Queued) : (taken \o Queued)[i] =
              IF i <= Len(taken) THEN taken[i] ELSE Queued[i - Len(taken)]
    BY <1>1, <1>3, ConcatProperties
  <2>2. Len(taken) + 1 \in 1 .. Len(taken) + Len(Queued)
    BY <1>1, <1>4
  <2>3. (taken \o Queued)[Len(taken) + 1] = Queued[(Len(taken) + 1) - Len(taken)]
    BY <2>1, <2>2, <1>4
  <2>4. (Len(taken) + 1) - Len(taken) = 1
    BY <1>4
  <2> QED BY <1>1, <1>4, <2>1, <2>3, <2>4
<1>6. Len(taken) + 1 \in 1..Len(posted)
  BY <1>1, <1>4, <1>5
<1>7. posted[Len(taken) + 1] \in Tasks
  BY <1>3, <1>6
<1> QED BY <1>1, <1>2, <1>5, <1>7

\* Sets of workers are finite.
LEMMA FiniteWorkers ==
  ASSUME PoolAssumption, NEW S \in SUBSET Workers
  PROVE  IsFiniteSet(S) /\ Cardinality(S) \in 0..ThreadCount
<1>1. IsFiniteSet(Workers) /\ Cardinality(Workers) = ThreadCount
  BY FS_Interval DEF Workers, PoolAssumption
<1>2. IsFiniteSet(S) /\ Cardinality(S) <= ThreadCount
  BY <1>1, FS_Subset
<1> QED BY <1>2, FS_CardinalityType DEF PoolAssumption

LEMMA InitQueueInv == ASSUME PoolAssumption, Init PROVE QueueInv
<1>1. Alive = {} /\ Alive \in SUBSET Workers
  BY DEF Init, Alive
<1>2. Cardinality(Alive) = 0
  BY <1>1, FS_EmptySet
<1>3. 0 % QueueSize = 0 /\ 0 + 0 = 0
  BY DEF PoolAssumption
<1>4. TypeOK
  <2>1. 0 \in Slots /\ 0 \in 0..QueueSize /\ 0 \in 0..ThreadCount
    BY DEF Slots, PoolAssumption
  <2>2. \A w \in Workers : w > 0
    BY DEF Workers, PoolAssumption
  <2>3. /\ slots \in [Slots -> Tasks \cup {NoTask}]
        /\ workerPc \in [Workers -> {"none", "lock", "wait", "run", "exited"}]
        /\ task \in [Workers -> Tasks \cup {NoTask}]
        /\ clientPc \in [Clients -> {"idle", "join", "destroyed", "failed"}]
        /\ posted \in Seq(Tasks) /\ taken \in Seq(Tasks)
    BY DEF Init
  <2>4. /\ \A w \in Workers : workerPc[w] = "none" <=> w > spawned
        /\ \A c \in Clients : clientPc[c] # "idle" => closed
    BY <2>2 DEF Init
  <2>5. tail = (head + count) % QueueSize /\ started = Cardinality(Alive)
    BY <1>2, <1>3 DEF Init
  <2> QED BY <2>1, <2>3, <2>4, <2>5 DEF Init, TypeOK
<1>5. QueueOrder
  <2>1. Queued = << >>
    <3>1. Queued \in Seq(Tasks \cup {NoTask}) /\ Len(Queued) = 0
      BY <1>4, QueuedIsSeq DEF Init
    <3> QED BY <3>1, EmptySeq
  <2> QED BY <2>1 DEF Init, QueueOrder
<1>6. RunsTask
  BY DEF Init, RunsTask
<1> QED BY <1>4, <1>5, <1>6 DEF QueueInv

\* What the control of one worker does to the number of threads.
LEMMA AliveSame ==
  ASSUME \A w \in Workers : workerPc'[w] \in {"lock", "wait", "run"}
                              <=> workerPc[w] \in {"lock", "wait", "run"}
  PROVE  Alive' = Alive
BY DEF Alive

\* The step lemma, for the steps that leave the queue and its history alone.
LEMMA QuietStep ==
  ASSUME QueueInv, PoolAssumption, TypeOK', RunsTask',
         UNCHANGED <<queueVars, posted, taken>>
  PROVE  QueueInv'
<1>1. Queued' = Queued
  BY SameQueue
<1> QED BY <1>1 DEF QueueInv, QueueOrder

\* Taking a task.
LEMMA TakeKeepsInv ==
  ASSUME QueueInv, PoolAssumption, NEW w \in Workers, Take(w)
  PROVE  QueueInv'
<1> USE DEF QueueInv
<1>1. slots[head] \in Tasks
  BY HeadIsTask DEF Take, TypeOK
<1>2. Alive' = Alive
  BY AliveSame DEF Take, Acquires, TypeOK
<1>3. tail' = (head' + count') % QueueSize
  <2>1. QueueSize \in Nat \ {0} /\ head \in 0..(QueueSize - 1)
        /\ count \in 1..QueueSize
    BY DEF TypeOK, Slots, PoolAssumption, Take
  <2>2. PICK k \in 0..(2 * QueueSize - 1) : k = head + 1
    BY <2>1
  <2>3. head' = IF k < QueueSize THEN k ELSE k - QueueSize
    BY <2>1, <2>2, Wrap DEF Take
  <2>4. PICK l \in 0..(2 * QueueSize - 1) : l = head + count
    BY <2>1
  <2>5. tail = IF l < QueueSize THEN l ELSE l - QueueSize
    BY <2>1, <2>4, Wrap DEF TypeOK
  <2>6. PICK j \in 0..(2 * QueueSize - 1) : j = head' + count'
    BY <2>1, <2>2, <2>3 DEF Take
  <2>7. j % QueueSize = IF j < QueueSize THEN j ELSE j - QueueSize
    BY <2>1, <2>6, Wrap
  <2>8. tail' = tail /\ count' = count - 1
    BY DEF Take
  <2>9. tail = IF j < QueueSize THEN j ELSE j - QueueSize
    BY <2>1, <2>2, <2>3, <2>4, <2>5, <2>6, <2>8
  <2> QED BY <2>6, <2>7, <2>8, <2>9
<1>4. TypeOK'
  <2>1. head' \in Slots
    <3>1. QueueSize \in Nat \ {0} /\ head + 1 \in Nat
      BY DEF TypeOK, Slots, PoolAssumption
    <3> QED BY <3>1 DEF Take, Slots
  <2>2. count' \in 0..QueueSize
    BY DEF TypeOK, Take, PoolAssumption
  <2>3. taken' \in Seq(Tasks)
    BY <1>1 DEF TypeOK, Take
  <2>4. /\ workerPc' \in [Workers -> {"none", "lock", "wait", "run", "exited"}]
        /\ task' \in [Workers -> Tasks \cup {NoTask}]
    BY <1>1 DEF TypeOK, Take
  <2>5. stranded' \subseteq {v \in Workers : workerPc'[v] = "wait"}
    BY DEF TypeOK, Take, Acquires
  <2>6. \A v \in Workers : workerPc'[v] = "none" <=> v > spawned'
    BY DEF TypeOK, Take, Acquires, createVars
  <2> QED BY <1>2, <1>3, <2>1, <2>2, <2>3, <2>4, <2>5, <2>6
          DEF TypeOK, Take, createVars, poolVars
<1>5. QueueOrder'
  <2> DEFINE T == Tasks \cup {NoTask}
  <2>1. Queued' \in Seq(T) /\ Queued = <<slots[head]>> \o Queued'
    BY TakeRemovesHead DEF Take
  <2>2. taken \in Seq(T) /\ <<slots[head]>> \in Seq(T) /\ slots[head] \in T
    BY <1>1 DEF TypeOK
  <2>3. taken' = taken \o <<slots[head]>>
    BY <2>2, AppendIsConcat DEF Take
  <2> DEFINE h == <<slots[head]>>
             q == Queued'
  <2>4. q \in Seq(T) /\ h \in Seq(T)
    BY <2>1, <2>2
  <2> HIDE DEF h, q, T
  <2>5. taken \o (h \o q) = (taken \o h) \o q
    <3>1. taken \in Seq(T) /\ h \in Seq(T) /\ q \in Seq(T)
      BY <2>2, <2>4
    <3> QED BY <3>1, ConcatAssociative, SMTT(60)
  <2>6. posted = taken \o (h \o q)
    BY <2>1 DEF h, q, QueueOrder
  <2>7. posted' = posted /\ taken' = taken \o h
    BY <2>3 DEF h, Take
  <2> QED BY <2>5, <2>6, <2>7 DEF q, QueueOrder
<1>6. RunsTask'
  BY <1>1 DEF RunsTask, Take, TypeOK
<1> QED BY <1>4, <1>5, <1>6

\* Waking sleepers disturbs neither the types nor the number of threads.
LEMMA WakeupKeepsTypes ==
  ASSUME TypeOK, RunsTask, NEW S \in SUBSET Sleeping,
         workerPc' = [w \in Workers |-> IF w \in S THEN "lock" ELSE workerPc[w]],
         UNCHANGED <<task, stranded>>
  PROVE  /\ workerPc' \in [Workers -> {"none", "lock", "wait", "run", "exited"}]
         /\ stranded' \subseteq {w \in Workers : workerPc'[w] = "wait"}
         /\ \A w \in Workers : workerPc'[w] = "none" <=> workerPc[w] = "none"
         /\ Alive' = Alive
         /\ RunsTask'
<1>1. \A w \in S : w \in Workers /\ workerPc[w] = "wait" /\ w \notin stranded
  BY DEF Sleeping
<1>2. workerPc' \in [Workers -> {"none", "lock", "wait", "run", "exited"}]
  BY DEF TypeOK
<1>3. stranded' \subseteq {w \in Workers : workerPc'[w] = "wait"}
  BY <1>1 DEF TypeOK
<1>4. \A w \in Workers : workerPc'[w] = "none" <=> workerPc[w] = "none"
  BY <1>1
<1>5. Alive' = Alive
  <2>1. \A w \in Workers : workerPc'[w] \in {"lock", "wait", "run"}
                             <=> workerPc[w] \in {"lock", "wait", "run"}
    BY <1>1
  <2> QED BY <2>1, AliveSame
<1>6. RunsTask'
  BY <1>1 DEF RunsTask
<1> QED BY <1>2, <1>3, <1>4, <1>5, <1>6

\* Signal and Broadcast wake some of the sleepers.
LEMMA SignalWakes ==
  ASSUME TypeOK, Signal
  PROVE  \E S \in SUBSET Sleeping :
           /\ S = {} <=> Sleeping = {}
           /\ \A v \in S, w \in S : v = w
           /\ workerPc' = [w \in Workers |->
                             IF w \in S THEN "lock" ELSE workerPc[w]]
<1>1. CASE Sleeping = {}
  <2>1. workerPc' = [w \in Workers |-> IF w \in {} THEN "lock" ELSE workerPc[w]]
    BY <1>1 DEF Signal, TypeOK
  <2> QED BY <1>1, <2>1
<1>2. CASE Sleeping # {}
  <2>1. PICK v \in Sleeping : workerPc' = [workerPc EXCEPT ![v] = "lock"]
    BY <1>2 DEF Signal
  <2>2. v \in Workers
    BY DEF Sleeping
  <2>3. workerPc' = [w \in Workers |-> IF w \in {v} THEN "lock" ELSE workerPc[w]]
    BY <2>1, <2>2 DEF TypeOK
  <2>4. {v} \in SUBSET Sleeping /\ {v} # {} /\ \A x \in {v}, y \in {v} : x = y
    OBVIOUS
  <2> QED BY <1>2, <2>3, <2>4
<1> QED BY <1>1, <1>2

\* Posting a task.
LEMMA PostKeepsInv ==
  ASSUME QueueInv, PoolAssumption, NEW c \in Clients, NEW t \in Tasks, Post(c, t)
  PROVE  QueueInv'
<1> USE DEF QueueInv
<1>1. QueueSize \in Nat \ {0} /\ head \in 0..(QueueSize - 1) /\ tail \in 0..(QueueSize - 1)
      /\ count \in 0..(QueueSize - 1) /\ count' = count + 1 /\ head' = head
  BY DEF TypeOK, Slots, PoolAssumption, Post, Full
<1>2. PICK S \in SUBSET Sleeping :
        workerPc' = [w \in Workers |-> IF w \in S THEN "lock" ELSE workerPc[w]]
  BY SignalWakes DEF Post
<1>3. /\ workerPc' \in [Workers -> {"none", "lock", "wait", "run", "exited"}]
      /\ stranded' \subseteq {w \in Workers : workerPc'[w] = "wait"}
      /\ \A w \in Workers : workerPc'[w] = "none" <=> workerPc[w] = "none"
      /\ Alive' = Alive
      /\ RunsTask'
  BY <1>2, WakeupKeepsTypes DEF Post
<1>4. tail' = (head' + count') % QueueSize
  <2>1. PICK k \in 0..(2 * QueueSize - 1) : k = head + count
    BY <1>1
  <2>2. tail = IF k < QueueSize THEN k ELSE k - QueueSize
    BY <1>1, <2>1, Wrap DEF TypeOK
  <2>3. PICK l \in 0..(2 * QueueSize - 1) : l = tail + 1
    BY <1>1
  <2>4. tail' = IF l < QueueSize THEN l ELSE l - QueueSize
    BY <1>1, <2>3, Wrap DEF Post
  <2>5. PICK j \in 0..(2 * QueueSize - 1) : j = head' + count'
    BY <1>1
  <2>6. j % QueueSize = IF j < QueueSize THEN j ELSE j - QueueSize
    BY <1>1, <2>5, Wrap
  <2>7. tail' = IF j < QueueSize THEN j ELSE j - QueueSize
    BY <1>1, <2>1, <2>2, <2>3, <2>4, <2>5
  <2> QED BY <2>5, <2>6, <2>7
<1>5. TypeOK'
  <2>1. tail' \in Slots
    BY <1>1 DEF Post, Slots
  <2>2. count' \in 0..QueueSize
    BY <1>1
  <2>3. posted' \in Seq(Tasks)
    BY DEF TypeOK, Post
  <2>4. slots' \in [Slots -> Tasks \cup {NoTask}]
    BY DEF TypeOK, Post
  <2> QED BY <1>3, <1>4, <2>1, <2>2, <2>3, <2>4
          DEF TypeOK, Post, createVars, poolVars
<1>6. QueueOrder'
  <2> DEFINE T == Tasks \cup {NoTask}
  <2>1. Queued' = Append(Queued, t) /\ Queued \in Seq(T)
    <3>1. count < QueueSize /\ slots' = [slots EXCEPT ![tail] = t]
      BY <1>1 DEF Post
    <3>2. TypeOK
      OBVIOUS
    <3> QED BY <1>1, <3>1, <3>2, PostAppends, QueuedIsSeq
  <2>2. taken \in Seq(T) /\ posted \in Seq(T) /\ <<t>> \in Seq(T) /\ t \in T
    BY DEF TypeOK
  <2>3. posted' = posted \o <<t>>
    BY <2>2, AppendIsConcat DEF Post
  <2>4. Queued' = Queued \o <<t>>
    BY <2>1, <2>2, AppendIsConcat
  <2> DEFINE e == <<t>>
             q == Queued
  <2>5. q \in Seq(T) /\ e \in Seq(T)
    BY <2>1, <2>2
  <2> HIDE DEF e, q, T
  <2>6. taken \o (q \o e) = (taken \o q) \o e
    <3>1. taken \in Seq(T) /\ q \in Seq(T) /\ e \in Seq(T)
      BY <2>2, <2>5
    <3> QED BY <3>1, ConcatAssociative, SMTT(60)
  <2>7. posted = taken \o q /\ posted' = posted \o e /\ Queued' = q \o e
    BY <2>3, <2>4 DEF e, q, QueueOrder
  <2> QED BY <2>6, <2>7 DEF QueueOrder, Post
<1> QED BY <1>3, <1>5, <1>6

\* Starting a worker.
LEMMA SpawnKeepsInv ==
  ASSUME QueueInv, PoolAssumption, Spawn
  PROVE  QueueInv'
<1> USE DEF QueueInv
<1> DEFINE n == spawned + 1
<1>1. n \in Workers /\ spawned \in Nat /\ n \in 1..ThreadCount
  BY DEF Spawn, TypeOK, Workers, PoolAssumption
<1>2. workerPc[n] = "none"
  BY <1>1 DEF TypeOK
<1>3. workerPc' = [workerPc EXCEPT ![n] = "lock"]
  BY DEF Spawn
<1>4. Alive' = Alive \cup {n} /\ n \notin Alive
  BY <1>1, <1>2, <1>3 DEF Alive, TypeOK
<1>5. IsFiniteSet(Alive) /\ Alive' \in SUBSET Workers
  BY FiniteWorkers DEF Alive
<1>6. Cardinality(Alive') = Cardinality(Alive) + 1
      /\ Cardinality(Alive') \in 0..ThreadCount
  BY <1>4, <1>5, FS_AddElement, FiniteWorkers
<1>7. TypeOK'
  <2>1. started' = Cardinality(Alive') /\ started' \in 0..ThreadCount
    BY <1>6 DEF Spawn, TypeOK
  <2>2. workerPc' \in [Workers -> {"none", "lock", "wait", "run", "exited"}]
    BY <1>3 DEF TypeOK
  <2>3. stranded' \subseteq {w \in Workers : workerPc'[w] = "wait"}
    BY <1>2, <1>3 DEF Spawn, TypeOK
  <2>4. \A w \in Workers : workerPc'[w] = "none" <=> w > spawned'
    <3> SUFFICES ASSUME NEW w \in Workers
                 PROVE  workerPc'[w] = "none" <=> w > spawned'
      OBVIOUS
    <3>1. w \in Nat /\ spawned' = n
      BY DEF Spawn, Workers, PoolAssumption
    <3>2. CASE w = n
      BY <3>1, <3>2, <1>1, <1>3 DEF TypeOK
    <3>3. CASE w # n
      <4>1. workerPc'[w] = workerPc[w] /\ (w > spawned <=> w > n)
        BY <3>1, <3>3, <1>1, <1>3 DEF TypeOK
      <4> QED BY <4>1, <3>1 DEF TypeOK
    <3> QED BY <3>2, <3>3
  <2>5. spawned' \in 0..ThreadCount
    BY <1>1 DEF Spawn, PoolAssumption
  <2> QED BY <2>1, <2>2, <2>3, <2>4, <2>5
          DEF TypeOK, Spawn, queueVars, historyVars
<1>8. RunsTask'
  BY <1>3 DEF RunsTask, Spawn, TypeOK
<1> QED BY <1>7, <1>8, QuietStep DEF Spawn, historyVars

\* The steps of one worker that leave the number of threads alone.
LEMMA WorkerKeepsInv ==
  ASSUME QueueInv, PoolAssumption, NEW w \in Workers,
         Wait(w) \/ Finish(w) \/ SpuriousWakeup(w)
  PROVE  QueueInv'
<1> USE DEF QueueInv
<1>1. workerPc[w] \in {"lock", "wait", "run"}
  BY DEF Wait, Acquires, Finish, SpuriousWakeup
<1>2. PICK x \in {"lock", "wait"} : workerPc' = [workerPc EXCEPT ![w] = x]
  BY DEF Wait, Finish, SpuriousWakeup
<1>3. Alive' = Alive
  BY <1>1, <1>2, AliveSame DEF TypeOK
<1>4. workerPc' \in [Workers -> {"none", "lock", "wait", "run", "exited"}]
      /\ \A v \in Workers : workerPc'[v] = "none" <=> workerPc[v] = "none"
  BY <1>1, <1>2 DEF TypeOK
<1>5. done' \subseteq Tasks
  BY DEF TypeOK, RunsTask, Wait, Finish, SpuriousWakeup, historyVars
<1>6. stranded' \subseteq {v \in Workers : workerPc'[v] = "wait"}
  <2>1. CASE Wait(w) \/ Finish(w)
    <3>1. workerPc[w] # "wait" /\ stranded' = stranded
      BY <2>1 DEF Wait, Acquires, Finish
    <3> QED BY <3>1, <1>2 DEF TypeOK
  <2>2. CASE SpuriousWakeup(w)
    BY <2>2 DEF SpuriousWakeup, TypeOK
  <2> QED BY <2>1, <2>2
<1>7. UNCHANGED <<createVars, queueVars, poolVars, task, clientPc, posted, taken>>
  BY DEF Wait, Finish, SpuriousWakeup, historyVars
<1>8. TypeOK'
  BY <1>3, <1>4, <1>5, <1>6, <1>7
     DEF TypeOK, createVars, queueVars, poolVars
<1>9. RunsTask'
  BY <1>2, <1>7 DEF RunsTask, TypeOK
<1> QED BY <1>7, <1>8, <1>9, QuietStep

\* A worker leaves.
LEMMA ExitKeepsInv ==
  ASSUME QueueInv, PoolAssumption, NEW w \in Workers, Exit(w)
  PROVE  QueueInv'
<1> USE DEF QueueInv
<1>1. workerPc[w] = "lock" /\ workerPc' = [workerPc EXCEPT ![w] = "exited"]
  BY DEF Exit, Acquires
<1>2. Alive' = Alive \ {w} /\ w \in Alive
  BY <1>1 DEF Alive, TypeOK
<1>3. IsFiniteSet(Alive) /\ Alive' \in SUBSET Workers
  BY FiniteWorkers DEF Alive
<1>4. Cardinality(Alive') = Cardinality(Alive) - 1
      /\ Cardinality(Alive') \in 0..ThreadCount
  BY <1>2, <1>3, FS_RemoveElement, FiniteWorkers
<1>5. TypeOK'
  <2>1. started' = Cardinality(Alive') /\ started' \in 0..ThreadCount
    BY <1>4 DEF Exit, TypeOK
  <2>2. workerPc' \in [Workers -> {"none", "lock", "wait", "run", "exited"}]
        /\ stranded' \subseteq {v \in Workers : workerPc'[v] = "wait"}
        /\ \A v \in Workers : workerPc'[v] = "none" <=> workerPc[v] = "none"
    BY <1>1 DEF Exit, TypeOK
  <2> QED BY <2>1, <2>2
          DEF TypeOK, Exit, createVars, queueVars, historyVars
<1>6. RunsTask'
  BY <1>1 DEF RunsTask, Exit, TypeOK
<1> QED BY <1>5, <1>6, QuietStep DEF Exit, historyVars

\* A client destroys the pool.
LEMMA DestroyKeepsInv ==
  ASSUME QueueInv, PoolAssumption, NEW c \in Clients,
         Destroy(c) \/ DestroyAgain(c) \/ Free(c)
  PROVE  QueueInv'
<1> USE DEF QueueInv
<1>1. CASE Destroy(c)
  <2>1. workerPc' = [w \in Workers |->
                       IF w \in Sleeping THEN "lock" ELSE workerPc[w]]
        /\ UNCHANGED <<task, stranded>>
    BY <1>1 DEF Destroy, Broadcast
  <2>2. /\ workerPc' \in [Workers -> {"none", "lock", "wait", "run", "exited"}]
        /\ stranded' \subseteq {w \in Workers : workerPc'[w] = "wait"}
        /\ \A w \in Workers : workerPc'[w] = "none" <=> workerPc[w] = "none"
        /\ Alive' = Alive
        /\ RunsTask'
    BY <2>1, WakeupKeepsTypes
  <2>3. closed' /\ closed' \in BOOLEAN /\ phase = "ready" /\ phase' = phase
        /\ clientPc' \in [Clients -> {"idle", "join", "destroyed", "failed"}]
    BY <1>1 DEF Destroy, CanCall, createVars, TypeOK
  <2>4. TypeOK'
    BY <1>1, <2>1, <2>2, <2>3
       DEF TypeOK, Destroy, createVars, queueVars, historyVars
  <2> QED BY <1>1, <2>2, <2>4, QuietStep DEF Destroy, historyVars
<1>2. CASE DestroyAgain(c) \/ Free(c)
  <2>1. UNCHANGED <<createVars, queueVars, started, closed, workerVars, historyVars>>
        /\ locked' \in BOOLEAN /\ freed' \in BOOLEAN
    <3>1. CASE DestroyAgain(c)
      BY <3>1 DEF DestroyAgain, TypeOK, poolVars
    <3>2. CASE Free(c)
      <4>1. (started > 0) \in BOOLEAN
        OBVIOUS
      <4>2. freed' = (started > 0)
        BY <3>2 DEF Free
      <4>3. freed' \in BOOLEAN
        BY <4>1, <4>2, Zenon
      <4> QED BY <3>2, <4>3 DEF Free, TypeOK
    <3> QED BY <1>2, <3>1, <3>2
  <2>2. closed /\ clientPc' \in [Clients -> {"idle", "join", "destroyed", "failed"}]
    BY <1>2 DEF DestroyAgain, Free, TypeOK
  <2>3. Alive' = Alive /\ RunsTask'
    BY <2>1 DEF Alive, RunsTask, workerVars
  <2>4. TypeOK'
    BY <2>1, <2>2, <2>3
       DEF TypeOK, createVars, queueVars, workerVars, historyVars
  <2> QED BY <2>1, <2>3, <2>4, QuietStep DEF historyVars
<1> QED BY <1>1, <1>2

\* Every step.
LEMMA NextQueueInv == ASSUME QueueInv, PoolAssumption, [Next]_vars PROVE QueueInv'
<1> USE DEF QueueInv
<1>1. CASE SpawnFails \/ InitSync
  <2>1. UNCHANGED <<spawned, queueVars, poolVars, workerPc, task, clientPc, historyVars>>
        /\ stranded' \subseteq {w \in Workers : workerPc[w] = "wait"}
    BY <1>1 DEF SpawnFails, InitSync, workerVars, Sleeping, TypeOK
  <2>2. Alive' = Alive /\ RunsTask'
    BY <2>1 DEF Alive, RunsTask
  <2>3. phase = "spawn" /\ phase' \in {"failed", "ready"}
        /\ (phase' = "ready" => spawned = ThreadCount)
    BY <1>1 DEF SpawnFails, InitSync
  <2>4. TypeOK'
    BY <2>1, <2>2, <2>3 DEF TypeOK, queueVars, poolVars, historyVars
  <2> QED BY <2>1, <2>2, <2>4, QuietStep DEF historyVars
<1>2. CASE UNCHANGED vars
  <2>1. TypeOK' /\ RunsTask' /\ Alive' = Alive
    BY <1>2 DEF vars, TypeOK, RunsTask, Alive, createVars, queueVars, poolVars,
                workerVars, historyVars
  <2> QED BY <1>2, <2>1, QuietStep DEF vars, historyVars
<1>3. CASE Spawn
  BY <1>3, SpawnKeepsInv
<1>4. CASE \E w \in Workers : Wait(w) \/ Finish(w) \/ SpuriousWakeup(w)
  BY <1>4, WorkerKeepsInv
<1>5. CASE \E w \in Workers : Take(w)
  BY <1>5, TakeKeepsInv
<1>6. CASE \E w \in Workers : Exit(w)
  BY <1>6, ExitKeepsInv
<1>7. CASE \E c \in Clients, t \in Tasks : Post(c, t)
  BY <1>7, PostKeepsInv
<1>8. CASE \E c \in Clients : Destroy(c) \/ DestroyAgain(c) \/ Free(c)
  BY <1>8, DestroyKeepsInv
<1> QED BY <1>1, <1>2, <1>3, <1>4, <1>5, <1>6, <1>7, <1>8
        DEF Next, Create, Worker, Client, PostRefused, Terminated

\* QueueInv is an inductive invariant.
LEMMA QueueInvHolds == Spec => []QueueInv
<1>1. Init => QueueInv
  BY InitQueueInv, PoolAssumption
<1>2. QueueInv /\ [Next]_vars => QueueInv'
  BY NextQueueInv, PoolAssumption
<1> QED BY <1>1, <1>2, PTL DEF Spec

\* Type correctness: the indices stay in the array and the counters count
\* (thrd_pool.c:71-90, 126-138, 213-224).
THEOREM PoolTypeCorrect == Spec => []TypeOK
<1>1. QueueInv => TypeOK
  BY DEF QueueInv
<1> QED BY <1>1, QueueInvHolds, PTL

\* The circular queue is a queue, for every size: tasks are taken once each
\* and in the order of their acceptance (thrd_pool.c:77-79, 213-224).
THEOREM PoolIsQueue == Spec => []QueueOrder
<1>1. QueueInv => QueueOrder
  BY DEF QueueInv
<1> QED BY <1>1, QueueInvHolds, PTL

-----------------------------------------------------------------------------
(* No worker sleeps through a post.                                        *)

\* The strengthening: a closed pool has no sleepers, because the broadcast
\* woke them and nobody goes to sleep any more; and there are no tasks before
\* the pool is complete, so that what pthread_cond_init() does to sleepers
\* cannot matter here.
IdleInv == /\ NoIdleWorker
           /\ closed => Sleeping = {}
           /\ phase # "ready" => count = 0

\* One more awake worker, or the same: the bound stays if the count does.
LEMMA MoreAwake ==
  ASSUME TypeOK, TypeOK', PoolAssumption, IdleInv, count' = count,
         Awake \subseteq Awake', Sleeping' \subseteq Sleeping
  PROVE  NoIdleWorker'
<1>1. IsFiniteSet(Awake') /\ Cardinality(Awake) \in Nat /\ Cardinality(Awake') \in Nat
  BY FiniteWorkers DEF Awake, PoolAssumption
<1>2. Cardinality(Awake) <= Cardinality(Awake')
  BY <1>1, FS_Subset
<1>3. count \in Nat
  BY DEF TypeOK, PoolAssumption
<1> QED BY <1>1, <1>2, <1>3 DEF IdleInv, NoIdleWorker

LEMMA NextIdleInv ==
  ASSUME TypeOK, TypeOK', PoolAssumption, IdleInv, [Next]_vars
  PROVE  IdleInv'
<1>1. CASE Spawn
  <2>1. PICK n \in Workers : /\ workerPc[n] = "none"
                             /\ workerPc' = [workerPc EXCEPT ![n] = "lock"]
    <3>1. spawned + 1 \in Workers /\ spawned + 1 > spawned
      BY <1>1 DEF Spawn, TypeOK, Workers, PoolAssumption
    <3> QED BY <1>1, <3>1 DEF Spawn, TypeOK
  <2>2. Awake \subseteq Awake' /\ Sleeping' \subseteq Sleeping
    <3>1. \A v \in Workers : workerPc'[v] = IF v = n THEN "lock" ELSE workerPc[v]
      BY <2>1 DEF TypeOK
    <3>2. stranded' = stranded
      BY <1>1 DEF Spawn
    <3> QED BY <2>1, <3>1, <3>2 DEF Awake, Sleeping
  <2>3. count' = count /\ closed' = closed /\ phase' = phase
    BY <1>1 DEF Spawn, queueVars
  <2> QED BY <2>2, <2>3, MoreAwake DEF IdleInv
<1>2. CASE SpawnFails \/ InitSync
  <2>1. count' = 0 /\ closed' = closed /\ ~closed /\ Cardinality(Awake') \in Nat
    <3>1. phase = "spawn"
      BY <1>2 DEF SpawnFails, InitSync
    <3>2. Cardinality(Awake') \in Nat
      BY FiniteWorkers DEF Awake, PoolAssumption
    <3> QED BY <1>2, <3>1, <3>2
            DEF SpawnFails, InitSync, queueVars, poolVars, IdleInv, TypeOK
  <2> QED BY <2>1 DEF IdleInv, NoIdleWorker
<1>3. CASE \E w \in Workers : Wait(w)
  <2>1. count' = 0 /\ ~closed' /\ Cardinality(Awake') \in Nat
    <3>1. Cardinality(Awake') \in Nat
      BY FiniteWorkers DEF Awake, PoolAssumption
    <3> QED BY <1>3, <3>1 DEF Wait, queueVars, poolVars
  <2> QED BY <2>1 DEF IdleInv, NoIdleWorker
<1>4. CASE \E w \in Workers : Finish(w) \/ SpuriousWakeup(w)
  <2>1. PICK w \in Workers : Finish(w) \/ SpuriousWakeup(w)
    BY <1>4
  <2>2. Awake \subseteq Awake' /\ Sleeping' \subseteq Sleeping
    <3>1. \A v \in Workers : workerPc'[v] = IF v = w THEN "lock" ELSE workerPc[v]
      <4>1. workerPc' = [workerPc EXCEPT ![w] = "lock"]
        BY <2>1 DEF Finish, SpuriousWakeup
      <4>2. workerPc \in [Workers -> {"none", "lock", "wait", "run", "exited"}]
        BY DEF TypeOK
      <4> QED BY <4>1, <4>2
    <3>2. stranded' = stranded \/ stranded' = stranded \ {w}
      BY <2>1 DEF Finish, SpuriousWakeup
    <3>3. \A v \in Sleeping' : v # w /\ workerPc[v] = "wait" /\ v \notin stranded
      BY <3>1, <3>2 DEF Sleeping
    <3>4. Sleeping' \subseteq Sleeping
      BY <3>3 DEF Sleeping
    <3> QED BY <3>1, <3>4 DEF Awake
  <2>3. count' = count /\ closed' = closed /\ phase' = phase
    BY <2>1 DEF Finish, SpuriousWakeup, queueVars, poolVars, createVars
  <2> QED BY <2>2, <2>3, MoreAwake DEF IdleInv
<1>5. CASE \E w \in Workers : Take(w)
  <2>1. PICK w \in Workers : Take(w)
    BY <1>5
  <2>2. w \in Awake /\ Awake' = Awake \ {w} /\ Sleeping' = Sleeping
    BY <2>1 DEF Take, Acquires, Awake, Sleeping, TypeOK
  <2>3. IsFiniteSet(Awake) /\ Cardinality(Awake) \in Nat
    BY FiniteWorkers DEF Awake, PoolAssumption
  <2>4. Cardinality(Awake') = Cardinality(Awake) - 1
    BY <2>2, <2>3, FS_RemoveElement
  <2>5. count' = count - 1 /\ count > 0 /\ closed' = closed /\ phase' = phase
        /\ count \in Nat
    BY <2>1 DEF Take, poolVars, createVars, TypeOK, PoolAssumption
  <2> QED BY <2>2, <2>3, <2>4, <2>5 DEF IdleInv, NoIdleWorker
<1>6. CASE \E w \in Workers : Exit(w)
  <2>1. PICK w \in Workers : Exit(w)
    BY <1>6
  <2>2. Sleeping' \subseteq Sleeping /\ closed
    BY <2>1 DEF Exit, Sleeping, TypeOK
  <2>3. Sleeping' = {} /\ phase' = phase /\ count' = count
    BY <2>1, <2>2 DEF IdleInv, Exit, createVars, queueVars
  <2> QED BY <2>3 DEF IdleInv, NoIdleWorker
<1>7. CASE \E c \in Clients, t \in Tasks : Post(c, t)
  <2>1. PICK c \in Clients, t \in Tasks : Post(c, t)
    BY <1>7
  <2>2. PICK S \in SUBSET Sleeping :
           /\ S = {} <=> Sleeping = {}
           /\ \A v \in S, w \in S : v = w
           /\ workerPc' = [w \in Workers |->
                             IF w \in S THEN "lock" ELSE workerPc[w]]
    BY <2>1, SignalWakes DEF Post
  <2>3. phase' = "ready" /\ ~closed' /\ count' = count + 1 /\ stranded' = stranded
        /\ count \in Nat
    BY <2>1 DEF Post, CanCall, createVars, poolVars, TypeOK, PoolAssumption
  <2>4. CASE Sleeping = {}
    <3>1. Sleeping' = {}
      BY <2>2, <2>3, <2>4 DEF Sleeping
    <3> QED BY <2>3, <3>1 DEF IdleInv, NoIdleWorker
  <2>5. CASE Sleeping # {}
    <3>1. PICK v \in Sleeping : S = {v}
      BY <2>2, <2>5
    <3>2. v \in Workers /\ workerPc[v] = "wait" /\ v \notin Awake
      BY DEF Sleeping, Awake
    <3>3. Awake' = Awake \cup {v}
      BY <2>2, <3>1, <3>2 DEF Awake
    <3>4. IsFiniteSet(Awake) /\ Cardinality(Awake) \in Nat
      BY FiniteWorkers DEF Awake, PoolAssumption
    <3>5. Cardinality(Awake') = Cardinality(Awake) + 1
      BY <3>2, <3>3, <3>4, FS_AddElement
    <3> QED BY <2>3, <2>5, <3>4, <3>5 DEF IdleInv, NoIdleWorker
  <2> QED BY <2>4, <2>5
<1>8. CASE \E c \in Clients : Destroy(c)
  <2>1. PICK c \in Clients : Destroy(c)
    BY <1>8
  <2>2. Sleeping' = {} /\ phase' = "ready"
    BY <2>1 DEF Destroy, Broadcast, Sleeping, CanCall, createVars
  <2> QED BY <2>2 DEF IdleInv, NoIdleWorker
<1>9. CASE (\E c \in Clients : DestroyAgain(c) \/ Free(c)) \/ UNCHANGED vars
  <2>1. UNCHANGED <<count, closed, phase, workerPc, stranded>>
    BY <1>9 DEF DestroyAgain, Free, vars, createVars, queueVars, poolVars, workerVars
  <2>2. Awake' = Awake /\ Sleeping' = Sleeping
    BY <2>1 DEF Awake, Sleeping
  <2> QED BY <2>1, <2>2 DEF IdleInv, NoIdleWorker
<1> QED BY <1>1, <1>2, <1>3, <1>4, <1>5, <1>6, <1>7, <1>8, <1>9
        DEF Next, Create, Worker, Client, PostRefused, Terminated

\* While workers sleep, every queued task has an awake worker of its own that
\* is about to look at the queue (thrd_pool.c:62-69, 227).
THEOREM NobodySleepsThroughAPost == Spec => []NoIdleWorker
<1>1. Init => IdleInv
  <2> SUFFICES ASSUME Init PROVE IdleInv
    OBVIOUS
  <2>1. Sleeping = {} /\ count = 0
    BY DEF Init, Sleeping
  <2> QED BY <2>1 DEF IdleInv, NoIdleWorker
<1>2. TypeOK /\ TypeOK' /\ IdleInv /\ [Next]_vars => IdleInv'
  BY NextIdleInv, PoolAssumption
<1>3. IdleInv => NoIdleWorker
  BY DEF IdleInv
<1> QED BY <1>1, <1>2, <1>3, PoolTypeCorrect, PTL DEF Spec

-----------------------------------------------------------------------------
(* What a destroyed pool leaves behind.                                    *)

InHand == {task[w] : w \in {x \in Workers : workerPc[x] = "run"}}

\* The strengthening: what was taken is done or in a worker's hand, and the
\* threads of a destroyed pool have left.
LeftInv == /\ Range(taken) = done \cup InHand
           /\ \A c \in Clients : clientPc[c] = "destroyed" =>
                \A w \in Workers : workerPc[w] = "exited"

\* Steps that leave running workers and history alone.
LEMMA SameHands ==
  ASSUME TypeOK, LeftInv, UNCHANGED <<task, taken, done>>,
         \A w \in Workers : workerPc'[w] = "run" <=> workerPc[w] = "run",
         \A w \in Workers : workerPc[w] = "exited" => workerPc'[w] = "exited",
         \A c \in Clients : clientPc'[c] = "destroyed" => clientPc[c] = "destroyed"
  PROVE  LeftInv'
<1>1. InHand' = InHand
  BY DEF InHand
<1> QED BY <1>1 DEF LeftInv

\* Appending one element adds it to the range, nothing else.
LEMMA RangeOfAppended ==
  ASSUME NEW S, NEW s \in Seq(S), NEW e \in S
  PROVE  Range(Append(s, e)) = Range(s) \cup {e}
<1>1. <<e>> \in Seq(S) /\ Append(s, e) = s \o <<e>>
  BY AppendIsConcat
<1>2. Range(s \o <<e>>) = Range(s) \cup Range(<<e>>)
  BY <1>1, RangeConcatenation
<1>3. Range(<<e>>) = {e}
  BY DEF Range
<1> QED BY <1>1, <1>2, <1>3

LEMMA NextLeftInv ==
  ASSUME QueueInv, PoolAssumption, LeftInv, [Next]_vars
  PROVE  LeftInv'
<1> USE DEF QueueInv
<1>1. CASE Spawn
  <2>1. spawned + 1 \in Workers /\ workerPc[spawned + 1] = "none"
    BY <1>1 DEF Spawn, TypeOK, Workers, PoolAssumption
  <2> QED BY <1>1, <2>1, SameHands DEF Spawn, TypeOK, historyVars
<1>2. CASE SpawnFails \/ InitSync
  BY <1>2, SameHands DEF SpawnFails, InitSync, workerVars, historyVars
<1>3. CASE \E w \in Workers : Wait(w) \/ SpuriousWakeup(w) \/ Exit(w)
  BY <1>3, SameHands
     DEF Wait, SpuriousWakeup, Exit, Acquires, TypeOK, historyVars
<1>4. CASE \E w \in Workers : Take(w)
  <2>1. PICK w \in Workers : Take(w)
    BY <1>4
  <2> DEFINE t == slots[head]
  <2>2. t \in Tasks
    BY <2>1, HeadIsTask DEF Take, TypeOK
  <2>3. workerPc[w] = "lock" /\ workerPc' = [workerPc EXCEPT ![w] = "run"]
        /\ task' = [task EXCEPT ![w] = t] /\ taken' = Append(taken, t)
        /\ UNCHANGED <<done, clientPc>>
    BY <2>1 DEF Take, Acquires
  <2> HIDE DEF t
  <2>4. Range(taken') = Range(taken) \cup {t}
    BY <2>2, <2>3, RangeOfAppended DEF TypeOK
  <2>5. InHand' = InHand \cup {t}
    <3>1. task'[w] = t /\ workerPc'[w] = "run"
      BY <2>3 DEF TypeOK
    <3>2. \A x \in Workers \ {w} : task'[x] = task[x] /\ workerPc'[x] = workerPc[x]
      BY <2>3 DEF TypeOK
    <3> QED BY <2>3, <3>1, <3>2 DEF InHand
  <2>6. \A c \in Clients : clientPc'[c] # "destroyed"
    BY <2>3 DEF LeftInv
  <2> QED BY <2>3, <2>4, <2>5, <2>6 DEF LeftInv
<1>5. CASE \E w \in Workers : Finish(w)
  <2>1. PICK w \in Workers : Finish(w)
    BY <1>5
  <2>2. workerPc[w] = "run" /\ workerPc' = [workerPc EXCEPT ![w] = "lock"]
        /\ done' = done \cup {task[w]} /\ UNCHANGED <<task, taken, clientPc>>
    BY <2>1 DEF Finish
  <2>3. InHand = InHand' \cup {task[w]}
    <3>1. \A x \in Workers \ {w} : workerPc'[x] = workerPc[x]
      BY <2>2 DEF TypeOK
    <3>2. workerPc'[w] # "run"
      BY <2>2 DEF TypeOK
    <3> QED BY <2>2, <3>1, <3>2 DEF InHand
  <2>4. \A c \in Clients : clientPc'[c] # "destroyed"
    BY <2>2 DEF LeftInv
  <2> QED BY <2>2, <2>3, <2>4 DEF LeftInv
<1>6. CASE \E c \in Clients, t \in Tasks : Post(c, t)
  <2>1. PICK c \in Clients, t \in Tasks : Post(c, t)
    BY <1>6
  <2>2. PICK S \in SUBSET Sleeping :
          workerPc' = [w \in Workers |-> IF w \in S THEN "lock" ELSE workerPc[w]]
    BY <2>1, SignalWakes DEF Post
  <2> QED BY <2>1, <2>2, SameHands DEF Post, Sleeping
<1>7. CASE \E c \in Clients : Destroy(c) \/ DestroyAgain(c)
  <2>1. PICK c \in Clients : Destroy(c) \/ DestroyAgain(c)
    BY <1>7
  <2>2. PICK S \in SUBSET Sleeping :
          workerPc' = [w \in Workers |-> IF w \in S THEN "lock" ELSE workerPc[w]]
    <3>1. CASE Destroy(c)
      BY <3>1 DEF Destroy, Broadcast
    <3>2. CASE DestroyAgain(c)
      <4>1. workerPc' = [w \in Workers |-> IF w \in {} THEN "lock" ELSE workerPc[w]]
        BY <3>2 DEF DestroyAgain, workerVars, TypeOK
      <4> WITNESS {} \in SUBSET Sleeping
      <4> QED BY <4>1
    <3> QED BY <2>1, <3>1, <3>2
  <2>3. UNCHANGED <<task, taken, done>>
        /\ \A d \in Clients : clientPc'[d] = "destroyed" => clientPc[d] = "destroyed"
    BY <2>1 DEF Destroy, DestroyAgain, workerVars, historyVars, TypeOK
  <2> QED BY <2>2, <2>3, SameHands DEF Sleeping
<1>8. CASE \E c \in Clients : Free(c)
  <2>1. PICK c \in Clients : Free(c)
    BY <1>8
  <2>2. closed
    BY <2>1 DEF Free, TypeOK
  <2>3. spawned = ThreadCount
    BY <2>2 DEF TypeOK
  <2>4. \A w \in Workers : workerPc[w] = "exited"
    BY <2>1, <2>3 DEF Free, AllDone, Workers
  <2>5. UNCHANGED <<workerPc, task, taken, done>>
    BY <2>1 DEF Free, workerVars, historyVars
  <2>6. InHand' = InHand
    BY <2>5 DEF InHand
  <2> QED BY <2>4, <2>5, <2>6 DEF LeftInv
<1>9. CASE UNCHANGED vars
  BY <1>9, SameHands DEF vars, workerVars, historyVars
<1> QED BY <1>1, <1>2, <1>3, <1>4, <1>5, <1>6, <1>7, <1>8, <1>9
        DEF Next, Create, Worker, Client, PostRefused, Terminated

\* When a client has destroyed the pool, all workers have left, and no task
\* is half-way (thrd_pool.c:72-88, 184-193, 236-246).
THEOREM DestroyedPoolIsQuiet == Spec => []DestroyedIsQuiet
<1>1. Init => LeftInv
  <2> SUFFICES ASSUME Init PROVE LeftInv
    OBVIOUS
  <2>1. InHand = {} /\ Range(taken) = {} /\ done = {}
    BY DEF Init, InHand, Range
  <2> QED BY <2>1 DEF Init, LeftInv
<1>2. QueueInv /\ LeftInv /\ [Next]_vars => LeftInv'
  BY NextLeftInv, PoolAssumption
<1>3. QueueInv /\ LeftInv => DestroyedIsQuiet
  <2> SUFFICES ASSUME QueueInv, LeftInv, NEW c \in Clients, clientPc[c] = "destroyed"
               PROVE  /\ \A w \in Workers : workerPc[w] = "exited"
                      /\ Range(posted) = done \cup Range(Queued)
    BY DEF DestroyedIsQuiet
  <2>1. \A w \in Workers : workerPc[w] = "exited"
    BY DEF LeftInv
  <2>2. InHand = {}
    BY <2>1 DEF InHand
  <2>3. taken \in Seq(Tasks \cup {NoTask}) /\ Queued \in Seq(Tasks \cup {NoTask})
        /\ posted = taken \o Queued
    BY QueuedIsSeq, PoolAssumption DEF QueueInv, TypeOK, QueueOrder
  <2>4. Range(posted) = Range(taken) \cup Range(Queued)
    BY <2>3, RangeConcatenation
  <2> QED BY <2>1, <2>2, <2>4 DEF LeftInv
<1> QED BY <1>1, <1>2, <1>3, QueueInvHolds, PTL DEF Spec
=============================================================================

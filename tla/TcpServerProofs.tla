--------------------------- MODULE TcpServerProofs ---------------------------
(***************************************************************************)
(* Proofs about TcpServer, for any number of loops, connections and calls  *)
(* of start(): connections are dealt in turn, a channel that epoll may     *)
(* report has an owner, and each connection is reported up and down and    *)
(* destroyed at most once.  The argument is about the functors of a        *)
(* connection, which travel through both of its loops: which may be        *)
(* waiting where, in which order, and what is true of the connection       *)
(* meanwhile.                                                              *)
(***************************************************************************)
EXTENDS TcpServer, SequenceTheorems, TLAPS

\* All that waits in loop l, in the order in which it will run.
Waiting(l) == batch[l] \o queue[l]
Alive(l) == loopPc[l] \in {"init", "poll", "run"}

In(op, c, w) == \E i \in 1..Len(w) : w[i].op = op /\ w[i].conn = c

\* At most two functors of a connection wait in one loop; if so, they are
\* connectEstablished() and connectDestroyed(), in this order.
Ordered(w) == \A i, j \in 1..Len(w) :
                i < j /\ w[i].conn = w[j].conn =>
                  w[i].op = "established" /\ w[j].op = "destroyed"

\* Where the threads are.
Control ==
  /\ \A l \in Loops : loopPc[l] # "run" => batch[l] = << >>
  /\ mainPc = "setup" => loopPc[Base] = "off" /\ accepted = 0
  /\ mainPc # "setup" => started > 0
  /\ started = 0 => /\ accepted = 0 /\ ~listening
                    /\ \A l \in Loops : loopPc[l] = "off"
  /\ mainPc \in {"destroy", "quit", "join", "done"} => loopPc[Base] = "stopped"
  /\ joined <= Len(loops)
  /\ mainPc = "join" => joined < Len(loops)
  /\ \A l \in 1..joined : loopPc[l] = "stopped"
  /\ mainPc = "done" => joined = Len(loops)

\* The latest connections went to the loops below next_, and before them to
\* the loops from the last one down.
Deal ==
  /\ numThreads = 0 => nextLoop = 0 /\ \A c \in 1..accepted : home[c] = Base
  /\ numThreads > 0 =>
       /\ nextLoop < numThreads
       /\ \A j \in 1..numThreads : j <= accepted =>
            home[accepted + 1 - j] = IF j <= nextLoop THEN nextLoop + 1 - j
                                     ELSE nextLoop + 1 - j + numThreads

\* What is true of connection c while a functor of it waits in loop l.
MayEstablish(l, c) == home[c] = l /\ l # Base /\ state[c] = "connecting"
MayDestroy(l, c) ==
  /\ home[c] = l /\ destroyed[c] = 0 /\ connections[c] = NoConn
  /\ state[c] # "none"
  /\ loopPc[Base] # "stopped" => state[c] = "disconnected"
MayRemove(l, c) ==
  /\ l = Base /\ home[c] # Base /\ state[c] = "disconnected"
  /\ Alive(Base) => connections[c] = c

Queues ==
  \A l \in Loops :
    /\ Ordered(Waiting(l))
    /\ \A c \in Conns :
         /\ In("established", c, Waiting(l)) => MayEstablish(l, c)
         /\ In("destroyed", c, Waiting(l)) => MayDestroy(l, c)
         /\ In("remove", c, Waiting(l)) => MayRemove(l, c)

\* The life of a connection.
Life(c) ==
  /\ connections[c] \in {c, NoConn}
  /\ c <= accepted => name[c] = c
  /\ connections[c] = c => c <= accepted /\ destroyed[c] = 0
  /\ state[c] = "none" <=> c > accepted
  /\ ups[c] = IF state[c] \in {"none", "connecting"} THEN 0 ELSE 1
  /\ downs[c] = IF state[c] = "disconnected" THEN 1 ELSE 0
  /\ destroyed[c] \in {0, 1}
  /\ destroyed[c] = 1 => ~polled[c] /\ state[c] \in {"disconnecting",
                                                     "disconnected"}
  /\ polled[c] => state[c] \in {"connected", "disconnecting"}
  /\ state[c] = "connecting" =>
       /\ home[c] # Base
       /\ Alive(home[c]) => In("established", c, Waiting(home[c]))
  /\ state[c] \in {"connecting", "connected", "disconnecting"}
     /\ destroyed[c] = 0 /\ Alive(home[c]) =>
       \/ connections[c] = c
       \/ In("destroyed", c, Waiting(home[c]))

Lives == \A c \in Conns : Life(c)

ServerInv == ServerTypeOK /\ Control /\ Deal /\ Queues /\ Lives
-----------------------------------------------------------------------------
(* Sequences of functors.                                                  *)

LEMMA AppendFunctor ==
  ASSUME NEW w \in Seq(Functors), NEW f \in Functors
  PROVE  /\ \A op, c : In(op, c, Append(w, f))
                         <=> In(op, c, w) \/ (f.op = op /\ f.conn = c)
         /\ (Ordered(w) /\ (\A g \in Functors : In(g.op, f.conn, w) =>
                              g.op = "established" /\ f.op = "destroyed"))
              => Ordered(Append(w, f))
<1>1. /\ Append(w, f) \in Seq(Functors)
      /\ Len(Append(w, f)) = Len(w) + 1
      /\ \A i \in 1..Len(w) : Append(w, f)[i] = w[i]
      /\ Append(w, f)[Len(w) + 1] = f
      /\ Len(w) \in Nat
      /\ \A i \in 1..Len(w) : w[i] \in Functors
  OBVIOUS
<1>2. \A i : i \in 1..(Len(w) + 1) <=> i \in 1..Len(w) \/ i = Len(w) + 1
  BY <1>1
<1>3. ASSUME NEW op, NEW c
      PROVE  In(op, c, Append(w, f))
               <=> In(op, c, w) \/ (f.op = op /\ f.conn = c)
  BY <1>1, <1>2 DEF In
<1>4. ASSUME Ordered(w),
             \A g \in Functors : In(g.op, f.conn, w) =>
                                   g.op = "established" /\ f.op = "destroyed"
      PROVE  Ordered(Append(w, f))
  <2> SUFFICES ASSUME NEW i \in 1..(Len(w) + 1), NEW j \in 1..(Len(w) + 1),
                      i < j, Append(w, f)[i].conn = Append(w, f)[j].conn
               PROVE  /\ Append(w, f)[i].op = "established"
                      /\ Append(w, f)[j].op = "destroyed"
    BY <1>1 DEF Ordered
  <2>1. i \in 1..Len(w)
    BY <1>1
  <2>2. CASE j \in 1..Len(w)
    BY <2>1, <2>2, <1>1, <1>4 DEF Ordered
  <2>3. CASE j = Len(w) + 1
    <3>1. In(w[i].op, f.conn, w)
      BY <2>1, <2>3, <1>1 DEF In
    <3> QED BY <3>1, <2>1, <2>3, <1>1, <1>4
  <2> QED BY <1>2, <2>2, <2>3
<1> QED BY <1>3, <1>4

LEMMA TailFunctor ==
  ASSUME NEW w \in Seq(Functors), w # << >>
  PROVE  /\ Tail(w) \in Seq(Functors) /\ Head(w) \in Functors
         /\ \A op, c : In(op, c, w) <=> \/ In(op, c, Tail(w))
                                        \/ Head(w).op = op /\ Head(w).conn = c
         /\ Ordered(w) =>
              /\ Ordered(Tail(w))
              /\ \A op : In(op, Head(w).conn, Tail(w)) =>
                   Head(w).op = "established" /\ op = "destroyed"
<1>1. /\ Tail(w) \in Seq(Functors) /\ Head(w) \in Functors
      /\ Len(w) \in Nat \ {0} /\ Len(Tail(w)) = Len(w) - 1
      /\ \A i \in 1..(Len(w) - 1) : Tail(w)[i] = w[i + 1]
      /\ Head(w) = w[1]
  OBVIOUS
<1>2. \A i : i \in 1..(Len(w) - 1) => i + 1 \in 1..Len(w) /\ 1 < i + 1
  BY <1>1
<1>3. \A i \in 1..Len(w) : i = 1 \/ i - 1 \in 1..(Len(w) - 1)
  BY <1>1
<1>4. ASSUME NEW op, NEW c
      PROVE  In(op, c, w) <=> \/ In(op, c, Tail(w))
                              \/ Head(w).op = op /\ Head(w).conn = c
  <2>1. ASSUME In(op, c, w)
        PROVE  In(op, c, Tail(w)) \/ (Head(w).op = op /\ Head(w).conn = c)
    <3>1. PICK i \in 1..Len(w) : w[i].op = op /\ w[i].conn = c
      BY <2>1 DEF In
    <3>2. CASE i = 1
      BY <3>1, <3>2, <1>1
    <3>3. CASE i - 1 \in 1..(Len(w) - 1)
      <4>1. Tail(w)[i - 1] = w[i]
        BY <3>3, <1>1
      <4> QED BY <4>1, <3>1, <3>3, <1>1 DEF In
    <3> QED BY <3>2, <3>3, <1>3
  <2>2. ASSUME In(op, c, Tail(w)) \/ (Head(w).op = op /\ Head(w).conn = c)
        PROVE  In(op, c, w)
    <3>1. 1 \in 1..Len(w)
      BY <1>1
    <3> QED BY <2>2, <3>1, <1>1, <1>2 DEF In
  <2> QED BY <2>1, <2>2
<1>5. ASSUME Ordered(w)
      PROVE  /\ Ordered(Tail(w))
             /\ \A op : In(op, Head(w).conn, Tail(w)) =>
                  Head(w).op = "established" /\ op = "destroyed"
  <2>1. Ordered(Tail(w))
    <3> SUFFICES ASSUME NEW i \in 1..(Len(w) - 1), NEW j \in 1..(Len(w) - 1),
                        i < j, Tail(w)[i].conn = Tail(w)[j].conn
                 PROVE  /\ Tail(w)[i].op = "established"
                        /\ Tail(w)[j].op = "destroyed"
      BY <1>1 DEF Ordered
    <3>1. i + 1 < j + 1
      OBVIOUS
    <3> QED BY <3>1, <1>1, <1>2, <1>5 DEF Ordered
  <2>2. ASSUME NEW op, In(op, Head(w).conn, Tail(w))
        PROVE  Head(w).op = "established" /\ op = "destroyed"
    <3>1. PICK i \in 1..(Len(w) - 1) : /\ Tail(w)[i].op = op
                                       /\ Tail(w)[i].conn = Head(w).conn
      BY <2>2, <1>1 DEF In
    <3>2. 1 \in 1..Len(w)
      BY <1>1
    <3> QED BY <3>1, <3>2, <1>1, <1>2, <1>5 DEF Ordered
  <2> QED BY <2>1, <2>2
<1> QED BY <1>1, <1>4, <1>5

LEMMA ConcatFunctors ==
  ASSUME NEW a \in Seq(Functors), NEW b \in Seq(Functors)
  PROVE  /\ a \o b \in Seq(Functors)
         /\ a \o << >> = a /\ << >> \o b = b
         /\ \A f \in Functors : a \o Append(b, f) = Append(a \o b, f)
         /\ a # << >> => /\ a \o b # << >>
                         /\ Head(a \o b) = Head(a)
                         /\ Tail(a) \o b = Tail(a \o b)
         /\ \A op, c : In(op, c, a \o b) =>
              \E f \in Range(a) \cup Range(b) : f.op = op /\ f.conn = c
<1>1. /\ a \o b \in Seq(Functors) /\ Len(a \o b) = Len(a) + Len(b)
      /\ \A i \in 1..Len(a) : (a \o b)[i] = a[i]
      /\ \A i \in 1..Len(b) : (a \o b)[Len(a) + i] = b[i]
      /\ DOMAIN a = 1..Len(a) /\ DOMAIN b = 1..Len(b)
      /\ Len(a) \in Nat /\ Len(b) \in Nat
  OBVIOUS
<1>2. a \o << >> = a /\ << >> \o b = b
  OBVIOUS
<1>3. ASSUME NEW f \in Functors
      PROVE  a \o Append(b, f) = Append(a \o b, f)
  OBVIOUS
<1>4. ASSUME a # << >>
      PROVE  /\ a \o b # << >> /\ Head(a \o b) = Head(a)
             /\ Tail(a) \o b = Tail(a \o b)
  <2>1. Len(a) >= 1
    BY <1>4
  <2>2. a \o b # << >> /\ Head(a \o b) = Head(a)
    BY <2>1, <1>1
  <2>3. Tail(a) \o b = Tail(a \o b)
    BY <1>4, <2>1, <1>1
  <2> QED BY <2>2, <2>3
<1>5. ASSUME NEW op, NEW c, In(op, c, a \o b)
      PROVE  \E f \in Range(a) \cup Range(b) : f.op = op /\ f.conn = c
  <2>1. PICK i \in 1..(Len(a) + Len(b)) : /\ (a \o b)[i].op = op
                                          /\ (a \o b)[i].conn = c
    BY <1>5, <1>1 DEF In
  <2>2. CASE i \in 1..Len(a)
    BY <2>1, <2>2, <1>1 DEF Range
  <2>3. CASE i - Len(a) \in 1..Len(b)
    <3>1. (a \o b)[i] = b[i - Len(a)]
      BY <2>3, <1>1
    <3> QED BY <3>1, <2>1, <2>3, <1>1 DEF Range
  <2> QED BY <1>1, <2>2, <2>3
<1> QED BY <1>1, <1>2, <1>3, <1>4, <1>5
-----------------------------------------------------------------------------
(* What a step does to the functors that wait.                             *)

LEMMA Constants == /\ MaxThreads \in Nat /\ MaxConns \in Nat
                   /\ ThreadNums \subseteq 0..MaxThreads
                   /\ \A l : l \in Loops <=> l \in 0..MaxThreads
                   /\ \A c : c \in Conns <=> c \in 1..MaxConns
                   /\ Base = 0 /\ NoConn = 0 /\ NoConn \notin Conns
                   /\ Base \in Loops
BY ServerAssumption DEF Loops, Threads, Conns, Base, NoConn

LEMMA FunctorFields ==
  ASSUME NEW op \in {"established", "destroyed", "remove"}, NEW c \in Conns
  PROVE  /\ Functor(op, c) \in Functors
         /\ Functor(op, c).op = op /\ Functor(op, c).conn = c
BY DEF Functor, Functors

LEMMA FunctorParts ==
  ASSUME NEW f \in Functors
  PROVE  f.op \in {"established", "destroyed", "remove"} /\ f.conn \in Conns
BY DEF Functors

LEMMA WaitingType ==
  ASSUME ServerTypeOK, NEW l \in Loops
  PROVE  /\ batch[l] \in Seq(Functors) /\ queue[l] \in Seq(Functors)
         /\ Waiting(l) \in Seq(Functors)
BY ConcatFunctors DEF ServerTypeOK, Waiting

LEMMA PushType ==
  ASSUME ServerTypeOK, NEW l \in Loops, NEW f \in Functors
  PROVE  [queue EXCEPT ![l] = Append(@, f)] \in [Loops -> Seq(Functors)]
BY DEF ServerTypeOK

\* queueInLoop(): the functor goes to the end.
LEMMA Push ==
  ASSUME ServerTypeOK, NEW l \in Loops, NEW f \in Functors,
         queue' = [queue EXCEPT ![l] = Append(@, f)], batch' = batch
  PROVE  /\ queue' \in [Loops -> Seq(Functors)]
         /\ \A m \in Loops : \A op, c :
              In(op, c, Waiting(m))' <=> \/ In(op, c, Waiting(m))
                                         \/ m = l /\ f.op = op /\ f.conn = c
         /\ (\A op : In(op, f.conn, Waiting(l)) =>
                       op = "established" /\ f.op = "destroyed")
            => \A m \in Loops : Ordered(Waiting(m)) => Ordered(Waiting(m))'
<1>1. queue' \in [Loops -> Seq(Functors)]
  BY DEF ServerTypeOK
<1>2. ASSUME NEW m \in Loops
      PROVE  Waiting(m)' = IF m = l THEN Append(Waiting(m), f) ELSE Waiting(m)
  <2>1. queue'[m] = IF m = l THEN Append(queue[m], f) ELSE queue[m]
    BY DEF ServerTypeOK
  <2>2. batch[m] \in Seq(Functors) /\ queue[m] \in Seq(Functors)
    BY WaitingType
  <2>3. batch[m] \o Append(queue[m], f) = Append(batch[m] \o queue[m], f)
    <3>1. \A a, b \in Seq(Functors) : a \o Append(b, f) = Append(a \o b, f)
      BY ConcatFunctors
    <3> QED BY <2>2, <3>1, Zenon
  <2>4. Waiting(m)' = batch[m] \o queue'[m] /\ Waiting(m) = batch[m] \o queue[m]
    BY DEF Waiting
  <2>5. CASE m = l
    <3>1. queue'[m] = Append(queue[m], f)
      BY <2>1, <2>5
    <3> QED BY <3>1, <2>3, <2>4, <2>5
  <2>6. CASE m # l
    BY <2>1, <2>4, <2>6
  <2> QED BY <2>5, <2>6
<1>3. /\ \A op, c : In(op, c, Waiting(l))'
                      <=> In(op, c, Waiting(l)) \/ (f.op = op /\ f.conn = c)
      /\ (Ordered(Waiting(l)) /\ (\A g \in Functors :
            In(g.op, f.conn, Waiting(l)) =>
              g.op = "established" /\ f.op = "destroyed"))
           => Ordered(Waiting(l))'
  <2>1. Waiting(l)' = Append(Waiting(l), f)
    BY <1>2
  <2>2. /\ \A op, c : In(op, c, Waiting(l)')
                      <=> In(op, c, Waiting(l)) \/ (f.op = op /\ f.conn = c)
        /\ (Ordered(Waiting(l)) /\ (\A g \in Functors :
              In(g.op, f.conn, Waiting(l)) =>
                g.op = "established" /\ f.op = "destroyed"))
             => Ordered(Waiting(l)')
    BY <2>1, WaitingType, AppendFunctor
  <2> QED BY <2>2 DEF In, Ordered
<1>4. ASSUME NEW m \in Loops, m # l
      PROVE  /\ \A op, c : In(op, c, Waiting(m))' <=> In(op, c, Waiting(m))
             /\ Ordered(Waiting(m)) => Ordered(Waiting(m))'
  BY <1>2, <1>4 DEF In, Ordered
<1> QED BY <1>1, <1>3, <1>4

\* The next functor of a batch is taken; another one may be queued.
LEMMA Pop ==
  ASSUME ServerTypeOK, NEW l \in Loops, batch[l] # << >>,
         batch' = [batch EXCEPT ![l] = Tail(@)], queue' = queue
  PROVE  /\ batch' \in [Loops -> Seq(Functors)]
         /\ Head(batch[l]) \in Functors
         /\ \A m \in Loops : \A op, c :
              In(op, c, Waiting(m)) <=>
                \/ In(op, c, Waiting(m))'
                \/ m = l /\ Head(batch[l]).op = op /\ Head(batch[l]).conn = c
         /\ \A m \in Loops : Ordered(Waiting(m)) => Ordered(Waiting(m))'
         /\ Ordered(Waiting(l)) =>
              \A op, c : c = Head(batch[l]).conn /\ In(op, c, Waiting(l))' =>
                Head(batch[l]).op = "established" /\ op = "destroyed"
<1>1. batch' \in [Loops -> Seq(Functors)] /\ Head(batch[l]) \in Functors
  BY WaitingType DEF ServerTypeOK
<1>2. /\ Waiting(l)' = Tail(Waiting(l)) /\ Waiting(l) # << >>
      /\ Head(Waiting(l)) = Head(batch[l])
  <2>1. batch'[l] = Tail(batch[l])
    BY DEF ServerTypeOK
  <2>2. batch[l] \in Seq(Functors) /\ queue[l] \in Seq(Functors)
    BY WaitingType
  <2>3. /\ batch[l] \o queue[l] # << >>
        /\ Head(batch[l] \o queue[l]) = Head(batch[l])
        /\ Tail(batch[l]) \o queue[l] = Tail(batch[l] \o queue[l])
    BY <2>2, ConcatFunctors
  <2>4. Waiting(l)' = batch'[l] \o queue[l] /\ Waiting(l) = batch[l] \o queue[l]
    BY DEF Waiting
  <2>5. Waiting(l)' = Tail(batch[l]) \o queue[l]
    BY <2>1, <2>4
  <2> QED BY <2>3, <2>4, <2>5
<1>3. /\ \A op, c : In(op, c, Waiting(l)) <=>
                      \/ In(op, c, Waiting(l)')
                      \/ Head(batch[l]).op = op /\ Head(batch[l]).conn = c
      /\ Ordered(Waiting(l)) =>
           /\ Ordered(Waiting(l)')
           /\ \A op : In(op, Head(batch[l]).conn, Waiting(l)') =>
                Head(batch[l]).op = "established" /\ op = "destroyed"
  <2>1. Waiting(l) \in Seq(Functors)
    BY WaitingType
  <2>2. /\ \A op, c : In(op, c, Waiting(l)) <=>
                        \/ In(op, c, Tail(Waiting(l)))
                        \/ /\ Head(Waiting(l)).op = op
                           /\ Head(Waiting(l)).conn = c
        /\ Ordered(Waiting(l)) =>
             /\ Ordered(Tail(Waiting(l)))
             /\ \A op : In(op, Head(Waiting(l)).conn, Tail(Waiting(l))) =>
                  Head(Waiting(l)).op = "established" /\ op = "destroyed"
    BY <2>1, <1>2, TailFunctor
  <2>3. /\ Waiting(l)' = Tail(Waiting(l))
        /\ Head(Waiting(l)) = Head(batch[l])
    BY <1>2
  <2> QED BY <2>2, <2>3
<1>4. ASSUME NEW m \in Loops, m # l
      PROVE  Waiting(m)' = Waiting(m)
  BY <1>4 DEF Waiting, ServerTypeOK
<1>5. /\ \A m \in Loops : \A op, c :
           In(op, c, Waiting(m)') <=> In(op, c, Waiting(m))'
      /\ \A m \in Loops : Ordered(Waiting(m)') <=> Ordered(Waiting(m))'
  BY DEF In, Ordered
<1>6. \A m \in Loops : \A op, c :
        In(op, c, Waiting(m)) <=>
          \/ In(op, c, Waiting(m))'
          \/ m = l /\ Head(batch[l]).op = op /\ Head(batch[l]).conn = c
  BY <1>3, <1>4, <1>5
<1>7. \A m \in Loops : Ordered(Waiting(m)) => Ordered(Waiting(m))'
  BY <1>3, <1>4, <1>5
<1>8. Ordered(Waiting(l)) =>
        \A op, c : c = Head(batch[l]).conn /\ In(op, c, Waiting(l))' =>
          Head(batch[l]).op = "established" /\ op = "destroyed"
  BY <1>3, <1>5
<1> QED BY <1>1, <1>6, <1>7, <1>8
-----------------------------------------------------------------------------
(* Types, and where the threads are.                                       *)

LEMMA LoopsStarted ==
  ASSUME ServerTypeOK
  PROVE  /\ numThreads \in 0..MaxThreads
         /\ started = 0 => Len(loops) = 0 /\ loops = << >>
         /\ started # 0 => /\ Len(loops) = numThreads
                           /\ \A i \in 1..numThreads : loops[i] = i
                           /\ loops = << >> <=> numThreads = 0
         /\ Len(loops) <= numThreads /\ Len(loops) \in Nat
<1>1. numThreads \in 0..MaxThreads /\ started \in Nat
  BY Constants DEF ServerTypeOK
<1>2. CASE started = 0
  <2>1. loops = [i \in 1..0 |-> i]
    BY <1>2 DEF ServerTypeOK
  <2> QED BY <2>1, <1>1, <1>2
<1>3. CASE started # 0
  <2>1. loops = [i \in 1..numThreads |-> i]
    BY <1>3 DEF ServerTypeOK
  <2> QED BY <2>1, <1>1, <1>3
<1> QED BY <1>2, <1>3

\* getNextLoop().
LEMMA NextLoopIs ==
  ASSUME ServerTypeOK, Control, Deal, Accept
  PROVE  /\ accepted \in Nat /\ accepted' = accepted + 1
         /\ accepted' \in Conns /\ nextConnId = accepted'
         /\ NextLoop \in Loops
         /\ home' = [home EXCEPT ![accepted'] = NextLoop]
         /\ numThreads' = numThreads
         /\ numThreads = 0 => NextLoop = Base /\ nextLoop' = 0
         /\ numThreads > 0 =>
              /\ NextLoop = nextLoop + 1
              /\ nextLoop' = IF nextLoop + 1 = numThreads THEN 0
                             ELSE nextLoop + 1
<1>1. /\ accepted \in Nat /\ accepted' = accepted + 1
      /\ accepted' \in 1..MaxConns /\ nextConnId = accepted'
      /\ numThreads' = numThreads
      /\ home' = [home EXCEPT ![accepted'] = NextLoop]
  BY Constants DEF Accept, ServerTypeOK
<1>2. started # 0
  BY DEF Accept, Control
<1>3. CASE numThreads = 0
  BY <1>1, <1>2, <1>3, LoopsStarted, Constants DEF Accept, AdvanceLoop, NextLoop
<1>4. CASE numThreads > 0
  <2>1. nextLoop \in Nat /\ nextLoop < numThreads
    BY <1>4, Constants DEF Deal, ServerTypeOK
  <2>2. /\ NextLoop = nextLoop + 1
        /\ nextLoop' = IF nextLoop + 1 >= numThreads THEN 0 ELSE nextLoop + 1
    BY <1>2, <1>4, <2>1, LoopsStarted DEF Accept, AdvanceLoop, NextLoop
  <2> QED BY <1>1, <1>4, <2>1, <2>2, LoopsStarted, Constants
<1> QED BY <1>3, <1>4, LoopsStarted

LEMMA DealStep ==
  ASSUME ServerTypeOK, Control, Deal, Accept
  PROVE  Deal' /\ RoundRobin' /\ nextLoop' \in 0..MaxThreads
<1> DEFINE n == accepted + 1
<1>1. /\ accepted \in Nat /\ accepted' = n /\ n \in Conns
      /\ numThreads' = numThreads /\ numThreads \in 0..MaxThreads
      /\ MaxThreads \in Nat /\ nextLoop \in Nat
  BY NextLoopIs, LoopsStarted, Constants DEF ServerTypeOK
<1>2. /\ home'[n] = NextLoop
      /\ \A c \in 1..accepted : c \in Conns /\ home'[c] = home[c]
  <2>1. home \in [Conns -> Loops] /\ accepted < MaxConns + 1
    BY <1>1, Constants DEF ServerTypeOK
  <2>2. home' = [home EXCEPT ![n] = NextLoop]
    BY <1>1, NextLoopIs
  <2>3. \A c \in 1..accepted : c \in Conns /\ c # n
    BY <2>1, <1>1, Constants
  <2> QED BY <2>1, <2>2, <2>3, <1>1
<1>3. CASE numThreads = 0
  <2>1. nextLoop' = 0 /\ NextLoop = Base
    BY <1>3, NextLoopIs
  <2>2. \A c \in 1..n : home'[c] = Base
    BY <2>1, <1>1, <1>2, <1>3 DEF Deal
  <2>3. RoundRobin'
    BY <1>1, <1>3 DEF RoundRobin
  <2> QED BY <2>1, <2>2, <2>3, <1>1, <1>3 DEF Deal
<1>4. CASE numThreads > 0
  <2>1. /\ nextLoop < numThreads
        /\ \A j \in 1..numThreads : j <= accepted =>
             home[accepted + 1 - j] = IF j <= nextLoop THEN nextLoop + 1 - j
                                      ELSE nextLoop + 1 - j + numThreads
    BY <1>4 DEF Deal
  <2>2. /\ NextLoop = nextLoop + 1
        /\ nextLoop' = IF nextLoop + 1 = numThreads THEN 0 ELSE nextLoop + 1
    BY <1>4, NextLoopIs
  <2>3. nextLoop' < numThreads /\ nextLoop' \in 0..MaxThreads
    BY <2>1, <2>2, <1>1, <1>4
  <2>4. ASSUME NEW j \in 1..numThreads, j <= n
        PROVE  home'[n + 1 - j] = IF j <= nextLoop' THEN nextLoop' + 1 - j
                                  ELSE nextLoop' + 1 - j + numThreads
    <3>1. CASE j = 1
      BY <3>1, <2>2, <1>1, <1>2, <1>4
    <3>2. CASE j > 1
      <4>1. /\ j - 1 \in 1..numThreads /\ j - 1 <= accepted
            /\ accepted + 1 - (j - 1) = n + 1 - j
            /\ n + 1 - j \in 1..accepted
        BY <3>2, <2>4, <1>1
      <4>2. home[n + 1 - j] = IF j - 1 <= nextLoop THEN nextLoop + 1 - (j - 1)
                              ELSE nextLoop + 1 - (j - 1) + numThreads
        BY <4>1, <2>1
      <4>3. home'[n + 1 - j] = home[n + 1 - j]
        BY <4>1, <1>2
      <4> QED BY <4>2, <4>3, <3>2, <2>1, <2>2, <1>1
    <3> QED BY <3>1, <3>2
  <2>5. RoundRobin'
    <3> SUFFICES ASSUME NEW c \in 1..n, NEW d \in 1..n,
                        c < d, d < c + numThreads
                 PROVE  home'[c] # home'[d]
      BY <1>1 DEF RoundRobin
    <3>1. CASE d \in 1..accepted
      <4>1. c \in 1..accepted
        BY <3>1, <1>1
      <4>2. home[c] # home[d]
        BY <4>1, <3>1 DEF ServerTypeOK, RoundRobin
      <4> QED BY <4>1, <4>2, <3>1, <1>2
    <3>2. CASE d = n
      <4>1. /\ n - c \in 1..numThreads /\ n - c < numThreads
            /\ n - c <= accepted
            /\ accepted + 1 - (n - c) = c /\ c \in 1..accepted
        BY <3>2, <1>1
      <4>2. home[c] = IF n - c <= nextLoop THEN nextLoop + 1 - (n - c)
                      ELSE nextLoop + 1 - (n - c) + numThreads
        BY <4>1, <2>1
      <4>3. home'[c] = home[c]
        BY <4>1, <1>2
      <4>4. home[c] # nextLoop + 1
        BY <4>1, <4>2, <1>1, <2>1
      <4> QED BY <4>3, <4>4, <3>2, <1>2, <2>2
    <3> QED BY <3>1, <3>2, <1>1
  <2> QED BY <2>3, <2>4, <2>5, <1>1, <1>4 DEF Deal
<1> QED BY <1>3, <1>4, <1>1
ConnTypes ==
  /\ state \in [Conns -> {"none", "connecting", "connected", "disconnecting",
                          "disconnected"}]
  /\ polled \in [Conns -> BOOLEAN]
  /\ ups \in [Conns -> Nat] /\ downs \in [Conns -> Nat]
  /\ destroyed \in [Conns -> Nat]

LEMMA ConnTypesStep ==
  ASSUME ConnTypes, NEW c \in Conns,
         \/ ConnectEstablished(c) \/ ConnectDestroyed(c)
         \/ UNCHANGED <<state, polled, ups, downs, destroyed>>
  PROVE  ConnTypes'
<1>1. CASE ConnectEstablished(c)
  <2>1. state' \in [Conns -> {"none", "connecting", "connected",
                              "disconnecting", "disconnected"}]
    BY <1>1 DEF ConnTypes, ConnectEstablished
  <2>2. polled' \in [Conns -> BOOLEAN]
    BY <1>1 DEF ConnTypes, ConnectEstablished
  <2>3. ups' \in [Conns -> Nat]
    BY <1>1 DEF ConnTypes, ConnectEstablished
  <2> QED BY <1>1, <2>1, <2>2, <2>3 DEF ConnTypes, ConnectEstablished
<1>2. CASE ConnectDestroyed(c)
  <2>1. state' \in [Conns -> {"none", "connecting", "connected",
                              "disconnecting", "disconnected"}]
    BY <1>2 DEF ConnTypes, ConnectDestroyed
  <2>2. polled' \in [Conns -> BOOLEAN]
    BY <1>2 DEF ConnTypes, ConnectDestroyed
  <2>3. downs' \in [Conns -> Nat]
    BY <1>2 DEF ConnTypes, ConnectDestroyed
  <2>4. destroyed' \in [Conns -> Nat]
    BY <1>2 DEF ConnTypes, ConnectDestroyed
  <2> QED BY <1>2, <2>1, <2>2, <2>3, <2>4 DEF ConnTypes, ConnectDestroyed
<1> QED BY <1>1, <1>2 DEF ConnTypes

LEMMA TypeStep ==
  ASSUME ServerTypeOK, Control, Deal, [Next]_vars
  PROVE  ServerTypeOK'
<1>1. CASE Start
  <2>1. started' \in 0..MaxStarts
    BY <1>1, ServerAssumption DEF Start, ServerTypeOK
  <2>2. /\ loops' = [i \in 1..(IF started' = 0 THEN 0 ELSE numThreads') |-> i]
        /\ loopPc' \in [Loops -> {"off", "init", "poll", "run", "stopped"}]
        /\ listening' \in BOOLEAN
    <3>1. CASE started = 0
      <4>1. loops' = << >> \o [i \in 1..numThreads |-> i] /\ started' = 1
            /\ numThreads' = numThreads
        BY <1>1, <3>1, LoopsStarted DEF Start, StartThreads
      <4>2. [i \in 1..numThreads |-> i] \in Seq(Nat)
        BY LoopsStarted
      <4>3. loops' = [i \in 1..numThreads |-> i]
        BY <4>1, <4>2
      <4>4. loopPc' \in [Loops -> {"off", "init", "poll", "run", "stopped"}]
        BY <1>1, <3>1 DEF Start, StartThreads, ServerTypeOK
      <4> QED BY <4>1, <4>3, <4>4, <1>1, <3>1 DEF Start
    <3>2. CASE started # 0
      <4>1. started' # 0
        BY <1>1, <3>2, ServerAssumption DEF Start, ServerTypeOK
      <4> QED BY <4>1, <1>1, <3>2 DEF Start, ServerTypeOK
    <3> QED BY <3>1, <3>2
  <2> QED BY <1>1, <2>1, <2>2
          DEF Start, ServerTypeOK, RoundRobin, connVars, mainVars
<1>2. CASE EnterLoop
  BY <1>2 DEF EnterLoop, ServerTypeOK, RoundRobin, poolVars, serverVars, connVars
<1>3. CASE Accept
  <2>1. /\ accepted' \in 0..MaxConns /\ nextConnId' = accepted' + 1
    BY <1>3, NextLoopIs, Constants DEF Accept, NextName, ServerTypeOK
  <2>2. /\ connections' \in [Conns -> Conns \cup {NoConn}]
        /\ name' \in [Conns -> Conns \cup {0}]
        /\ home' \in [Conns -> Loops]
    BY <1>3, NextLoopIs DEF Accept, ServerTypeOK
  <2>3. ConnTypes' /\ queue' \in [Loops -> Seq(Functors)]
    <3>1. ConnTypes /\ accepted + 1 \in Conns
      BY <1>3, NextLoopIs DEF ServerTypeOK, ConnTypes
    <3>2. CASE NextLoop = Base
      BY <1>3, <3>1, <3>2, ConnTypesStep DEF Accept, ServerTypeOK
    <3>3. CASE NextLoop # Base
      <4>1. Functor("established", accepted + 1) \in Functors
        BY <3>1, FunctorFields
      <4>2. queue' = [queue EXCEPT ![NextLoop] =
                        Append(@, Functor("established", accepted + 1))]
        BY <1>3, <3>3 DEF Accept
      <4>3. queue' \in [Loops -> Seq(Functors)]
        BY <4>1, <4>2, <1>3, NextLoopIs, PushType
      <4>4. state' = [state EXCEPT ![accepted + 1] = "connecting"]
            /\ UNCHANGED <<polled, ups, downs, destroyed>>
        BY <1>3, <3>3 DEF Accept
      <4> QED BY <4>3, <4>4, <3>1 DEF ConnTypes
    <3> QED BY <3>2, <3>3
  <2>4. RoundRobin' /\ nextLoop' \in 0..MaxThreads
    BY <1>3, DealStep
  <2> QED BY <1>3, <2>1, <2>2, <2>3, <2>4
          DEF Accept, ServerTypeOK, ConnTypes, mainVars
<1>4. ASSUME NEW c \in Conns, Message(c)
      PROVE  ServerTypeOK'
  BY <1>4 DEF Message, ServerTypeOK, RoundRobin, poolVars, serverVars, loopVars,
              mainVars
<1>5. ASSUME NEW c \in Conns, Close(c)
      PROVE  ServerTypeOK'
  <2>1. /\ queue' \in [Loops -> Seq(Functors)]
        /\ connections' \in [Conns -> Conns \cup {NoConn}]
    <3>1. CASE home[c] = Base
      <4>1. Functor("destroyed", c) \in Functors
        BY FunctorFields
      <4>2. /\ queue' = [queue EXCEPT ![home[c]] =
                             Append(@, Functor("destroyed", c))]
            /\ connections' = [connections EXCEPT ![name[c]] = NoConn]
        BY <1>5, <3>1 DEF Close, RemoveConnectionInLoop
      <4>3. home[c] \in Loops /\ connections' \in [Conns -> Conns \cup {NoConn}]
        BY <4>2 DEF ServerTypeOK
      <4> QED BY <4>1, <4>2, <4>3, PushType
    <3>2. CASE home[c] # Base
      <4>1. Functor("remove", c) \in Functors
        BY FunctorFields
      <4>2. /\ queue' = [queue EXCEPT ![Base] =
                             Append(@, Functor("remove", c))]
            /\ connections' = connections
        BY <1>5, <3>2 DEF Close
      <4>3. connections' \in [Conns -> Conns \cup {NoConn}]
        BY <4>2 DEF ServerTypeOK
      <4> QED BY <4>1, <4>2, <4>3, Constants, PushType
    <3> QED BY <3>1, <3>2
  <2>2. /\ state' \in [Conns -> {"none", "connecting", "connected",
                                 "disconnecting", "disconnected"}]
        /\ polled' \in [Conns -> BOOLEAN]
        /\ downs' \in [Conns -> Nat]
    BY <1>5 DEF Close, ServerTypeOK
  <2> QED BY <1>5, <2>1, <2>2
          DEF Close, ServerTypeOK, RoundRobin, poolVars, mainVars
<1>6. ASSUME NEW l \in Loops, Swap(l)
      PROVE  ServerTypeOK'
  <2>1. /\ queue' \in [Loops -> Seq(Functors)]
        /\ batch' \in [Loops -> Seq(Functors)]
        /\ loopPc' \in [Loops -> {"off", "init", "poll", "run", "stopped"}]
    BY <1>6 DEF Swap, ServerTypeOK
  <2> QED BY <1>6, <2>1 DEF Swap, ServerTypeOK, RoundRobin, poolVars, serverVars,
                            connVars, mainVars
<1>0. ASSUME NEW l \in Loops, BeginLoop(l)
      PROVE  ServerTypeOK'
  BY <1>0 DEF BeginLoop, ServerTypeOK, RoundRobin, poolVars, serverVars, connVars,
              mainVars
<1>7. ASSUME NEW l \in Loops, RunFunctor(l)
      PROVE  ServerTypeOK'
  <2> DEFINE f == Head(batch[l])
             c == f.conn
  <2>1. /\ batch' \in [Loops -> Seq(Functors)] /\ c \in Conns
        /\ Functor("destroyed", c) \in Functors
    <3>1. f \in Functors /\ Tail(batch[l]) \in Seq(Functors)
      BY <1>7, WaitingType DEF RunFunctor
    <3>2. batch' = [batch EXCEPT ![l] = Tail(batch[l])]
      BY <1>7 DEF RunFunctor
    <3> QED BY <3>1, <3>2, FunctorParts, FunctorFields DEF ServerTypeOK
  <2>2. /\ ConnTypes'
        /\ queue' \in [Loops -> Seq(Functors)]
        /\ connections' \in [Conns -> Conns \cup {NoConn}]
    <3>1. ConnTypes
      BY DEF ServerTypeOK, ConnTypes
    <3>2. CASE /\ ConnectEstablished(c) \/ ConnectDestroyed(c)
               /\ UNCHANGED <<queue, connections>>
      BY <2>1, <3>1, <3>2, ConnTypesStep DEF ServerTypeOK
    <3>3. CASE /\ RemoveConnectionInLoop(c, queue)
               /\ UNCHANGED <<state, polled, ups, downs, destroyed>>
      <4>1. /\ queue' = [queue EXCEPT ![home[c]] =
                           Append(@, Functor("destroyed", c))]
            /\ connections' = [connections EXCEPT ![name[c]] = NoConn]
        BY <3>3 DEF RemoveConnectionInLoop
      <4>2. home[c] \in Loops /\ connections' \in [Conns -> Conns \cup {NoConn}]
        BY <2>1, <4>1 DEF ServerTypeOK
      <4>3. queue' \in [Loops -> Seq(Functors)]
        BY <2>1, <4>1, <4>2, PushType
      <4> QED BY <2>1, <3>1, <3>3, <4>2, <4>3, ConnTypesStep
    <3> QED BY <1>7, <3>2, <3>3 DEF RunFunctor
  <2> HIDE DEF f
  <2> QED BY <1>7, <2>1, <2>2
          DEF RunFunctor, ServerTypeOK, ConnTypes, RoundRobin, poolVars,
              mainVars
<1>8. ASSUME NEW l \in Loops, FinishBatch(l)
      PROVE  ServerTypeOK'
  <2>1. /\ queue' \in [Loops -> Seq(Functors)]
        /\ loopPc' \in [Loops -> {"off", "init", "poll", "run", "stopped"}]
    BY <1>8 DEF FinishBatch, ServerTypeOK
  <2> QED BY <1>8, <2>1 DEF FinishBatch, ServerTypeOK, RoundRobin, poolVars,
                            serverVars, connVars, mainVars
<1>9. CASE QuitBase
  BY <1>9 DEF QuitBase, ServerTypeOK, RoundRobin, poolVars, serverVars, connVars,
              mainVars
<1>10. CASE LeaveLoop
  BY <1>10 DEF LeaveLoop, ServerTypeOK, RoundRobin, poolVars, serverVars,
               connVars, loopVars
<1>11. ASSUME NEW n \in Conns, DestroyEntry(n)
       PROVE  ServerTypeOK'
  <2> DEFINE c == connections[n]
  <2>1. c \in Conns /\ Functor("destroyed", c) \in Functors
    <3>1. c \in Conns
      BY <1>11 DEF DestroyEntry, ServerTypeOK
    <3> QED BY <3>1, FunctorFields
  <2>2. connections' \in [Conns -> Conns \cup {NoConn}]
    BY <1>11 DEF DestroyEntry, ServerTypeOK
  <2>3. ConnTypes' /\ queue' \in [Loops -> Seq(Functors)]
    <3>1. ConnTypes
      BY DEF ServerTypeOK, ConnTypes
    <3>2. CASE home[c] = Base
      BY <1>11, <2>1, <3>1, <3>2, ConnTypesStep DEF DestroyEntry, ServerTypeOK
    <3>3. CASE home[c] # Base
      <4>1. /\ queue' = [queue EXCEPT ![home[c]] =
                           Append(@, Functor("destroyed", c))]
            /\ UNCHANGED <<state, polled, ups, downs, destroyed>>
        BY <1>11, <3>3 DEF DestroyEntry
      <4> QED BY <2>1, <3>1, <4>1, ConnTypesStep DEF ServerTypeOK
    <3> QED BY <3>2, <3>3
  <2> QED BY <1>11, <2>2, <2>3
          DEF DestroyEntry, ServerTypeOK, ConnTypes, RoundRobin, poolVars,
              mainVars
<1>12. CASE DestroyMembers
  BY <1>12 DEF DestroyMembers, ServerTypeOK, RoundRobin, poolVars, serverVars,
               connVars, loopVars
<1>13. CASE QuitThread
  BY <1>13 DEF QuitThread, ServerTypeOK, RoundRobin, poolVars, serverVars,
               connVars
<1>14. CASE JoinThread
  <2>1. joined' \in 0..MaxThreads
    BY <1>14, LoopsStarted, Constants DEF JoinThread, Control, ServerTypeOK
  <2> QED BY <1>14, <2>1 DEF JoinThread, ServerTypeOK, RoundRobin, poolVars,
                             serverVars, connVars, loopVars
<1>15. CASE EndMain
  <2>1. queue' \in [Loops -> Seq(Functors)]
    BY <1>15, Constants DEF EndMain, ServerTypeOK
  <2> QED BY <1>15, <2>1 DEF EndMain, ServerTypeOK, RoundRobin, poolVars, connVars
<1>16. CASE UNCHANGED vars
  BY <1>16 DEF vars, ServerTypeOK, RoundRobin, poolVars, serverVars, connVars,
               loopVars, mainVars
<1> QED BY <1>1, <1>2, <1>3, <1>4, <1>5, <1>6, <1>7, <1>8, <1>9, <1>10, <1>11,
           <1>12, <1>13, <1>14, <1>15, <1>16, <1>0
        DEF Next, Loop, Destructor, Terminated
LEMMA ControlStep ==
  ASSUME ServerTypeOK, Control, [Next]_vars
  PROVE  Control'
<1> USE Constants, LoopsStarted
<1>1. CASE Start
  <2>1. /\ started' > 0 /\ UNCHANGED <<mainPc, joined, accepted, batch>>
        /\ mainPc = "setup"
    BY <1>1, ServerAssumption DEF Start, ServerTypeOK, mainVars
  <2>2. CASE started = 0
    <3>1. joined = 0
      BY <2>2 DEF Control, ServerTypeOK
    <3>2. loops' = << >> \o [i \in 1..numThreads |-> i]
          /\ loopPc' = [l \in Loops |-> IF l \in 1..numThreads THEN "init"
                                        ELSE loopPc[l]]
      BY <1>1, <2>2 DEF Start, StartThreads
    <3>3. [i \in 1..numThreads |-> i] \in Seq(Nat)
      OBVIOUS
    <3>4. Len(loops') \in Nat
      BY <3>2, <3>3
    <3>5. \A l \in Loops : loopPc'[l] # "run" /\ batch[l] = << >>
      BY <2>2, <3>2 DEF Control
    <3>6. loopPc'[Base] = "off"
      BY <2>2, <3>2 DEF Control
    <3> QED BY <2>1, <3>1, <3>4, <3>5, <3>6 DEF Control
  <2>3. CASE started # 0
    BY <1>1, <2>1, <2>3 DEF Start, Control
  <2> QED BY <2>2, <2>3
<1>2. CASE EnterLoop
  <2>1. \A l \in Loops : loopPc'[l] = IF l = Base THEN "init" ELSE loopPc[l]
    BY <1>2 DEF EnterLoop, ServerTypeOK
  <2> QED BY <1>2, <2>1
          DEF EnterLoop, Control, ServerTypeOK, poolVars, serverVars
<1>3. CASE Accept
  BY <1>3 DEF Accept, Control, ServerTypeOK, mainVars
<1>4. ASSUME NEW c \in Conns, Message(c)
      PROVE  Control'
  BY <1>4 DEF Message, Control, poolVars, serverVars, loopVars, mainVars
<1>5. ASSUME NEW c \in Conns, Close(c)
      PROVE  Control'
  BY <1>5 DEF Close, Control, poolVars, mainVars
<1>6. ASSUME NEW l \in Loops, Swap(l)
      PROVE  Control'
  <2>1. \A m \in Loops : m # l => loopPc'[m] = loopPc[m] /\ batch'[m] = batch[m]
    BY <1>6 DEF Swap, ServerTypeOK
  <2>2. loopPc[l] = "poll" /\ loopPc'[l] = "run"
    BY <1>6 DEF Swap, ServerTypeOK
  <2>3. \A m \in 1..joined : m \in Loops
    <3>1. joined \in 0..MaxThreads
      BY DEF ServerTypeOK
    <3>2. \A m \in 1..joined : m \in 0..MaxThreads
      BY <3>1
    <3> QED BY <3>2
  <2>4. \A m \in 1..joined : m # l
    BY <2>2 DEF Control
  <2> QED BY <1>6, <2>1, <2>2, <2>3, <2>4
          DEF Swap, Control, poolVars, serverVars, mainVars
<1>0. ASSUME NEW l \in Loops, BeginLoop(l)
      PROVE  Control'
  <2>1. \A m \in Loops : m # l => loopPc'[m] = loopPc[m]
    BY <1>0 DEF BeginLoop, ServerTypeOK
  <2>2. loopPc[l] = "init" /\ loopPc'[l] = "run" /\ batch' = batch
    BY <1>0 DEF BeginLoop, ServerTypeOK
  <2>3. \A m \in 1..joined : m \in Loops
    <3>1. joined \in 0..MaxThreads
      BY DEF ServerTypeOK
    <3>2. \A m \in 1..joined : m \in 0..MaxThreads
      BY <3>1
    <3> QED BY <3>2
  <2>4. \A m \in 1..joined : m # l
    BY <2>2 DEF Control
  <2> QED BY <1>0, <2>1, <2>2, <2>3, <2>4
          DEF BeginLoop, Control, poolVars, serverVars, mainVars
<1>7. ASSUME NEW l \in Loops, RunFunctor(l)
      PROVE  Control'
  <2>1. \A m \in Loops : m # l => batch'[m] = batch[m]
    BY <1>7 DEF RunFunctor, ServerTypeOK
  <2> QED BY <1>7, <2>1 DEF RunFunctor, Control, poolVars, mainVars
<1>8. ASSUME NEW l \in Loops, FinishBatch(l)
      PROVE  Control'
  <2>1. \A m \in Loops : m # l => loopPc'[m] = loopPc[m]
    BY <1>8 DEF FinishBatch, ServerTypeOK
  <2>2. loopPc[l] = "run" /\ batch[l] = << >> /\ batch' = batch
    BY <1>8 DEF FinishBatch
  <2>3. \A m \in 1..joined : m \in Loops
    <3>1. joined \in 0..MaxThreads
      BY DEF ServerTypeOK
    <3>2. \A m \in 1..joined : m \in 0..MaxThreads
      BY <3>1
    <3> QED BY <3>2
  <2>4. \A m \in 1..joined : m # l
    BY <2>2 DEF Control
  <2> QED BY <1>8, <2>1, <2>2, <2>3, <2>4
          DEF FinishBatch, Control, poolVars, serverVars, mainVars
<1>9. CASE QuitBase
  BY <1>9 DEF QuitBase, Control, poolVars, serverVars, mainVars
<1>10. CASE LeaveLoop
  BY <1>10 DEF LeaveLoop, Control, poolVars, serverVars, loopVars
<1>11. ASSUME NEW n \in Conns, DestroyEntry(n)
       PROVE  Control'
  BY <1>11 DEF DestroyEntry, Control, poolVars, mainVars
<1>12. CASE DestroyMembers
  BY <1>12 DEF DestroyMembers, Control, poolVars, serverVars, loopVars
<1>13. CASE QuitThread
  BY <1>13 DEF QuitThread, Control, poolVars, serverVars
<1>14. CASE JoinThread
  <2>1. \A m \in 1..joined' : m \in 1..joined \/ m = joined + 1
    BY <1>14 DEF JoinThread, ServerTypeOK
  <2> QED BY <1>14, <2>1
          DEF JoinThread, Control, ServerTypeOK, poolVars, serverVars, loopVars
<1>15. CASE EndMain
  BY <1>15 DEF EndMain, Control, poolVars
<1>16. CASE UNCHANGED vars
  BY <1>16 DEF vars, Control, poolVars, serverVars, loopVars, mainVars
<1> QED BY <1>1, <1>2, <1>3, <1>4, <1>5, <1>6, <1>7, <1>8, <1>9, <1>10, <1>11,
           <1>12, <1>13, <1>14, <1>15, <1>16, <1>0
        DEF Next, Loop, Destructor, Terminated

LEMMA DealKept ==
  ASSUME ServerTypeOK, Control, Deal, [Next]_vars
  PROVE  Deal'
<1>1. CASE Accept
  BY <1>1, DealStep
<1>2. CASE UNCHANGED <<numThreads, nextLoop, accepted, home>>
  BY <1>2 DEF Deal
<1> QED BY <1>1, <1>2
        DEF Next, Start, EnterLoop, Message, Close, Loop, BeginLoop, Swap,
            RunFunctor, FinishBatch, QuitBase, Destructor, LeaveLoop, DestroyEntry,
            DestroyMembers, QuitThread, JoinThread, EndMain, Terminated, vars,
            poolVars, serverVars, connVars
-----------------------------------------------------------------------------
(* Connections that a step leaves alone.                                   *)

Same(c) ==
  /\ connections'[c] = connections[c] /\ name'[c] = name[c]
  /\ home'[c] = home[c] /\ state'[c] = state[c]
  /\ polled'[c] <=> polled[c]
  /\ ups'[c] = ups[c] /\ downs'[c] = downs[c]
  /\ destroyed'[c] = destroyed[c]
  /\ c <= accepted' <=> c <= accepted
  /\ c > accepted' <=> c > accepted

LEMMA LifeSame ==
  ASSUME NEW c \in Conns, NEW l \in Loops, home[c] = l, Life(c), Same(c),
         Alive(l)' => Alive(l) \/ state[c] = "none",
         \A op : Alive(l)' /\ In(op, c, Waiting(l)) => In(op, c, Waiting(l))'
  PROVE  Life(c)'
<1>1. /\ connections'[c] \in {c, NoConn}
      /\ c <= accepted' => name'[c] = c
      /\ connections'[c] = c => c <= accepted' /\ destroyed'[c] = 0
      /\ state'[c] = "none" <=> c > accepted'
      /\ ups'[c] = IF state'[c] \in {"none", "connecting"} THEN 0 ELSE 1
      /\ downs'[c] = IF state'[c] = "disconnected" THEN 1 ELSE 0
      /\ destroyed'[c] \in {0, 1}
  BY DEF Life, Same
<1>2. /\ destroyed'[c] = 1 => ~polled'[c] /\ state'[c] \in {"disconnecting",
                                                            "disconnected"}
      /\ polled'[c] => state'[c] \in {"connected", "disconnecting"}
  BY DEF Life, Same
<1>3. home'[c] = l
  BY DEF Same
<1>4. state'[c] = "connecting" =>
        /\ home'[c] # Base
        /\ Alive(home[c])' => In("established", c, Waiting(home[c]))'
  <2>1. state'[c] = "connecting" =>
          l # Base /\ (Alive(l) => In("established", c, Waiting(l)))
    BY DEF Life, Same
  <2>2. state'[c] = "connecting" =>
          l # Base /\ (Alive(l)' => In("established", c, Waiting(l))')
    BY <2>1 DEF Same
  <2> QED BY <2>2, <1>3 DEF Alive, Waiting
<1>5. state'[c] \in {"connecting", "connected", "disconnecting"}
        /\ destroyed'[c] = 0 /\ Alive(home[c])' =>
          connections'[c] = c \/ In("destroyed", c, Waiting(home[c]))'
  <2>1. state'[c] \in {"connecting", "connected", "disconnecting"}
          /\ destroyed'[c] = 0 /\ Alive(l) =>
            connections'[c] = c \/ In("destroyed", c, Waiting(l))
    BY DEF Life, Same
  <2>2. state'[c] \in {"connecting", "connected", "disconnecting"}
          /\ destroyed'[c] = 0 /\ Alive(l)' =>
            connections'[c] = c \/ In("destroyed", c, Waiting(l))'
    BY <2>1 DEF Same
  <2> QED BY <2>2, <1>3 DEF Alive, Waiting
<1> QED BY <1>1, <1>2, <1>4, <1>5 DEF Life

LEMMA MaySame ==
  ASSUME NEW c \in Conns, NEW l \in Loops, Same(c),
         loopPc[Base] = "stopped" => loopPc'[Base] = "stopped",
         Alive(Base)' => Alive(Base) \/ state[c] = "none"
  PROVE  /\ MayEstablish(l, c) => MayEstablish(l, c)'
         /\ MayDestroy(l, c) => MayDestroy(l, c)'
         /\ MayRemove(l, c) => MayRemove(l, c)'
<1>1. MayEstablish(l, c) => MayEstablish(l, c)'
  BY DEF MayEstablish, Same
<1>2. MayDestroy(l, c) => MayDestroy(l, c)'
  BY DEF MayDestroy, Same
<1>3. MayRemove(l, c) => MayRemove(l, c)'
  BY DEF MayRemove, Same
<1> QED BY <1>1, <1>2, <1>3

\* What a loop's queue says of a connection.
MayAll(l, c) ==
  /\ In("established", c, Waiting(l)) => MayEstablish(l, c)
  /\ In("destroyed", c, Waiting(l)) => MayDestroy(l, c)
  /\ In("remove", c, Waiting(l)) => MayRemove(l, c)

\* No connection changes; functors and loops may come to their end, and
\* loops begin before the first connection.
LEMMA Quiet ==
  ASSUME ServerTypeOK, Queues, Lives,
         UNCHANGED <<connVars, connections, accepted>>,
         loopPc[Base] = "stopped" => loopPc'[Base] = "stopped",
         \A l \in Loops : Alive(l)' => Alive(l) \/ accepted = 0,
         \A l \in Loops : Ordered(Waiting(l)) => Ordered(Waiting(l))',
         \A l \in Loops : \A op, c :
           In(op, c, Waiting(l))' => In(op, c, Waiting(l)),
         \A l \in Loops : \A op, c :
           Alive(l)' /\ In(op, c, Waiting(l)) => In(op, c, Waiting(l))'
  PROVE  Queues' /\ Lives'
<1>1. \A c \in Conns : Same(c)
  BY DEF Same, connVars
<1>2. ASSUME NEW c \in Conns, accepted = 0
      PROVE  state[c] = "none"
  BY <1>2, Constants DEF Lives, Life
<1>3. ASSUME NEW c \in Conns
      PROVE  Life(c)'
  <2>1. home[c] \in Loops
    BY DEF ServerTypeOK
  <2>2. Life(c) /\ Same(c)
    BY <1>1 DEF Lives
  <2> QED BY <2>1, <2>2, <1>2, LifeSame
<1>4. ASSUME NEW l \in Loops, NEW c \in Conns
      PROVE  MayAll(l, c)'
  <2>1. /\ MayEstablish(l, c) => MayEstablish(l, c)'
        /\ MayDestroy(l, c) => MayDestroy(l, c)'
        /\ MayRemove(l, c) => MayRemove(l, c)'
    BY <1>1, <1>2, Constants, MaySame
  <2>2. MayAll(l, c)
    BY DEF Queues, MayAll
  <2> QED BY <2>1, <2>2 DEF MayAll
<1>5. Queues'
  BY <1>4 DEF Queues, MayAll
<1> QED BY <1>3, <1>5 DEF Lives

\* One connection changes, and what waits of it; the loops are where they were.
LEMMA OneChanges ==
  ASSUME ServerTypeOK, Queues, Lives, loopPc' = loopPc, NEW d \in Conns,
         \A c \in Conns : c # d => Same(c),
         \A l \in Loops : Ordered(Waiting(l))',
         \A l \in Loops : \A op, c :
           c # d => (In(op, c, Waiting(l))' <=> In(op, c, Waiting(l))),
         Life(d)', \A l \in Loops : MayAll(l, d)'
  PROVE  Queues' /\ Lives'
<1>1. \A l : Alive(l)' <=> Alive(l)
  BY DEF Alive
<1>2. ASSUME NEW c \in Conns, c # d
      PROVE  Life(c)'
  <2>1. home[c] \in Loops
    BY DEF ServerTypeOK
  <2>2. Life(c) /\ Same(c)
    BY <1>2 DEF Lives
  <2> QED BY <2>1, <2>2, <1>1, <1>2, LifeSame
<1>3. ASSUME NEW l \in Loops, NEW c \in Conns, c # d
      PROVE  MayAll(l, c)'
  <2>1. /\ MayEstablish(l, c) => MayEstablish(l, c)'
        /\ MayDestroy(l, c) => MayDestroy(l, c)'
        /\ MayRemove(l, c) => MayRemove(l, c)'
    BY <1>1, <1>3, MaySame
  <2>2. MayAll(l, c)
    BY DEF Queues, MayAll
  <2> QED BY <2>1, <2>2, <1>3 DEF MayAll
<1>4. Queues'
  BY <1>3 DEF Queues, MayAll
<1> QED BY <1>2, <1>4 DEF Lives
LEMMA LoopsOnly ==
  ASSUME ServerTypeOK, Queues, Lives,
         UNCHANGED <<connVars, connections, accepted>>,
         loopPc[Base] = "stopped" => loopPc'[Base] = "stopped",
         \A l \in Loops : Alive(l)' => Alive(l) \/ accepted = 0,
         \A l \in Loops : \/ Waiting(l)' = Waiting(l)
                          \/ Waiting(l)' = << >> /\ ~Alive(l)'
  PROVE  Queues' /\ Lives'
<1>1. Ordered(<< >>) /\ \A op, c : ~In(op, c, << >>)
  BY DEF Ordered, In
<1>2. /\ \A l \in Loops : \A op, c :
           In(op, c, Waiting(l)') <=> In(op, c, Waiting(l))'
      /\ \A l \in Loops : Ordered(Waiting(l)') <=> Ordered(Waiting(l))'
  BY DEF In, Ordered
<1>3. \A l \in Loops : Ordered(Waiting(l)) => Ordered(Waiting(l)')
  BY <1>1
<1>4. \A l \in Loops : \A op, c :
        In(op, c, Waiting(l)') => In(op, c, Waiting(l))
  BY <1>1
<1>5. \A l \in Loops : \A op, c :
        Alive(l)' /\ In(op, c, Waiting(l)) => In(op, c, Waiting(l)')
  BY <1>1
<1> QED BY <1>2, <1>3, <1>4, <1>5, Quiet

LEMMA QuietSteps ==
  ASSUME ServerTypeOK, Control, Queues, Lives,
         \/ Start \/ EnterLoop
         \/ (\E l \in Loops : BeginLoop(l) \/ Swap(l) \/ FinishBatch(l))
         \/ QuitBase \/ LeaveLoop \/ DestroyMembers \/ QuitThread \/ JoinThread
         \/ EndMain \/ UNCHANGED vars
  PROVE  Queues' /\ Lives'
<1>1. CASE /\ UNCHANGED <<connVars, connections, accepted>>
           /\ UNCHANGED <<queue, batch, loopPc>>
  BY <1>1, LoopsOnly DEF Waiting, Alive
<1>2. CASE Start
  <2>1. UNCHANGED <<connVars, connections, accepted, queue, batch>>
    BY <1>2 DEF Start
  <2>2. CASE started = 0
    <3>1. accepted = 0 /\ loopPc[Base] = "off"
      BY <2>2, Constants DEF Control
    <3> QED BY <2>1, <3>1, LoopsOnly DEF Waiting
  <2>3. CASE started # 0
    BY <1>1, <1>2, <2>1, <2>3 DEF Start
  <2> QED BY <2>2, <2>3
<1>3. CASE EnterLoop
  <2>1. UNCHANGED <<connVars, connections, accepted, queue, batch>>
    BY <1>3 DEF EnterLoop, serverVars
  <2>2. accepted = 0 /\ loopPc[Base] = "off"
    BY <1>3 DEF EnterLoop, Control
  <2> QED BY <2>1, <2>2, LoopsOnly DEF Waiting
<1>4. ASSUME NEW l \in Loops, Swap(l)
      PROVE  Queues' /\ Lives'
  <2>1. /\ UNCHANGED <<connVars, connections, accepted>>
        /\ loopPc[l] = "poll" /\ loopPc' = [loopPc EXCEPT ![l] = "run"]
        /\ batch' = [batch EXCEPT ![l] = queue[l]]
        /\ queue' = [queue EXCEPT ![l] = << >>]
    BY <1>4 DEF Swap, serverVars
  <2>2. \A m \in Loops : Alive(m)' <=> Alive(m)
    BY <2>1 DEF Alive, ServerTypeOK
  <2>3. loopPc[Base] = "stopped" => loopPc'[Base] = "stopped"
    BY <2>1, Constants DEF ServerTypeOK
  <2>4. ASSUME NEW m \in Loops
        PROVE  Waiting(m)' = Waiting(m)
    <3>1. CASE m = l
      <4>1. batch[m] = << >> /\ batch'[m] = queue[m] /\ queue'[m] = << >>
        BY <2>1, <3>1 DEF Control, ServerTypeOK
      <4>2. queue[m] \o << >> = queue[m] /\ << >> \o queue[m] = queue[m]
        BY WaitingType, ConcatFunctors
      <4> QED BY <4>1, <4>2 DEF Waiting
    <3>2. CASE m # l
      BY <2>1, <3>2 DEF Waiting, ServerTypeOK
    <3> QED BY <3>1, <3>2
  <2> QED BY <2>1, <2>2, <2>3, <2>4, LoopsOnly
<1>0. ASSUME NEW l \in Loops, BeginLoop(l)
      PROVE  Queues' /\ Lives'
  <2>1. /\ UNCHANGED <<connVars, connections, accepted, queue, batch>>
        /\ loopPc[l] = "init" /\ loopPc' = [loopPc EXCEPT ![l] = "run"]
    BY <1>0 DEF BeginLoop, serverVars
  <2>2. \A m \in Loops : Alive(m)' <=> Alive(m)
    BY <2>1 DEF Alive, ServerTypeOK
  <2>3. loopPc[Base] = "stopped" => loopPc'[Base] = "stopped"
    BY <2>1, Constants DEF ServerTypeOK
  <2> QED BY <2>1, <2>2, <2>3, LoopsOnly DEF Waiting
<1>5. ASSUME NEW l \in Loops, FinishBatch(l)
      PROVE  Queues' /\ Lives'
  <2>1. /\ UNCHANGED <<connVars, connections, accepted, batch>>
        /\ loopPc[l] = "run" /\ batch[l] = << >>
        /\ loopPc' = [loopPc EXCEPT ![l] = IF quit[l] THEN "stopped" ELSE "poll"]
        /\ queue' = [queue EXCEPT
                       ![l] = IF quit[l] /\ l # Base THEN << >> ELSE @]
    BY <1>5 DEF FinishBatch, serverVars
  <2>2. \A m \in Loops : Alive(m)' => Alive(m)
    BY <2>1 DEF Alive, ServerTypeOK
  <2>3. loopPc[Base] = "stopped" => loopPc'[Base] = "stopped"
    BY <2>1, Constants DEF ServerTypeOK
  <2>4. ASSUME NEW m \in Loops
        PROVE  Waiting(m)' = Waiting(m) \/ (Waiting(m)' = << >> /\ ~Alive(m)')
    <3>1. CASE m = l /\ quit[l] /\ l # Base
      <4>1. batch'[m] = << >> /\ queue'[m] = << >> /\ loopPc'[m] = "stopped"
        BY <2>1, <3>1 DEF ServerTypeOK
      <4> QED BY <4>1 DEF Waiting, Alive
    <3>2. CASE ~(m = l /\ quit[l] /\ l # Base)
      <4>1. queue'[m] = queue[m]
        BY <2>1, <3>2 DEF ServerTypeOK
      <4> QED BY <2>1, <4>1 DEF Waiting
    <3> QED BY <3>1, <3>2
  <2> QED BY <2>1, <2>2, <2>3, <2>4, LoopsOnly
<1>6. CASE EndMain
  <2>1. /\ UNCHANGED <<connVars, connections, accepted, batch, loopPc>>
        /\ queue' = [queue EXCEPT ![Base] = << >>]
        /\ loopPc[Base] = "stopped" /\ batch[Base] = << >>
    BY <1>6, Constants DEF EndMain, Control
  <2>2. ASSUME NEW m \in Loops
        PROVE  Waiting(m)' = Waiting(m) \/ (Waiting(m)' = << >> /\ ~Alive(m)')
    <3>1. CASE m = Base
      <4>1. queue'[m] = << >>
        BY <2>1, <3>1 DEF ServerTypeOK
      <4>2. Waiting(m)' = << >> \o << >>
        BY <2>1, <3>1, <4>1 DEF Waiting
      <4>3. loopPc'[m] = "stopped"
        BY <2>1, <3>1
      <4> QED BY <4>2, <4>3 DEF Alive
    <3>2. CASE m # Base
      <4>1. queue'[m] = queue[m]
        BY <2>1, <3>2 DEF ServerTypeOK
      <4> QED BY <2>1, <4>1 DEF Waiting
    <3> QED BY <3>1, <3>2
  <2>3. \A m \in Loops : Alive(m)' <=> Alive(m)
    BY <2>1 DEF Alive
  <2> QED BY <2>1, <2>2, <2>3, LoopsOnly
<1>7. CASE \/ QuitBase \/ LeaveLoop \/ DestroyMembers \/ QuitThread \/ JoinThread
           \/ UNCHANGED vars
  BY <1>7, <1>1 DEF QuitBase, LeaveLoop, DestroyMembers, QuitThread, JoinThread,
                    vars, serverVars, connVars, loopVars
<1> QED BY <1>0, <1>2, <1>3, <1>4, <1>5, <1>6, <1>7
-----------------------------------------------------------------------------
(* Steps that change a connection.                                         *)

KeepsOthers(d) ==
  \A c \in Conns : c # d => /\ state'[c] = state[c] /\ (polled'[c] <=> polled[c])
                            /\ ups'[c] = ups[c] /\ downs'[c] = downs[c]
                            /\ destroyed'[c] = destroyed[c]

LEMMA Established ==
  ASSUME ServerTypeOK, NEW d \in Conns, ConnectEstablished(d)
  PROVE  /\ KeepsOthers(d)
         /\ state'[d] = "connected" /\ polled'[d] = TRUE
         /\ ups'[d] = ups[d] + 1 /\ downs'[d] = downs[d]
         /\ destroyed'[d] = destroyed[d]
<1>1. state'[d] = "connected" /\ \A c \in Conns : c # d => state'[c] = state[c]
  BY DEF ConnectEstablished, ServerTypeOK
<1>2. polled'[d] = TRUE /\ \A c \in Conns : c # d => polled'[c] = polled[c]
  BY DEF ConnectEstablished, ServerTypeOK
<1>3. ups'[d] = ups[d] + 1 /\ \A c \in Conns : c # d => ups'[c] = ups[c]
  BY DEF ConnectEstablished, ServerTypeOK
<1>4. downs' = downs /\ destroyed' = destroyed
  BY DEF ConnectEstablished
<1> QED BY <1>1, <1>2, <1>3, <1>4 DEF KeepsOthers

LEMMA Destroyed ==
  ASSUME ServerTypeOK, NEW d \in Conns, ConnectDestroyed(d)
  PROVE  /\ KeepsOthers(d)
         /\ state[d] = "connected" => /\ state'[d] = "disconnected"
                                      /\ downs'[d] = downs[d] + 1
         /\ state[d] # "connected" => /\ state'[d] = state[d]
                                      /\ downs'[d] = downs[d]
         /\ polled'[d] = FALSE /\ ups'[d] = ups[d]
         /\ destroyed'[d] = destroyed[d] + 1
<1>1. /\ \A c \in Conns : c # d => state'[c] = state[c] /\ downs'[c] = downs[c]
      /\ state[d] = "connected" => /\ state'[d] = "disconnected"
                                   /\ downs'[d] = downs[d] + 1
      /\ state[d] # "connected" => /\ state'[d] = state[d]
                                   /\ downs'[d] = downs[d]
  BY DEF ConnectDestroyed, ReportDown, ServerTypeOK
<1>2. polled'[d] = FALSE /\ \A c \in Conns : c # d => polled'[c] = polled[c]
  BY DEF ConnectDestroyed, ServerTypeOK
<1>3. /\ destroyed'[d] = destroyed[d] + 1
      /\ \A c \in Conns : c # d => destroyed'[c] = destroyed[c]
  BY DEF ConnectDestroyed, ServerTypeOK
<1>4. ups' = ups
  BY DEF ConnectDestroyed
<1> QED BY <1>1, <1>2, <1>3, <1>4 DEF KeepsOthers

LEMMA WaitingSame ==
  ASSUME queue' = queue, batch' = batch
  PROVE  /\ \A l, op, c : In(op, c, Waiting(l))' <=> In(op, c, Waiting(l))
         /\ \A l : Ordered(Waiting(l)) => Ordered(Waiting(l))'
<1>1. \A l : Waiting(l)' = Waiting(l)
  BY DEF Waiting
<1> QED BY <1>1 DEF In, Ordered

LEMMA MessageStep ==
  ASSUME ServerTypeOK, Queues, Lives, NEW d \in Conns, Message(d)
  PROVE  Queues' /\ Lives'
<1>1. /\ state[d] = "connected" /\ polled[d]
      /\ state' = [state EXCEPT ![d] = "disconnecting"]
      /\ UNCHANGED <<connections, accepted, name, home, polled, ups, downs,
                     destroyed, queue, batch, loopPc>>
  BY DEF Message, serverVars, loopVars
<1>2. /\ state'[d] = "disconnecting"
      /\ \A c \in Conns : c # d => state'[c] = state[c]
  BY <1>1 DEF ServerTypeOK
<1>3. \A c \in Conns : c # d => Same(c)
  BY <1>1, <1>2 DEF Same
<1>4. /\ \A l, op, c : In(op, c, Waiting(l))' <=> In(op, c, Waiting(l))
      /\ \A l : Ordered(Waiting(l)) => Ordered(Waiting(l))'
      /\ \A l : Alive(l)' <=> Alive(l)
  BY <1>1, WaitingSame DEF Alive
<1>5. Life(d)'
  <2>1. Life(d) /\ home[d] \in Loops
    BY DEF Lives, ServerTypeOK
  <2>2. /\ connections[d] \in {d, NoConn}
        /\ d <= accepted => name[d] = d
        /\ connections[d] = d => d <= accepted /\ destroyed[d] = 0
        /\ ~(d > accepted) /\ ups[d] = 1 /\ downs[d] = 0 /\ destroyed[d] = 0
        /\ Alive(home[d]) => connections[d] = d
                             \/ In("destroyed", d, Waiting(home[d]))
    BY <2>1, <1>1 DEF Life
  <2>3. Alive(home[d])' => connections'[d] = d
                           \/ In("destroyed", d, Waiting(home[d]))'
    BY <2>2, <1>1 DEF Alive, Waiting, In
  <2> QED BY <2>2, <2>3, <1>1, <1>2 DEF Life
<1>6. ASSUME NEW l \in Loops
      PROVE  MayAll(l, d)'
  <2>1. MayAll(l, d)
    BY DEF Queues, MayAll
  <2>2. /\ ~In("established", d, Waiting(l)) /\ ~In("remove", d, Waiting(l))
        /\ In("destroyed", d, Waiting(l)) =>
             MayDestroy(l, d) /\ loopPc[Base] = "stopped"
    BY <2>1, <1>1 DEF MayAll, MayEstablish, MayRemove, MayDestroy
  <2>3. In("destroyed", d, Waiting(l)) => MayDestroy(l, d)'
    BY <2>2, <1>1, <1>2 DEF MayDestroy
  <2> QED BY <2>2, <2>3, <1>4 DEF MayAll
<1>7. \A l \in Loops : Ordered(Waiting(l))'
  BY <1>4 DEF Queues
<1>8. loopPc' = loopPc
  BY <1>1
<1> QED BY <1>3, <1>4, <1>5, <1>6, <1>7, <1>8, OneChanges

\* Nothing waits of a connection before it is accepted.
LEMMA NothingWaits ==
  ASSUME Queues, NEW d \in Conns, state[d] = "none", NEW l \in Loops
  PROVE  /\ ~In("established", d, Waiting(l))
         /\ ~In("destroyed", d, Waiting(l))
         /\ ~In("remove", d, Waiting(l))
BY DEF Queues, MayEstablish, MayDestroy, MayRemove

LEMMA AcceptStep ==
  ASSUME ServerTypeOK, Control, Deal, Queues, Lives, Accept
  PROVE  Queues' /\ Lives'
<1>0. PICK d : d = accepted + 1
  OBVIOUS
<1>1. /\ d \in Conns /\ accepted \in Nat /\ accepted' = d /\ NextLoop \in Loops
      /\ home' = [home EXCEPT ![d] = NextLoop]
      /\ connections' = [connections EXCEPT ![d] = d]
      /\ name' = [name EXCEPT ![d] = d]
      /\ loopPc' = loopPc /\ batch' = batch
  BY <1>0, NextLoopIs DEF Accept
<1>2. Life(d) /\ d > accepted /\ ~(d <= accepted)
  BY <1>0, <1>1 DEF Lives
<1>3. /\ state[d] = "none" /\ ups[d] = 0 /\ downs[d] = 0 /\ destroyed[d] = 0
      /\ ~polled[d]
  BY <1>2 DEF Life
<1>4. /\ home'[d] = NextLoop /\ connections'[d] = d /\ name'[d] = d
      /\ \A c \in Conns : c # d => /\ home'[c] = home[c] /\ name'[c] = name[c]
                                   /\ connections'[c] = connections[c]
  BY <1>1 DEF ServerTypeOK
<1>5. \A c \in Conns : c # d => /\ c <= accepted' <=> c <= accepted
                                /\ c > accepted' <=> c > accepted
  BY <1>0, <1>1, Constants
<1>6. \A l \in Loops : Alive(l)' <=> Alive(l)
  BY <1>1 DEF Alive
<1>7. CASE NextLoop = Base
  <2>1. ConnectEstablished(d) /\ queue' = queue
    BY <1>0, <1>7 DEF Accept
  <2>2. /\ KeepsOthers(d)
        /\ state'[d] = "connected" /\ polled'[d] = TRUE
        /\ ups'[d] = 1 /\ downs'[d] = 0 /\ destroyed'[d] = 0
    <3>1. /\ KeepsOthers(d)
          /\ state'[d] = "connected" /\ polled'[d] = TRUE
          /\ ups'[d] = ups[d] + 1 /\ downs'[d] = downs[d]
          /\ destroyed'[d] = destroyed[d]
      BY <2>1, <1>1, Established
    <3> QED BY <3>1, <1>3
  <2>3. \A c \in Conns : c # d => Same(c)
    BY <2>2, <1>4, <1>5 DEF Same, KeepsOthers
  <2>4. /\ \A l, op, c : In(op, c, Waiting(l))' <=> In(op, c, Waiting(l))
        /\ \A l : Ordered(Waiting(l)) => Ordered(Waiting(l))'
    BY <2>1, <1>1, WaitingSame
  <2>5. Life(d)'
    <3>1. d \in Nat
      BY <1>0, <1>1
    <3> QED BY <3>1, <2>2, <1>1, <1>4 DEF Life
  <2>6. \A l \in Loops : MayAll(l, d)'
    BY <2>4, <1>1, <1>3, NothingWaits DEF MayAll
  <2>7. \A l \in Loops : Ordered(Waiting(l))'
    BY <2>4 DEF Queues
  <2> QED BY <2>3, <2>4, <2>5, <2>6, <2>7, <1>1, OneChanges
<1>8. CASE NextLoop # Base
  <2>1. /\ state' = [state EXCEPT ![d] = "connecting"]
        /\ queue' = [queue EXCEPT ![NextLoop] =
                       Append(@, Functor("established", d))]
        /\ UNCHANGED <<polled, ups, downs, destroyed>>
    BY <1>0, <1>8 DEF Accept
  <2>2. /\ state'[d] = "connecting"
        /\ \A c \in Conns : c # d => state'[c] = state[c]
    BY <2>1, <1>1 DEF ServerTypeOK
  <2>3. \A c \in Conns : c # d => Same(c)
    BY <2>1, <2>2, <1>4, <1>5 DEF Same
  <2>4. /\ Functor("established", d) \in Functors
        /\ Functor("established", d).op = "established"
        /\ Functor("established", d).conn = d
    BY <1>1, FunctorFields
  <2>5. \A m \in Loops : \A op, c :
          In(op, c, Waiting(m))' <=>
            \/ In(op, c, Waiting(m))
            \/ m = NextLoop /\ "established" = op /\ d = c
    BY <2>1, <2>4, <1>1, Push
  <2>6. \A l \in Loops : Ordered(Waiting(l))'
    <3>1. \A op : ~In(op, d, Waiting(NextLoop))
      <4> SUFFICES ASSUME NEW op, In(op, d, Waiting(NextLoop))
                   PROVE  FALSE
        OBVIOUS
      <4>1. PICK i \in 1..Len(Waiting(NextLoop)) :
              /\ Waiting(NextLoop)[i].op = op /\ Waiting(NextLoop)[i].conn = d
        BY DEF In
      <4>2. Waiting(NextLoop)[i] \in Functors
        BY <1>1, WaitingType
      <4>3. op \in {"established", "destroyed", "remove"}
        BY <4>1, <4>2, FunctorParts
      <4> QED BY <4>3, <1>1, <1>3, NothingWaits
    <3>2. \A m \in Loops : Ordered(Waiting(m)) => Ordered(Waiting(m))'
      <4>1. \A op : In(op, Functor("established", d).conn, Waiting(NextLoop)) =>
                     /\ op = "established"
                     /\ Functor("established", d).op = "destroyed"
        BY <3>1, <2>4
      <4> QED BY <2>1, <2>4, <4>1, <1>1, Push
    <3> QED BY <3>2 DEF Queues
  <2>7. Life(d)'
    <3>1. In("established", d, Waiting(home[d]))'
      <4>1. \A m \in Loops : m = home'[d] =>
              (In("established", d, Waiting(m))'
                 <=> In("established", d, Waiting(home[d]))')
        BY DEF In, Waiting
      <4> QED BY <2>5, <4>1, <1>1, <1>4
    <3> QED BY <3>1, <2>1, <2>2, <1>1, <1>2, <1>3, <1>4, <1>8 DEF Life
  <2>8. \A l \in Loops : MayAll(l, d)'
    <3> SUFFICES ASSUME NEW l \in Loops
                 PROVE  MayAll(l, d)'
      OBVIOUS
    <3>1. /\ ~In("destroyed", d, Waiting(l))' /\ ~In("remove", d, Waiting(l))'
          /\ In("established", d, Waiting(l))' => l = NextLoop
      BY <2>5, <1>1, <1>3, NothingWaits
    <3>2. l = NextLoop => MayEstablish(l, d)'
      BY <2>2, <1>1, <1>4, <1>8 DEF MayEstablish
    <3> QED BY <3>1, <3>2 DEF MayAll
  <2>9. \A l \in Loops : \A op, c :
          c # d => (In(op, c, Waiting(l))' <=> In(op, c, Waiting(l)))
    BY <2>5
  <2> QED BY <2>3, <2>6, <2>7, <2>8, <2>9, <1>1, OneChanges
<1> QED BY <1>7, <1>8
\* Life(d)' from what is true of the loop l it has.
LEMMA LifeIntro ==
  ASSUME NEW d \in Conns, NEW l \in Loops, home'[d] = l,
         connections'[d] \in {d, NoConn}, d <= accepted', ~(d > accepted'),
         name'[d] = d, connections'[d] = d => destroyed'[d] = 0,
         state'[d] # "none",
         ups'[d] = IF state'[d] = "connecting" THEN 0 ELSE 1,
         downs'[d] = IF state'[d] = "disconnected" THEN 1 ELSE 0,
         destroyed'[d] \in {0, 1},
         destroyed'[d] = 1 => ~polled'[d] /\ state'[d] \in {"disconnecting",
                                                            "disconnected"},
         polled'[d] => state'[d] \in {"connected", "disconnecting"},
         state'[d] = "connecting" =>
           l # Base /\ (Alive(l)' => In("established", d, Waiting(l))'),
         state'[d] # "disconnected" /\ destroyed'[d] = 0 /\ Alive(l)' =>
           connections'[d] = d \/ In("destroyed", d, Waiting(l))'
  PROVE  Life(d)'
<1>1. Alive(home[d])' <=> Alive(l)'
  BY DEF Alive
<1>2. \A op : In(op, d, Waiting(home[d]))' <=> In(op, d, Waiting(l))'
  BY DEF In, Waiting
<1> QED BY <1>1, <1>2 DEF Life

\* What Life(d) and the queues say of a connection that has begun.
LEMMA Begun ==
  ASSUME Lives, ServerTypeOK, NEW d \in Conns, state[d] # "none"
  PROVE  /\ home[d] \in Loops
         /\ d <= accepted /\ ~(d > accepted) /\ name[d] = d
         /\ connections[d] \in {d, NoConn}
         /\ connections[d] = d => destroyed[d] = 0
         /\ ups[d] = IF state[d] = "connecting" THEN 0 ELSE 1
         /\ downs[d] = IF state[d] = "disconnected" THEN 1 ELSE 0
         /\ destroyed[d] \in {0, 1}
         /\ destroyed[d] = 1 => ~polled[d] /\ state[d] \in {"disconnecting",
                                                            "disconnected"}
         /\ polled[d] => state[d] \in {"connected", "disconnecting"}
         /\ state[d] = "connecting" =>
              /\ home[d] # Base
              /\ Alive(home[d]) => In("established", d, Waiting(home[d]))
         /\ state[d] # "disconnected" /\ destroyed[d] = 0 /\ Alive(home[d]) =>
              \/ connections[d] = d
              \/ In("destroyed", d, Waiting(home[d]))
<1>1. Life(d) /\ home[d] \in Loops
  BY DEF Lives, ServerTypeOK
<1>2. ~(d > accepted) /\ d <= accepted
  <2>1. ~(d > accepted)
    BY <1>1 DEF Life
  <2>2. d \in Nat /\ accepted \in Nat
    BY Constants DEF ServerTypeOK
  <2> QED BY <2>1, <2>2
<1>3. state[d] \in {"connecting", "connected", "disconnecting", "disconnected"}
  BY DEF ServerTypeOK
<1> QED BY <1>1, <1>2, <1>3 DEF Life

\* All that may wait of a connection.
LEMMA Kinds ==
  ASSUME ServerTypeOK, NEW l \in Loops, NEW op, NEW d, In(op, d, Waiting(l))
  PROVE  op \in {"established", "destroyed", "remove"}
<1>1. PICK i \in 1..Len(Waiting(l)) : Waiting(l)[i].op = op
  BY DEF In
<1>2. Waiting(l)[i] \in Functors
  BY WaitingType
<1> QED BY <1>1, <1>2, FunctorParts

LEMMA PushOne ==
  ASSUME ServerTypeOK, Queues, NEW l \in Loops, NEW d \in Conns,
         NEW kind \in {"established", "destroyed", "remove"},
         queue' = [queue EXCEPT ![l] = Append(@, Functor(kind, d))],
         batch' = batch,
         \A op : In(op, d, Waiting(l)) => op = "established" /\ kind = "destroyed"
  PROVE  /\ \A m \in Loops : \A op, c :
              In(op, c, Waiting(m))' <=> \/ In(op, c, Waiting(m))
                                         \/ m = l /\ kind = op /\ d = c
         /\ \A m \in Loops : Ordered(Waiting(m))'
<1>1. /\ Functor(kind, d) \in Functors
      /\ Functor(kind, d).op = kind /\ Functor(kind, d).conn = d
  BY FunctorFields
<1>2. \A op : In(op, Functor(kind, d).conn, Waiting(l)) =>
                op = "established" /\ Functor(kind, d).op = "destroyed"
  BY <1>1
<1>3. \A m \in Loops : Ordered(Waiting(m)) => Ordered(Waiting(m))'
  BY <1>1, <1>2, Push
<1>4. \A m \in Loops : \A op, c :
        In(op, c, Waiting(m))' <=>
          \/ In(op, c, Waiting(m))
          \/ m = l /\ Functor(kind, d).op = op /\ Functor(kind, d).conn = c
  BY <1>1, Push
<1> QED BY <1>1, <1>3, <1>4 DEF Queues

LEMMA CloseStep ==
  ASSUME ServerTypeOK, Queues, Lives, NEW d \in Conns, Close(d)
  PROVE  Queues' /\ Lives'
<1>1. /\ state[d] \in {"connected", "disconnecting"} /\ polled[d]
      /\ loopPc[home[d]] = "poll" /\ loopPc' = loopPc /\ batch' = batch
      /\ UNCHANGED <<accepted, name, home, ups, destroyed>>
  BY DEF Close
<1>2. /\ state'[d] = "disconnected" /\ polled'[d] = FALSE
      /\ downs'[d] = downs[d] + 1
      /\ \A c \in Conns : c # d => /\ state'[c] = state[c]
                                   /\ polled'[c] = polled[c]
                                   /\ downs'[c] = downs[c]
  BY DEF Close, ServerTypeOK
<1>3. /\ home[d] \in Loops /\ d <= accepted /\ ~(d > accepted) /\ name[d] = d
      /\ connections[d] \in {d, NoConn} /\ destroyed[d] = 0
      /\ ups[d] = 1 /\ downs[d] = 0
      /\ Alive(home[d]) => \/ connections[d] = d
                           \/ In("destroyed", d, Waiting(home[d]))
  BY <1>1, Begun
<1>4. ASSUME NEW l \in Loops
      PROVE  /\ ~In("established", d, Waiting(l)) /\ ~In("remove", d, Waiting(l))
             /\ In("destroyed", d, Waiting(l)) =>
                  MayDestroy(l, d) /\ loopPc[Base] = "stopped"
  BY <1>1 DEF Queues, MayEstablish, MayRemove, MayDestroy
<1>5. \A op : ~In(op, d, Waiting(Base))
  <2>1. ~In("destroyed", d, Waiting(Base))
    BY <1>1, <1>4, Constants DEF MayDestroy
  <2> QED BY <2>1, <1>4, Kinds, Constants
<1>6. \A l : Alive(l)' <=> Alive(l)
  BY <1>1 DEF Alive
<1>7. CASE home[d] = Base
  <2>1. /\ queue' = [queue EXCEPT ![Base] = Append(@, Functor("destroyed", d))]
        /\ connections' = [connections EXCEPT ![d] = NoConn]
    BY <1>3, <1>7 DEF Close, RemoveConnectionInLoop
  <2>2. /\ connections'[d] = NoConn
        /\ \A c \in Conns : c # d => connections'[c] = connections[c]
    BY <2>1 DEF ServerTypeOK
  <2>3. /\ \A m \in Loops : \A op, c :
             In(op, c, Waiting(m))' <=> \/ In(op, c, Waiting(m))
                                        \/ m = Base /\ "destroyed" = op /\ d = c
        /\ \A m \in Loops : Ordered(Waiting(m))'
    BY <2>1, <1>1, <1>5, Constants, PushOne
  <2>4. \A c \in Conns : c # d => Same(c)
    BY <1>1, <1>2, <2>2 DEF Same
  <2>5. Life(d)'
    BY <1>1, <1>2, <1>3, <2>2, Constants, LifeIntro
  <2>6. ASSUME NEW l \in Loops
        PROVE  MayAll(l, d)'
    <3>1. /\ ~In("established", d, Waiting(l))' /\ ~In("remove", d, Waiting(l))'
          /\ In("destroyed", d, Waiting(l))' => l = Base
      <4>1. In("destroyed", d, Waiting(l)) => l = Base
        BY <1>4, <1>7 DEF MayDestroy
      <4> QED BY <4>1, <2>3, <1>4
    <3>2. l = Base => MayDestroy(l, d)'
      BY <1>1, <1>2, <1>3, <1>7, <2>2 DEF MayDestroy
    <3> QED BY <3>1, <3>2 DEF MayAll
  <2>7. \A l \in Loops : \A op, c :
          c # d => (In(op, c, Waiting(l))' <=> In(op, c, Waiting(l)))
    BY <2>3
  <2> QED BY <2>3, <2>4, <2>5, <2>6, <2>7, <1>1, OneChanges
<1>8. CASE home[d] # Base
  <2>1. /\ queue' = [queue EXCEPT ![Base] = Append(@, Functor("remove", d))]
        /\ connections' = connections
    BY <1>8 DEF Close
  <2>2. /\ \A m \in Loops : \A op, c :
             In(op, c, Waiting(m))' <=> \/ In(op, c, Waiting(m))
                                        \/ m = Base /\ "remove" = op /\ d = c
        /\ \A m \in Loops : Ordered(Waiting(m))'
    BY <2>1, <1>1, <1>5, Constants, PushOne
  <2>3. \A c \in Conns : c # d => Same(c)
    BY <1>1, <1>2, <2>1 DEF Same
  <2>4. Life(d)'
    BY <1>1, <1>2, <1>3, <2>1, LifeIntro
  <2>5. ASSUME NEW l \in Loops
        PROVE  MayAll(l, d)'
    <3>1. /\ ~In("established", d, Waiting(l))'
          /\ In("destroyed", d, Waiting(l))' => In("destroyed", d, Waiting(l))
          /\ In("remove", d, Waiting(l))' => l = Base
      BY <2>2, <1>4
    <3>2. In("destroyed", d, Waiting(l)) => MayDestroy(l, d)'
      BY <1>1, <1>2, <1>4, <2>1 DEF MayDestroy
    <3>3. l = Base => MayRemove(l, d)'
      <4>1. Alive(Base) => connections[d] = d
        <5>1. Alive(home[d])
          BY <1>1 DEF Alive
        <5>2. In("destroyed", d, Waiting(home[d])) => ~Alive(Base)
          BY <1>3, <1>4 DEF Alive
        <5> QED BY <5>1, <5>2, <1>3
      <4> QED BY <4>1, <1>1, <1>2, <1>6, <1>8, <2>1 DEF MayRemove
    <3> QED BY <3>1, <3>2, <3>3 DEF MayAll
  <2>6. \A l \in Loops : \A op, c :
          c # d => (In(op, c, Waiting(l))' <=> In(op, c, Waiting(l)))
    BY <2>2
  <2> QED BY <2>2, <2>3, <2>4, <2>5, <2>6, <1>1, OneChanges
<1> QED BY <1>7, <1>8
LEMMA DestroyEntryStep ==
  ASSUME ServerTypeOK, Control, Queues, Lives, NEW n \in Conns, DestroyEntry(n)
  PROVE  Queues' /\ Lives'
<1>0. PICK d : d = connections[n]
  OBVIOUS
<1>1. /\ d \in Conns /\ d = n /\ connections[d] = d /\ loopPc[Base] = "stopped"
      /\ loopPc' = loopPc /\ batch' = batch
      /\ connections' = [connections EXCEPT ![d] = NoConn]
      /\ UNCHANGED <<accepted, name, home>>
  <2>1. d \in {n, NoConn} /\ d # NoConn
    BY <1>0 DEF Lives, Life, DestroyEntry
  <2> QED BY <1>0, <2>1 DEF DestroyEntry, Control
<1>2. Life(d) /\ state[d] # "none"
  <2>1. Life(d)
    BY <1>1 DEF Lives
  <2>2. d <= accepted /\ d \in Nat /\ accepted \in Nat
    BY <2>1, <1>1, Constants DEF Life, ServerTypeOK
  <2> QED BY <2>1, <2>2 DEF Life
<1>3. /\ home[d] \in Loops /\ d <= accepted /\ ~(d > accepted) /\ name[d] = d
      /\ destroyed[d] = 0
      /\ ups[d] = IF state[d] = "connecting" THEN 0 ELSE 1
      /\ downs[d] = IF state[d] = "disconnected" THEN 1 ELSE 0
      /\ polled[d] => state[d] \in {"connected", "disconnecting"}
      /\ state[d] = "connecting" =>
           /\ home[d] # Base
           /\ Alive(home[d]) => In("established", d, Waiting(home[d]))
  BY <1>1, <1>2, Begun
<1>4. /\ connections'[d] = NoConn
      /\ \A c \in Conns : c # d => connections'[c] = connections[c]
  BY <1>1 DEF ServerTypeOK
<1>5. ASSUME NEW l \in Loops
      PROVE  /\ ~In("destroyed", d, Waiting(l))
             /\ In("established", d, Waiting(l)) => MayEstablish(l, d)
             /\ In("remove", d, Waiting(l)) => MayRemove(l, d)
  BY <1>1, Constants DEF Queues, MayDestroy
<1>6. \A l : Alive(l)' <=> Alive(l)
  BY <1>1 DEF Alive
<1>7. CASE home[d] = Base
  <2>1. ConnectDestroyed(d) /\ queue' = queue
    BY <1>0, <1>7 DEF DestroyEntry
  <2>2. /\ KeepsOthers(d)
        /\ state[d] = "connected" => /\ state'[d] = "disconnected"
                                     /\ downs'[d] = downs[d] + 1
        /\ state[d] # "connected" => /\ state'[d] = state[d]
                                     /\ downs'[d] = downs[d]
        /\ polled'[d] = FALSE /\ ups'[d] = ups[d]
        /\ destroyed'[d] = destroyed[d] + 1
    BY <2>1, <1>1, Destroyed
  <2>3. /\ state[d] \in {"connected", "disconnecting", "disconnected"}
        /\ state'[d] \in {"disconnecting", "disconnected"}
        /\ ups'[d] = 1 /\ destroyed'[d] = 1
        /\ downs'[d] = IF state'[d] = "disconnected" THEN 1 ELSE 0
    <3>1. state[d] \in {"connected", "disconnecting", "disconnected"}
      BY <1>1, <1>2, <1>3, <1>7 DEF ServerTypeOK
    <3> QED BY <3>1, <2>2, <1>3
  <2>4. \A c \in Conns : c # d => Same(c)
    BY <2>2, <1>1, <1>4 DEF Same, KeepsOthers
  <2>5. /\ \A l, op, c : In(op, c, Waiting(l))' <=> In(op, c, Waiting(l))
        /\ \A l : Ordered(Waiting(l)) => Ordered(Waiting(l))'
    BY <2>1, <1>1, WaitingSame
  <2>6. Life(d)'
    BY <2>2, <2>3, <1>1, <1>3, <1>4, Constants, LifeIntro
  <2>7. ASSUME NEW l \in Loops
        PROVE  MayAll(l, d)'
    <3>1. ~In("established", d, Waiting(l)) /\ ~In("remove", d, Waiting(l))
      BY <1>5, <1>7 DEF MayEstablish, MayRemove
    <3> QED BY <3>1, <2>5, <1>5 DEF MayAll
  <2>8. \A l \in Loops : Ordered(Waiting(l))'
    BY <2>5 DEF Queues
  <2> QED BY <2>4, <2>5, <2>6, <2>7, <2>8, <1>1, OneChanges
<1>8. CASE home[d] # Base
  <2>1. /\ queue' = [queue EXCEPT ![home[d]] = Append(@, Functor("destroyed", d))]
        /\ UNCHANGED <<state, polled, ups, downs, destroyed>>
    BY <1>0, <1>8 DEF DestroyEntry
  <2>2. \A op : In(op, d, Waiting(home[d])) => op = "established"
    <3>1. ~In("remove", d, Waiting(home[d]))
      BY <1>3, <1>5, <1>8 DEF MayRemove
    <3> QED BY <3>1, <1>3, <1>5, Kinds
  <2>3. /\ \A m \in Loops : \A op, c :
             In(op, c, Waiting(m))' <=>
               In(op, c, Waiting(m)) \/ (m = home[d] /\ "destroyed" = op /\ d = c)
        /\ \A m \in Loops : Ordered(Waiting(m))'
    BY <2>1, <2>2, <1>1, <1>3, PushOne
  <2>4. \A c \in Conns : c # d => Same(c)
    BY <2>1, <1>1, <1>4 DEF Same
  <2>5. Life(d)'
    <3>1. /\ In("destroyed", d, Waiting(home[d])') <=>
               In("destroyed", d, Waiting(home[d]))'
          /\ home'[d] = home[d]
      BY <1>1 DEF In
    <3>2. PICK l \in Loops : l = home[d]
      BY <1>3
    <3>3. In("destroyed", d, Waiting(l))'
      BY <2>3, <3>2
    <3>4. In("established", d, Waiting(l)) => In("established", d, Waiting(l))'
      BY <2>3
    <3>5. /\ state[d] = "connecting" =>
               l # Base /\ (Alive(l)' => In("established", d, Waiting(l))')
          /\ home'[d] = l
      BY <1>1, <1>3, <1>6, <3>2, <3>4
    <3> QED BY <3>3, <3>5, <2>1, <1>1, <1>2, <1>3, <1>4, Constants, LifeIntro
  <2>6. ASSUME NEW l \in Loops
        PROVE  MayAll(l, d)'
    <3>1. /\ In("established", d, Waiting(l))' => MayEstablish(l, d)
          /\ In("destroyed", d, Waiting(l))' => l = home[d]
          /\ In("remove", d, Waiting(l))' => MayRemove(l, d)
      BY <2>3, <1>5
    <3>2. MayEstablish(l, d) => MayEstablish(l, d)'
      BY <2>1, <1>1 DEF MayEstablish
    <3>3. l = home[d] => MayDestroy(l, d)'
      BY <2>1, <1>1, <1>2, <1>3, <1>4 DEF MayDestroy
    <3>4. MayRemove(l, d) => MayRemove(l, d)'
      BY <2>1, <1>1 DEF MayRemove, Alive
    <3> QED BY <3>1, <3>2, <3>3, <3>4 DEF MayAll
  <2>7. \A l \in Loops : \A op, c :
          c # d => (In(op, c, Waiting(l))' <=> In(op, c, Waiting(l)))
    BY <2>3
  <2> QED BY <2>3, <2>4, <2>5, <2>6, <2>7, <1>1, OneChanges
<1> QED BY <1>7, <1>8

\* A functor that runs may queue another one in a different loop.
LEMMA PopPush ==
  ASSUME ServerTypeOK, NEW l \in Loops, batch[l] # << >>,
         batch' = [batch EXCEPT ![l] = Tail(@)],
         NEW m \in Loops, m # l, NEW f \in Functors,
         queue' = [queue EXCEPT ![m] = Append(@, f)],
         \A op : ~In(op, f.conn, Waiting(m))
  PROVE  /\ \A k \in Loops : \A op, c :
              k # m => (In(op, c, Waiting(k)) <=>
                \/ In(op, c, Waiting(k))'
                \/ k = l /\ Head(batch[l]).op = op /\ Head(batch[l]).conn = c)
         /\ \A op, c : In(op, c, Waiting(m))' <=> \/ In(op, c, Waiting(m))
                                                  \/ f.op = op /\ f.conn = c
         /\ \A k \in Loops : Ordered(Waiting(k)) => Ordered(Waiting(k))'
         /\ Ordered(Waiting(l)) =>
              \A op, c : c = Head(batch[l]).conn /\ In(op, c, Waiting(l))' =>
                Head(batch[l]).op = "established" /\ op = "destroyed"
<1>1. /\ Waiting(l)' = Tail(Waiting(l)) /\ Waiting(l) # << >>
      /\ Head(Waiting(l)) = Head(batch[l])
  <2>1. batch'[l] = Tail(batch[l]) /\ queue'[l] = queue[l]
    BY DEF ServerTypeOK
  <2>2. batch[l] \in Seq(Functors) /\ queue[l] \in Seq(Functors)
    BY WaitingType
  <2>3. /\ batch[l] \o queue[l] # << >>
        /\ Head(batch[l] \o queue[l]) = Head(batch[l])
        /\ Tail(batch[l]) \o queue[l] = Tail(batch[l] \o queue[l])
    BY <2>2, ConcatFunctors
  <2>4. /\ Waiting(l)' = batch'[l] \o queue'[l]
        /\ Waiting(l) = batch[l] \o queue[l]
    BY DEF Waiting
  <2>5. Waiting(l)' = Tail(batch[l]) \o queue[l]
    BY <2>1, <2>4
  <2> QED BY <2>3, <2>4, <2>5
<1>2. Waiting(m)' = Append(Waiting(m), f)
  <2>1. batch'[m] = batch[m] /\ queue'[m] = Append(queue[m], f)
    BY DEF ServerTypeOK
  <2>2. batch[m] \in Seq(Functors) /\ queue[m] \in Seq(Functors)
    BY WaitingType
  <2>3. batch[m] \o Append(queue[m], f) = Append(batch[m] \o queue[m], f)
    <3>1. \A a, b \in Seq(Functors) : a \o Append(b, f) = Append(a \o b, f)
      BY ConcatFunctors
    <3> QED BY <2>2, <3>1, Zenon
  <2>4. /\ Waiting(m)' = batch'[m] \o queue'[m]
        /\ Waiting(m) = batch[m] \o queue[m]
    BY DEF Waiting
  <2> QED BY <2>1, <2>3, <2>4
<1>3. ASSUME NEW k \in Loops, k # l, k # m
      PROVE  Waiting(k)' = Waiting(k)
  BY <1>3 DEF Waiting, ServerTypeOK
<1>4. /\ \A k \in Loops : \A op, c :
           In(op, c, Waiting(k)') <=> In(op, c, Waiting(k))'
      /\ \A k \in Loops : Ordered(Waiting(k)') <=> Ordered(Waiting(k))'
  BY DEF In, Ordered
<1>5. /\ \A op, c : In(op, c, Waiting(l)) <=>
                      \/ In(op, c, Waiting(l)')
                      \/ Head(batch[l]).op = op /\ Head(batch[l]).conn = c
      /\ Ordered(Waiting(l)) =>
           /\ Ordered(Waiting(l)')
           /\ \A op : In(op, Head(batch[l]).conn, Waiting(l)') =>
                Head(batch[l]).op = "established" /\ op = "destroyed"
  <2>1. Waiting(l) \in Seq(Functors)
    BY WaitingType
  <2>2. /\ \A op, c : In(op, c, Waiting(l)) <=>
                        \/ In(op, c, Tail(Waiting(l)))
                        \/ /\ Head(Waiting(l)).op = op
                           /\ Head(Waiting(l)).conn = c
        /\ Ordered(Waiting(l)) =>
             /\ Ordered(Tail(Waiting(l)))
             /\ \A op : In(op, Head(Waiting(l)).conn, Tail(Waiting(l))) =>
                  Head(Waiting(l)).op = "established" /\ op = "destroyed"
    BY <2>1, <1>1, TailFunctor
  <2> QED BY <2>2, <1>1
<1>6. /\ \A op, c : In(op, c, Waiting(m)')
                      <=> In(op, c, Waiting(m)) \/ (f.op = op /\ f.conn = c)
      /\ Ordered(Waiting(m)) => Ordered(Waiting(m)')
  BY <1>2, WaitingType, AppendFunctor
<1>7. \A k \in Loops : \A op, c :
        k # m => (In(op, c, Waiting(k)) <=>
          \/ In(op, c, Waiting(k))'
          \/ k = l /\ Head(batch[l]).op = op /\ Head(batch[l]).conn = c)
  BY <1>3, <1>4, <1>5
<1>8. \A k \in Loops : Ordered(Waiting(k)) => Ordered(Waiting(k))'
  BY <1>3, <1>4, <1>5, <1>6
<1>9. Ordered(Waiting(l)) =>
        \A op, c : c = Head(batch[l]).conn /\ In(op, c, Waiting(l))' =>
          Head(batch[l]).op = "established" /\ op = "destroyed"
  BY <1>4, <1>5
<1>10. \A op, c : In(op, c, Waiting(m))' <=> \/ In(op, c, Waiting(m))
                                             \/ f.op = op /\ f.conn = c
  BY <1>4, <1>6
<1> QED BY <1>7, <1>8, <1>9, <1>10
LEMMA EstablishedStep ==
  ASSUME ServerTypeOK, Queues, Lives, NEW l \in Loops, RunFunctor(l),
         Head(batch[l]).op = "established"
  PROVE  Queues' /\ Lives'
<1>0. PICK d : d = Head(batch[l]).conn
  OBVIOUS
<1>1. /\ ConnectEstablished(d) /\ UNCHANGED <<queue, connections>>
      /\ loopPc[l] = "run" /\ loopPc' = loopPc /\ batch[l] # << >>
      /\ batch' = [batch EXCEPT ![l] = Tail(@)]
      /\ UNCHANGED <<accepted, name, home>>
  BY <1>0 DEF RunFunctor
<1>2. /\ Head(batch[l]) \in Functors
      /\ \A m \in Loops : \A op, c :
           In(op, c, Waiting(m)) <=> \/ In(op, c, Waiting(m))'
                                     \/ m = l /\ "established" = op /\ d = c
      /\ \A m \in Loops : Ordered(Waiting(m))'
      /\ \A op : In(op, d, Waiting(l))' => op = "destroyed"
  <2>1. \A m \in Loops : Ordered(Waiting(m))
    BY DEF Queues
  <2> QED BY <2>1, <1>0, <1>1, Pop
<1>3. d \in Conns
  BY <1>0, <1>2, FunctorParts
<1>4. home[d] = l /\ l # Base /\ state[d] = "connecting"
  BY <1>2, <1>3 DEF Queues, MayEstablish
<1>5. /\ d <= accepted /\ ~(d > accepted) /\ name[d] = d
      /\ connections[d] \in {d, NoConn}
      /\ ups[d] = 0 /\ downs[d] = 0 /\ destroyed[d] = 0
      /\ Alive(l) => connections[d] = d \/ In("destroyed", d, Waiting(l))
  BY <1>3, <1>4, Begun
<1>6. /\ KeepsOthers(d)
      /\ state'[d] = "connected" /\ ups'[d] = 1 /\ downs'[d] = 0
      /\ destroyed'[d] = 0
  <2>1. /\ KeepsOthers(d)
        /\ state'[d] = "connected" /\ ups'[d] = ups[d] + 1
        /\ downs'[d] = downs[d] /\ destroyed'[d] = destroyed[d]
    BY <1>1, <1>3, Established
  <2> QED BY <2>1, <1>5
<1>7. \A c \in Conns : c # d => Same(c)
  BY <1>1, <1>6 DEF Same, KeepsOthers
<1>8. Life(d)'
  <2>1. Alive(l)' => connections'[d] = d \/ In("destroyed", d, Waiting(l))'
    BY <1>1, <1>2, <1>5 DEF Alive
  <2> QED BY <2>1, <1>1, <1>3, <1>4, <1>5, <1>6, LifeIntro
<1>9. ASSUME NEW m \in Loops
      PROVE  MayAll(m, d)'
  <2>1. /\ ~In("established", d, Waiting(m))' /\ ~In("remove", d, Waiting(m))'
        /\ In("destroyed", d, Waiting(m))' => MayDestroy(m, d)
    BY <1>2, <1>3, <1>4 DEF Queues, MayEstablish, MayRemove
  <2>2. MayDestroy(m, d) => MayDestroy(m, d)'
    BY <1>1, <1>4, <1>5, <1>6 DEF MayDestroy
  <2> QED BY <2>1, <2>2 DEF MayAll
<1>10. \A m \in Loops : \A op, c :
         c # d => (In(op, c, Waiting(m))' <=> In(op, c, Waiting(m)))
  BY <1>2
<1> QED BY <1>1, <1>2, <1>3, <1>7, <1>8, <1>9, <1>10, OneChanges

LEMMA DestroyedStep ==
  ASSUME ServerTypeOK, Queues, Lives, NEW l \in Loops, RunFunctor(l),
         Head(batch[l]).op = "destroyed"
  PROVE  Queues' /\ Lives'
<1>0. PICK d : d = Head(batch[l]).conn
  OBVIOUS
<1>1. /\ ConnectDestroyed(d) /\ UNCHANGED <<queue, connections>>
      /\ loopPc[l] = "run" /\ loopPc' = loopPc /\ batch[l] # << >>
      /\ batch' = [batch EXCEPT ![l] = Tail(@)]
      /\ UNCHANGED <<accepted, name, home>>
  BY <1>0 DEF RunFunctor
<1>2. /\ Head(batch[l]) \in Functors
      /\ \A m \in Loops : \A op, c :
           In(op, c, Waiting(m)) <=> \/ In(op, c, Waiting(m))'
                                     \/ m = l /\ "destroyed" = op /\ d = c
      /\ \A m \in Loops : Ordered(Waiting(m))'
      /\ \A op : ~In(op, d, Waiting(l))'
  <2>1. \A m \in Loops : Ordered(Waiting(m))
    BY DEF Queues
  <2>2. /\ \A m \in Loops : Ordered(Waiting(m)) => Ordered(Waiting(m))'
        /\ Ordered(Waiting(l)) =>
             \A op, c : c = Head(batch[l]).conn /\ In(op, c, Waiting(l))' =>
               Head(batch[l]).op = "established" /\ op = "destroyed"
    BY <1>1, Pop
  <2>3. /\ Head(batch[l]) \in Functors
        /\ \A m \in Loops : \A op, c :
             In(op, c, Waiting(m)) <=>
               \/ In(op, c, Waiting(m))'
               \/ m = l /\ Head(batch[l]).op = op /\ Head(batch[l]).conn = c
    BY <1>1, Pop
  <2> QED BY <2>1, <2>2, <2>3, <1>0
<1>3. d \in Conns
  BY <1>0, <1>2, FunctorParts
<1>4. /\ home[d] = l /\ destroyed[d] = 0 /\ connections[d] = NoConn
      /\ state[d] # "none"
  BY <1>2, <1>3 DEF Queues, MayDestroy
<1>5. /\ d <= accepted /\ ~(d > accepted) /\ name[d] = d
      /\ ups[d] = IF state[d] = "connecting" THEN 0 ELSE 1
      /\ downs[d] = IF state[d] = "disconnected" THEN 1 ELSE 0
      /\ state[d] = "connecting" =>
           (Alive(l) => In("established", d, Waiting(l)))
  BY <1>3, <1>4, Begun
<1>6. state[d] \in {"connected", "disconnecting", "disconnected"}
  <2>1. state[d] # "connecting"
    BY <1>1, <1>2, <1>5 DEF Alive
  <2> QED BY <2>1, <1>3, <1>4 DEF ServerTypeOK
<1>7. /\ KeepsOthers(d)
      /\ state'[d] \in {"disconnecting", "disconnected"}
      /\ state[d] = "disconnected" => state'[d] = "disconnected"
      /\ ups'[d] = 1 /\ polled'[d] = FALSE /\ destroyed'[d] = 1
      /\ downs'[d] = IF state'[d] = "disconnected" THEN 1 ELSE 0
  <2>1. /\ KeepsOthers(d)
        /\ state[d] = "connected" => /\ state'[d] = "disconnected"
                                     /\ downs'[d] = downs[d] + 1
        /\ state[d] # "connected" => /\ state'[d] = state[d]
                                     /\ downs'[d] = downs[d]
        /\ polled'[d] = FALSE /\ ups'[d] = ups[d]
        /\ destroyed'[d] = destroyed[d] + 1
    BY <1>1, <1>3, Destroyed
  <2> QED BY <2>1, <1>4, <1>5, <1>6
<1>8. \A c \in Conns : c # d => Same(c)
  BY <1>1, <1>7 DEF Same, KeepsOthers
<1>9. Life(d)'
  BY <1>1, <1>3, <1>4, <1>5, <1>7, Constants, LifeIntro
<1>10. ASSUME NEW m \in Loops
       PROVE  MayAll(m, d)'
  <2>1. /\ ~In("established", d, Waiting(m))'
        /\ ~In("destroyed", d, Waiting(m))'
        /\ In("remove", d, Waiting(m))' => MayRemove(m, d)
    BY <1>2, <1>3, <1>4, <1>6 DEF Queues, MayEstablish, MayDestroy
  <2>2. MayRemove(m, d) => MayRemove(m, d)'
    BY <1>1, <1>7 DEF MayRemove, Alive
  <2> QED BY <2>1, <2>2 DEF MayAll
<1>11. \A m \in Loops : \A op, c :
         c # d => (In(op, c, Waiting(m))' <=> In(op, c, Waiting(m)))
  BY <1>2
<1> QED BY <1>1, <1>2, <1>3, <1>8, <1>9, <1>10, <1>11, OneChanges

LEMMA RemoveStep ==
  ASSUME ServerTypeOK, Queues, Lives, NEW l \in Loops, RunFunctor(l),
         Head(batch[l]).op = "remove"
  PROVE  Queues' /\ Lives'
<1>0. PICK d : d = Head(batch[l]).conn
  OBVIOUS
<1>1. /\ RemoveConnectionInLoop(d, queue)
      /\ UNCHANGED <<state, polled, ups, downs, destroyed>>
      /\ loopPc[l] = "run" /\ loopPc' = loopPc /\ batch[l] # << >>
      /\ batch' = [batch EXCEPT ![l] = Tail(@)]
      /\ UNCHANGED <<accepted, name, home>>
  BY <1>0 DEF RunFunctor
<1>2. d \in Conns /\ In("remove", d, Waiting(l)) /\ Head(batch[l]) \in Functors
  <2>1. Head(batch[l]) \in Functors
    BY <1>1, WaitingType
  <2>2. /\ batch[l] \o queue[l] # << >>
        /\ Head(batch[l] \o queue[l]) = Head(batch[l])
    BY <1>1, WaitingType, ConcatFunctors
  <2>3. Waiting(l) # << >> /\ Head(Waiting(l)) = Head(batch[l])
    BY <2>2 DEF Waiting
  <2>4. In("remove", d, Waiting(l))
    BY <1>0, <2>3, WaitingType, TailFunctor
  <2> QED BY <1>0, <2>1, <2>4, FunctorParts
<1>3. /\ l = Base /\ home[d] # Base /\ state[d] = "disconnected"
      /\ connections[d] = d
  <2>1. MayRemove(l, d)
    BY <1>2 DEF Queues
  <2> QED BY <2>1, <1>1 DEF MayRemove, Alive
<1>4. /\ home[d] \in Loops /\ d <= accepted /\ ~(d > accepted) /\ name[d] = d
      /\ destroyed[d] = 0 /\ ups[d] = 1 /\ downs[d] = 1 /\ ~polled[d]
  BY <1>2, <1>3, Begun
<1>5. /\ connections' = [connections EXCEPT ![d] = NoConn]
      /\ queue' = [queue EXCEPT ![home[d]] = Append(@, Functor("destroyed", d))]
  BY <1>1, <1>4 DEF RemoveConnectionInLoop
<1>6. /\ connections'[d] = NoConn
      /\ \A c \in Conns : c # d => connections'[c] = connections[c]
  BY <1>2, <1>5 DEF ServerTypeOK
<1>7. ASSUME NEW m \in Loops
      PROVE  /\ ~In("established", d, Waiting(m))
             /\ ~In("destroyed", d, Waiting(m))
             /\ In("remove", d, Waiting(m)) => m = Base
  BY <1>2, <1>3, Constants DEF Queues, MayEstablish, MayDestroy, MayRemove
<1>8. PICK f \in Functors : /\ f = Functor("destroyed", d)
                            /\ f.op = "destroyed" /\ f.conn = d
  BY <1>2, FunctorFields
<1>9. \A op : ~In(op, d, Waiting(home[d]))
  BY <1>3, <1>4, <1>7, Kinds
<1>10. PICK m \in Loops : /\ m = home[d] /\ m # l
                          /\ queue' = [queue EXCEPT ![m] = Append(@, f)]
                          /\ \A op : ~In(op, f.conn, Waiting(m))
  BY <1>3, <1>4, <1>5, <1>8, <1>9
<1>11. /\ \A k \in Loops : \A op, c :
            k # m => (In(op, c, Waiting(k)) <=>
              \/ In(op, c, Waiting(k))'
              \/ k = l /\ Head(batch[l]).op = op /\ Head(batch[l]).conn = c)
       /\ \A op, c : In(op, c, Waiting(m))' <=> \/ In(op, c, Waiting(m))
                                                \/ "destroyed" = op /\ d = c
       /\ \A k \in Loops : Ordered(Waiting(k))'
       /\ ~In("remove", d, Waiting(l))'
  <2>1. /\ batch[l] # << >> /\ batch' = [batch EXCEPT ![l] = Tail(@)]
        /\ m # l /\ queue' = [queue EXCEPT ![m] = Append(@, f)]
        /\ \A op : ~In(op, f.conn, Waiting(m))
    BY <1>1, <1>10
  <2>2. \A k \in Loops : \A op, c :
          k # m => (In(op, c, Waiting(k)) <=>
            \/ In(op, c, Waiting(k))'
            \/ k = l /\ Head(batch[l]).op = op /\ Head(batch[l]).conn = c)
    BY <2>1, PopPush, Zenon
  <2>3. \A op, c : In(op, c, Waiting(m))' <=> \/ In(op, c, Waiting(m))
                                              \/ f.op = op /\ f.conn = c
    BY <2>1, PopPush, Zenon
  <2>4. \A k \in Loops : Ordered(Waiting(k)) => Ordered(Waiting(k))'
    BY <2>1, PopPush, Zenon
  <2>5. Ordered(Waiting(l)) =>
          \A op, c : c = Head(batch[l]).conn /\ In(op, c, Waiting(l))' =>
            Head(batch[l]).op = "established" /\ op = "destroyed"
    BY <2>1, PopPush, Zenon
  <2>6. \A k \in Loops : Ordered(Waiting(k))
    BY DEF Queues
  <2> QED BY <2>2, <2>3, <2>4, <2>5, <2>6, <1>0, <1>8
<1>12. \A c \in Conns : c # d => Same(c)
  BY <1>1, <1>6 DEF Same
<1>13. Life(d)'
  BY <1>1, <1>2, <1>3, <1>4, <1>6, Constants, LifeIntro
<1>14. \A k \in Loops : \A op, c :
         c # d => (In(op, c, Waiting(k))' <=> In(op, c, Waiting(k)))
  BY <1>0, <1>11
<1>15. ASSUME NEW k \in Loops
       PROVE  MayAll(k, d)'
  <2>1. CASE k = m
    <3>1. ~In("established", d, Waiting(k))' /\ ~In("remove", d, Waiting(k))'
      BY <2>1, <1>8, <1>10, <1>11
    <3>2. MayDestroy(k, d)'
      BY <2>1, <1>1, <1>3, <1>4, <1>6, <1>10 DEF MayDestroy
    <3> QED BY <3>1, <3>2 DEF MayAll
  <2>2. CASE k # m
    <3>1. /\ ~In("established", d, Waiting(k))'
          /\ ~In("destroyed", d, Waiting(k))'
          /\ In("remove", d, Waiting(k))' => k = Base
      BY <2>2, <1>7, <1>11
    <3> QED BY <3>1, <1>3, <1>11 DEF MayAll
  <2> QED BY <2>1, <2>2
<1> QED BY <1>1, <1>2, <1>11, <1>12, <1>13, <1>14, <1>15, OneChanges

-----------------------------------------------------------------------------
(* The theorems.                                                           *)

LEMMA ServerInvInit == Init => ServerInv
<1> SUFFICES ASSUME Init
             PROVE  ServerInv
  OBVIOUS
<1>1. \A l \in Loops : Waiting(l) = << >>
  BY DEF Init, Waiting
<1>2. Ordered(<< >>) /\ \A op, c : ~In(op, c, << >>)
  BY DEF Ordered, In
<1>3. Queues
  BY <1>1, <1>2 DEF Queues
<1>4. Lives
  BY Constants DEF Init, Lives, Life, Alive
<1>5. Control
  BY Constants DEF Init, Control
<1>6. Deal
  BY Constants DEF Init, Deal
<1>7. ServerTypeOK
  <2>1. /\ loops = [i \in 1..(IF started = 0 THEN 0 ELSE numThreads) |-> i]
        /\ RoundRobin
    BY DEF Init, RoundRobin
  <2>2. queue \in [Loops -> Seq(Functors)] /\ batch \in [Loops -> Seq(Functors)]
    BY DEF Init
  <2>3. /\ nextLoop \in 0..MaxThreads /\ started \in 0..MaxStarts
        /\ accepted \in 0..MaxConns /\ nextConnId = accepted + 1
        /\ joined \in 0..MaxThreads
    BY ServerAssumption DEF Init
  <2>4. /\ connections \in [Conns -> Conns \cup {NoConn}]
        /\ name \in [Conns -> Conns \cup {0}] /\ home \in [Conns -> Loops]
    BY Constants DEF Init
  <2>5. ConnTypes
    BY DEF Init, ConnTypes
  <2> QED BY <2>1, <2>2, <2>3, <2>4, <2>5 DEF Init, ServerTypeOK, ConnTypes
<1> QED BY <1>3, <1>4, <1>5, <1>6, <1>7 DEF ServerInv

LEMMA ServerInvStep == ServerInv /\ [Next]_vars => ServerInv'
<1> SUFFICES ASSUME ServerInv, [Next]_vars
             PROVE  ServerInv'
  OBVIOUS
<1>1. ServerTypeOK /\ Control /\ Deal /\ Queues /\ Lives
  BY DEF ServerInv
<1>2. ServerTypeOK' /\ Control' /\ Deal'
  BY <1>1, TypeStep, ControlStep, DealKept
<1>3. Queues' /\ Lives'
  <2>1. CASE \/ Start \/ EnterLoop
             \/ (\E l \in Loops : BeginLoop(l) \/ Swap(l) \/ FinishBatch(l))
             \/ QuitBase \/ LeaveLoop \/ DestroyMembers \/ QuitThread \/ JoinThread
             \/ EndMain \/ UNCHANGED vars
    BY <2>1, <1>1, QuietSteps
  <2>2. CASE Accept
    BY <2>2, <1>1, AcceptStep
  <2>3. ASSUME NEW c \in Conns, Message(c)
        PROVE  Queues' /\ Lives'
    BY <2>3, <1>1, MessageStep
  <2>4. ASSUME NEW c \in Conns, Close(c)
        PROVE  Queues' /\ Lives'
    BY <2>4, <1>1, CloseStep
  <2>5. ASSUME NEW l \in Loops, RunFunctor(l)
        PROVE  Queues' /\ Lives'
    <3>1. Head(batch[l]).op \in {"established", "destroyed", "remove"}
      BY <2>5 DEF RunFunctor
    <3> QED BY <2>5, <3>1, <1>1, EstablishedStep, DestroyedStep, RemoveStep
  <2>6. ASSUME NEW n \in Conns, DestroyEntry(n)
        PROVE  Queues' /\ Lives'
    BY <2>6, <1>1, DestroyEntryStep
  <2> QED BY <2>1, <2>2, <2>3, <2>4, <2>5, <2>6
          DEF Next, Loop, Destructor, Terminated
<1> QED BY <1>2, <1>3 DEF ServerInv

LEMMA ServerInvHolds == Spec => []ServerInv
BY ServerInvInit, ServerInvStep, PTL DEF Spec

\* The type invariant, with round robin over any number of connections and one
\* start of the thread pool (TcpServer.cc:51-56, 59-99;
\* EventLoopThreadPool.cc:15-45).
THEOREM ServerTypeCorrect == Spec => []ServerTypeOK
<1>1. ServerInv => ServerTypeOK
  BY DEF ServerInv
<1> QED BY <1>1, ServerInvHolds, PTL

\* While a loop may yet poll, a channel it may report belongs to a connection that
\* the map or a functor owns (TcpServer.cc:33-43, 86-98, 107-116).
THEOREM PolledIsOwned == Spec => []ConnectionsAreOwned
<1>1. ServerInv => ConnectionsAreOwned
  <2> SUFFICES ASSUME ServerInv
               PROVE  ConnectionsAreOwned
    OBVIOUS
  <2>1. ASSUME NEW c \in Conns, polled[c],
             loopPc[home[c]] \in {"init", "poll", "run"}
        PROVE  Owned(c)
    <3>1. Life(c) /\ ServerTypeOK /\ home[c] \in Loops
      BY DEF ServerInv, Lives, ServerTypeOK
    <3>2. connections[c] = c \/ In("destroyed", c, Waiting(home[c]))
      BY <2>1, <3>1 DEF Life, Alive
    <3>3. CASE connections[c] = c
      BY <3>3 DEF Owned
    <3>4. CASE In("destroyed", c, Waiting(home[c]))
      <4>1. PICK f \in Range(batch[home[c]]) \cup Range(queue[home[c]]) :
              f.op = "destroyed" /\ f.conn = c
        BY <3>1, <3>4, WaitingType, ConcatFunctors DEF Waiting
      <4> QED BY <4>1, <3>1 DEF Owned, Pending
    <3> QED BY <3>2, <3>3, <3>4
  <2>2. ASSUME mainPc = "done"
        PROVE  \A l \in 1..numThreads : loopPc[l] = "stopped"
    <3>1. ServerTypeOK /\ Control
      BY DEF ServerInv
    <3>2. started # 0 /\ joined = Len(loops)
      BY <2>2, <3>1, ServerAssumption DEF Control, ServerTypeOK
    <3>3. joined = numThreads
      BY <3>1, <3>2, LoopsStarted
    <3> QED BY <3>1, <3>3 DEF Control
  <2> QED BY <2>1, <2>2 DEF ConnectionsAreOwned
<1> QED BY <1>1, ServerInvHolds, PTL

\* A connection is reported up once and down at most once, and destroyed once,
\* after it was up (TcpServer.cc:33-43, 98, 107-116; TcpConnection.cc:152-169).
THEOREM ReportedOnce == Spec => []UpDownDestroyed
<1>1. ServerInv => UpDownDestroyed
  <2> SUFFICES ASSUME ServerInv, NEW c \in Conns
               PROVE  /\ ups[c] <= 1 /\ downs[c] <= ups[c]
                      /\ destroyed[c] <= ups[c]
                      /\ destroyed[c] = 1 =>
                           ~polled[c] /\ (downs[c] = 1
                                          \/ state[c] = "disconnecting")
    BY DEF UpDownDestroyed
  <2>1. Life(c)
    BY DEF ServerInv, Lives
  <2> QED BY <2>1 DEF Life
<1> QED BY <1>1, ServerInvHolds, PTL
=============================================================================

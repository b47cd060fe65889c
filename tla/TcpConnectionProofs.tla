------------------------ MODULE TcpConnectionProofs ------------------------
(***************************************************************************)
(* Proofs about TcpConnection, for any users, any calls they make and any  *)
(* messages: the stream is delivered in order, buffered output is watched  *)
(* by the poller, and FIN follows the data; and, for users that send or    *)
(* shut down but not both, the connection goes down once and leaves the    *)
(* poller before it is freed.                                              *)
(***************************************************************************)
EXTENDS TcpConnection, SequenceTheorems, TLAPS

UnitSet == Messages \X (1..Size)

FunctorSet == [op : {"established", "destroyed", "complete", "highWater",
                     "send", "shutdown"},
               msg : Messages \cup {NoMsg}]

\* The functors that may be queued: a send has its message, and the server
\* destroys only a connection that went down.
Queueable(down) == {f \in FunctorSet : /\ f.op = "send" => f.msg \in Messages
                                       /\ f.op = "destroyed" => down}

-----------------------------------------------------------------------------
(* Sequences.                                                              *)

\* A sequence cut in two.
LEMMA CutInTwo ==
  ASSUME NEW S, NEW s \in Seq(S), NEW n \in 0..Len(s)
  PROVE  /\ SubSeq(s, 1, n) \in Seq(S)
         /\ SubSeq(s, n + 1, Len(s)) \in Seq(S)
         /\ Len(SubSeq(s, n + 1, Len(s))) = Len(s) - n
         /\ SubSeq(s, 1, n) \o SubSeq(s, n + 1, Len(s)) = s
<1> DEFINE a == SubSeq(s, 1, n)
           b == SubSeq(s, n + 1, Len(s))
<1>1. Len(s) \in Nat /\ n \in Nat
  OBVIOUS
<1>2. /\ a \in Seq(S) /\ Len(a) = n
      /\ \A i \in 1..n : a[i] = s[i]
  BY <1>1
<1>3. /\ b \in Seq(S) /\ Len(b) = Len(s) - n
      /\ \A i \in 1..(Len(s) - n) : b[i] = s[n + i]
  BY <1>1
<1> HIDE DEF a, b
<1>4. /\ a \o b \in Seq(S) /\ Len(a \o b) = Len(s)
      /\ \A i \in 1..Len(s) : (a \o b)[i] = IF i <= n THEN a[i] ELSE b[i - n]
  <2>1. Len(a) + Len(b) = Len(s)
    BY <1>1, <1>2, <1>3
  <2> QED BY <1>2, <1>3, <2>1, ConcatProperties
<1>5. \A i \in 1..Len(s) : (a \o b)[i] = s[i]
  <2> SUFFICES ASSUME NEW i \in 1..Len(s) PROVE (a \o b)[i] = s[i]
    OBVIOUS
  <2>1. CASE i <= n
    BY <2>1, <1>1, <1>2, <1>4
  <2>2. CASE i > n
    <3>1. i - n \in 1..(Len(s) - n) /\ n + (i - n) = i
      BY <2>2, <1>1
    <3>2. b[i - n] = s[i]
      <4>1. b[i - n] = s[n + (i - n)]
        BY <3>1, <1>3
      <4> QED BY <4>1, <3>1
    <3>3. ~(i <= n)
      BY <2>2, <1>1
    <3>4. (a \o b)[i] = IF i <= n THEN a[i] ELSE b[i - n]
      BY <1>4
    <3> QED BY <3>2, <3>3, <3>4
  <2>3. i <= n \/ i > n
    BY <1>1
  <2> QED BY <2>1, <2>2, <2>3, Zenon
<1>6. a \o b = s
  BY <1>4, <1>5, SeqEqual
<1> QED BY <1>2, <1>3, <1>6 DEF a, b

\* A direct write while nothing is buffered, or buffering while nothing is
\* written directly: the order is the same.
LEMMA Regroup ==
  ASSUME NEW S, NEW w \in Seq(S), NEW o \in Seq(S),
         NEW a \in Seq(S), NEW b \in Seq(S)
  PROVE  a = << >> \/ o = << >> =>
           (w \o a) \o (o \o b) = (w \o o) \o (a \o b)
<1>1. w \o << >> = w /\ << >> \o b = b
  BY ConcatEmptySeq
<1>2. w \o (o \o b) = (w \o o) \o b
  BY ConcatAssociative, SMTT(60)
<1>3. (w \o a) \o b = w \o (a \o b)
  BY ConcatAssociative, SMTT(60)
<1>4. CASE a = << >>
  <2>1. w \o a = w /\ a \o b = b
    BY <1>1, <1>4
  <2> QED BY <1>2, <2>1
<1>5. CASE o = << >>
  <2>1. w \o o = w /\ o \o b = b
    BY <1>1, <1>5
  <2> QED BY <1>3, <2>1
<1> QED BY <1>4, <1>5

\* A queue stays typed when the connection goes down.
LEMMA QueueableGrows ==
  ASSUME NEW d, NEW e, d => e, NEW q \in Seq(Queueable(d))
  PROVE  q \in Seq(Queueable(e))
<1>1. Queueable(d) \subseteq Queueable(e)
  BY DEF Queueable
<1>2. Len(q) \in Nat /\ q = [i \in 1..Len(q) |-> q[i]]
      /\ \A i \in 1..Len(q) : q[i] \in Queueable(e)
  BY <1>1
<1> QED BY <1>2

LEMMA UnitsTyped ==
  ASSUME ConnectionAssumption, NEW m \in Messages
  PROVE  Units(m) \in Seq(UnitSet) /\ Len(Units(m)) = Size
<1>1. Size \in Nat /\ \A k \in 1..Size : <<m, k>> \in UnitSet
  BY DEF ConnectionAssumption, UnitSet
<1> QED BY <1>1 DEF Units

LEMMA FunctorTyped ==
  ASSUME NEW d
  PROVE  /\ \A op \in {"established", "complete", "highWater", "shutdown"} :
              Functor(op) \in Queueable(d)
         /\ d => Functor("destroyed") \in Queueable(d)
         /\ \A m \in Messages : [op |-> "send", msg |-> m] \in Queueable(d)
BY DEF Functor, Queueable, FunctorSet

-----------------------------------------------------------------------------
(* The inductive invariant.                                                *)

\* The channel and the buffer.  While the connection is up, output and write
\* events go together; afterwards one direction is left.  The first conjunct
\* is what lets handleWrite() trust that there is something to write.
WatchInv == /\ writing => output # << >>
            /\ writing => index = "added" \/ downs > 0
            /\ downs = 0 /\ output # << >> => writing

\* Whatever removes the connection has seen it go down.
RemovalInv == /\ downs \in Nat /\ removals \in Nat
              /\ removals > 0 => downs > 0
              /\ functors \in Seq(Queueable(downs > 0))
              /\ pending \in Seq(Queueable(downs > 0))

DataInv == /\ output \in Seq(UnitSet)
           /\ stream \in Seq(UnitSet)
           /\ wire \in Seq(UnitSet)
           /\ reading \in BOOLEAN /\ writing \in BOOLEAN /\ sndShut \in BOOLEAN
           /\ StreamInOrder

ConnInv == RemovalInv /\ DataInv /\ WatchInv /\ FinAfterData

LEMMA InitConnInv == ASSUME Init PROVE ConnInv
<1>1. RemovalInv
  <2>1. Functor("established") \in Queueable(downs > 0)
    BY FunctorTyped
  <2> QED BY <2>1 DEF Init, RemovalInv
<1>2. DataInv
  <2>1. << >> \in Seq(UnitSet)
    OBVIOUS
  <2>2. << >> \o << >> = << >>
    BY <2>1, ConcatEmptySeq
  <2> QED BY <2>1, <2>2 DEF Init, DataInv, StreamInOrder
<1>3. WatchInv /\ FinAfterData
  BY DEF Init, WatchInv, FinAfterData
<1> QED BY <1>1, <1>2, <1>3 DEF ConnInv

\* Steps that only use the queues.
LEMMA QuietKeepsInv ==
  ASSUME ConnInv, UNCHANGED <<channelVars, dataVars, wire, sndShut, downs, removals>>,
         functors' \in Seq(Queueable(downs > 0)),
         pending' \in Seq(Queueable(downs > 0))
  PROVE  ConnInv'
<1>1. RemovalInv'
  BY DEF ConnInv, RemovalInv
<1>2. DataInv'
  BY DEF ConnInv, DataInv, StreamInOrder, channelVars, dataVars
<1>3. WatchInv' /\ FinAfterData'
  BY DEF ConnInv, WatchInv, FinAfterData, channelVars, dataVars
<1> QED BY <1>1, <1>2, <1>3 DEF ConnInv

\* handleClose().
LEMMA CloseKeepsInv ==
  ASSUME ConnInv, HandleClose,
         UNCHANGED <<dataVars, wire, sndShut, functors, pending>>
  PROVE  ConnInv'
<1>1. downs \in Nat /\ removals \in Nat /\ downs' = downs + 1 /\ removals' = removals + 1
  BY DEF ConnInv, RemovalInv, HandleClose
<1>2. downs' > 0 /\ downs' # 0 /\ downs' \in Nat /\ removals' \in Nat
  BY <1>1
<1>3. RemovalInv'
  <2>1. functors \in Seq(Queueable(downs > 0)) /\ pending \in Seq(Queueable(downs > 0))
    BY DEF ConnInv, RemovalInv
  <2>2. functors \in Seq(Queueable(downs' > 0)) /\ pending \in Seq(Queueable(downs' > 0))
    BY <1>2, <2>1, QueueableGrows
  <2> QED BY <1>2, <2>2 DEF RemovalInv
<1>4. reading' = FALSE /\ writing' = FALSE
  BY DEF HandleClose, Update
<1>5. DataInv'
  BY <1>4 DEF ConnInv, DataInv, StreamInOrder, dataVars
<1>6. WatchInv' /\ FinAfterData'
  BY <1>2, <1>4 DEF WatchInv, FinAfterData
<1> QED BY <1>3, <1>5, <1>6 DEF ConnInv

\* shutdownInLoop().
LEMMA ShutdownKeepsInv ==
  ASSUME ConnInv, ShutdownInLoop,
         UNCHANGED <<channelVars, dataVars, wire, downs, removals, pending>>,
         functors' \in Seq(Queueable(downs > 0))
  PROVE  ConnInv'
<1>1. RemovalInv'
  BY DEF ConnInv, RemovalInv
<1>2. sndShut' \in BOOLEAN
  BY DEF ShutdownInLoop
<1>3. DataInv'
  BY <1>2 DEF ConnInv, DataInv, StreamInOrder, channelVars, dataVars
<1>4. WatchInv'
  BY DEF ConnInv, WatchInv, channelVars, dataVars
<1>5. FinAfterData'
  <2>1. sndShut' => sndShut \/ ~writing
    BY DEF ShutdownInLoop
  <2> QED BY <2>1 DEF ConnInv, WatchInv, FinAfterData, channelVars, dataVars
<1> QED BY <1>1, <1>3, <1>4, <1>5 DEF ConnInv

\* sendInLoop().
LEMMA SendKeepsInv ==
  ASSUME ConnInv, ConnectionAssumption, NEW m \in Messages, SendInLoop(m),
         UNCHANGED <<downs, removals>>,
         functors' \in Seq(Queueable(downs > 0))
  PROVE  ConnInv'
<1> DEFINE U == Units(m)
<1>1. U \in Seq(UnitSet) /\ Len(U) = Size /\ Size \in Nat /\ Size > 0
  BY UnitsTyped DEF ConnectionAssumption
<1>2. PICK n \in (IF MayWriteAtOnce THEN 0..Size ELSE {0}) :
    IF MayWriteAtOnce /\ ~CanWrite
    THEN UNCHANGED <<channelVars, dataVars, socketVars, pending>>
    ELSE /\ stream' = stream \o U
         /\ wire' = wire \o SubSeq(U, 1, n)
         /\ output' = output \o SubSeq(U, n + 1, Size)
         /\ pending' = pending \o Notice(Size - n)
         /\ IF n < Size /\ ~writing
            THEN Update(reading, TRUE)
            ELSE UNCHANGED channelVars
         /\ UNCHANGED <<sndShut, peer, soError, inbox, peerSent>>
  BY DEF SendInLoop
<1> HIDE DEF U
<1>3. CASE MayWriteAtOnce /\ ~CanWrite
  <2>1. pending' \in Seq(Queueable(downs > 0))
    BY <1>2, <1>3 DEF ConnInv, RemovalInv
  <2> QED BY <1>2, <1>3, <2>1, QuietKeepsInv DEF socketVars
<1>4. CASE ~(MayWriteAtOnce /\ ~CanWrite)
  <2> DEFINE a == SubSeq(U, 1, n)
             b == SubSeq(U, n + 1, Size)
  <2>1. n \in 0..Len(U) /\ (n > 0 => output = << >>)
    BY <1>1, <1>2 DEF MayWriteAtOnce
  <2>2. a \in Seq(UnitSet) /\ b \in Seq(UnitSet) /\ a \o b = U /\ Len(b) = Size - n
    BY <1>1, <2>1, CutInTwo
  <2>3. stream' = stream \o U /\ wire' = wire \o a /\ output' = output \o b
        /\ pending' = pending \o Notice(Size - n) /\ sndShut' = sndShut
    BY <1>2, <1>4
  <2>4. a = << >> \/ output = << >>
    BY <2>1
  <2> HIDE DEF a, b
  <2>5. output \in Seq(UnitSet) /\ wire \in Seq(UnitSet) /\ stream \in Seq(UnitSet)
        /\ wire \o output = stream
    BY DEF ConnInv, DataInv, StreamInOrder
  <2>6. StreamInOrder'
    <3>1. (wire \o a) \o (output \o b) = (wire \o output) \o (a \o b)
      <4>1. /\ wire \in Seq(UnitSet) /\ output \in Seq(UnitSet)
            /\ a \in Seq(UnitSet) /\ b \in Seq(UnitSet)
        BY <2>2, <2>5
      <4> HIDE DEF UnitSet
      <4>2. CASE a = << >>
        BY <4>1, <4>2, Regroup, SMTT(60)
      <4>3. CASE output = << >>
        BY <4>1, <4>3, Regroup, SMTT(60)
      <4> QED BY <2>4, <4>2, <4>3
    <3> QED BY <3>1, <2>2, <2>3, <2>5 DEF StreamInOrder
  <2>7. output' \in Seq(UnitSet) /\ wire' \in Seq(UnitSet) /\ stream' \in Seq(UnitSet)
    BY <1>1, <2>2, <2>3, <2>5, ConcatProperties
  <2>8. Len(output') = Len(output) + (Size - n)
    <3>1. Len(output \o b) = Len(output) + Len(b)
      BY <2>2, <2>5, ConcatProperties
    <3> QED BY <2>2, <2>3, <3>1
  <2>9. RemovalInv'
    <3>1. Notice(Size - n) \in Seq(Queueable(downs > 0))
      <4> DEFINE Q == Queueable(downs > 0)
      <4>1. Functor("complete") \in Q /\ Functor("highWater") \in Q
        BY FunctorTyped
      <4> HIDE DEF Q
      <4>2. <<Functor("complete")>> \in Seq(Q) /\ <<Functor("highWater")>> \in Seq(Q)
            /\ << >> \in Seq(Q)
        BY <4>1
      <4>3. Notice(Size - n) \in {<<Functor("complete")>>, <<Functor("highWater")>>, << >>}
        BY DEF Notice
      <4> QED BY <4>2, <4>3 DEF Q
    <3>2. pending' \in Seq(Queueable(downs > 0))
      BY <3>1, <2>3, ConcatProperties DEF ConnInv, RemovalInv
    <3> QED BY <3>2 DEF ConnInv, RemovalInv
  <2>10. CASE n = Size
    <3>1. output = << >> /\ ~writing /\ UNCHANGED channelVars
      <4>1. n # 0 /\ ~(n < Size)
        BY <2>10, <1>1
      <4>2. MayWriteAtOnce
        BY <4>1, <1>2
      <4> QED BY <4>1, <4>2, <1>2, <1>4 DEF MayWriteAtOnce
    <3>2. output' = << >>
      <4>1. Len(output) = 0 /\ Len(output') = 0
        BY <3>1, <2>10, <2>8, <1>1
      <4> QED BY <4>1, <2>7, EmptySeq
    <3>3. DataInv'
      BY <2>3, <2>6, <2>7, <3>1 DEF ConnInv, DataInv, channelVars
    <3>4. WatchInv' /\ FinAfterData'
      BY <3>1, <3>2 DEF WatchInv, FinAfterData, channelVars
    <3> QED BY <2>9, <3>3, <3>4 DEF ConnInv
  <2>11. CASE n # Size
    <3>1. n < Size /\ n \in Nat
      BY <2>1, <2>11, <1>1
    <3>2. output' # << >>
      <4>1. Len(output) \in Nat /\ Len(output') > 0
        BY <2>5, <2>8, <3>1, <1>1
      <4> QED BY <4>1, <2>7, EmptySeq
    <3>3. writing' = TRUE /\ (writing' => index' = "added" \/ downs' > 0)
          /\ reading' = reading
      <4>1. CASE writing
        BY <4>1, <1>2, <1>4 DEF ConnInv, WatchInv, DataInv, channelVars
      <4>2. CASE ~writing
        <5>1. Update(reading, TRUE)
          BY <4>2, <3>1, <1>2, <1>4
        <5> QED BY <5>1 DEF Update
      <4> QED BY <4>1, <4>2
    <3>4. DataInv'
      BY <2>3, <2>6, <2>7, <3>3 DEF ConnInv, DataInv
    <3>5. WatchInv'
      BY <3>2, <3>3 DEF WatchInv
    <3>6. FinAfterData'
      <4> SUFFICES ASSUME sndShut, downs = 0 PROVE FALSE
        BY <2>3 DEF FinAfterData
      <4>1. output = << >> /\ ~writing
        BY DEF ConnInv, FinAfterData, WatchInv
      <4>2. MayWriteAtOnce /\ ~CanWrite
        BY <4>1 DEF MayWriteAtOnce, CanWrite
      <4> QED BY <4>2, <1>4
    <3> QED BY <2>9, <3>4, <3>5, <3>6 DEF ConnInv
  <2> QED BY <2>10, <2>11
<1> QED BY <1>3, <1>4

\* handleWrite(): the write takes a prefix of the buffer.
LEMMA HandleWriteKeepsInv ==
  ASSUME ConnInv, HandleWrite,
         UNCHANGED <<stream, downs, removals, functors>>
  PROVE  ConnInv'
<1>1. CASE ~writing /\ UNCHANGED <<channelVars, output, wire, pending, sndShut>>
  BY <1>1, QuietKeepsInv DEF ConnInv, RemovalInv, dataVars
<1>2. CASE writing /\ \E n \in (IF CanWrite THEN 0..Len(output) ELSE {0}) :
          /\ wire' = wire \o SubSeq(output, 1, n)
          /\ output' = SubSeq(output, n + 1, Len(output))
          /\ IF Drained(n)
             THEN /\ DisableWriting
                  /\ pending' = Append(pending, Functor("complete"))
                  /\ sndShut' = (sndShut \/ ShutdownIsDue)
             ELSE UNCHANGED <<channelVars, pending, sndShut>>
  <2>1. output \in Seq(UnitSet) /\ wire \in Seq(UnitSet) /\ Len(output) \in Nat
        /\ wire \o output = stream /\ output # << >> /\ writing
    BY <1>2 DEF ConnInv, DataInv, StreamInOrder, WatchInv
  <2>a. (IF CanWrite THEN 0..Len(output) ELSE {0}) \subseteq 0..Len(output)
    BY <2>1
  <2>2. PICK n \in 0..Len(output) :
          /\ wire' = wire \o SubSeq(output, 1, n)
          /\ output' = SubSeq(output, n + 1, Len(output))
          /\ IF Drained(n)
             THEN /\ DisableWriting
                  /\ pending' = Append(pending, Functor("complete"))
                  /\ sndShut' = (sndShut \/ ShutdownIsDue)
             ELSE UNCHANGED <<channelVars, pending, sndShut>>
    BY <1>2, <2>a, Zenon
  <2> DEFINE a == SubSeq(output, 1, n)
             b == SubSeq(output, n + 1, Len(output))
  <2>3. a \in Seq(UnitSet) /\ b \in Seq(UnitSet) /\ a \o b = output
        /\ Len(b) = Len(output) - n
    BY <2>1, CutInTwo
  <2>4. wire' = wire \o a /\ output' = b
    BY <2>2
  <2> HIDE DEF a, b
  <2>5. (wire \o a) \o b = wire \o (a \o b)
    <3>1. wire \in Seq(UnitSet) /\ a \in Seq(UnitSet) /\ b \in Seq(UnitSet)
      BY <2>1, <2>3
    <3> QED BY <3>1, ConcatAssociative, SMTT(60)
  <2>6. StreamInOrder' /\ wire' \in Seq(UnitSet) /\ output' \in Seq(UnitSet)
    <3>1. StreamInOrder'
      BY <2>1, <2>3, <2>4, <2>5 DEF StreamInOrder
    <3>2. wire \o a \in Seq(UnitSet)
      BY <2>1, <2>3, ConcatProperties
    <3> QED BY <3>1, <3>2, <2>3, <2>4
  <2>7. CASE Drained(n)
    <3>1. output' = << >>
      <4>1. Len(output') = 0
        BY <2>1, <2>3, <2>4, <2>7 DEF Drained
      <4> QED BY <4>1, <2>6, EmptySeq
    <3>2. writing' = FALSE /\ reading' = reading
      BY <2>2, <2>7 DEF DisableWriting, Update
    <3>3. sndShut' \in BOOLEAN
      BY <2>2, <2>7
    <3>4. pending' \in Seq(Queueable(downs > 0))
      <4> DEFINE Q == Queueable(downs > 0)
      <4>1. Functor("complete") \in Q
        BY FunctorTyped
      <4>2. pending \in Seq(Q)
        BY DEF ConnInv, RemovalInv
      <4>3. pending' = Append(pending, Functor("complete"))
        BY <2>2, <2>7
      <4> HIDE DEF Q
      <4>4. Append(pending, Functor("complete")) \in Seq(Q)
        BY <4>1, <4>2
      <4> QED BY <4>3, <4>4 DEF Q
    <3>5. RemovalInv'
      BY <3>4 DEF ConnInv, RemovalInv
    <3>6. DataInv'
      BY <2>6, <3>2, <3>3 DEF ConnInv, DataInv
    <3>7. WatchInv' /\ FinAfterData'
      BY <3>1, <3>2 DEF WatchInv, FinAfterData
    <3> QED BY <3>5, <3>6, <3>7 DEF ConnInv
  <2>8. CASE ~Drained(n)
    <3>1. UNCHANGED <<channelVars, pending, sndShut>>
      BY <2>2, <2>8
    <3>2. output' # << >>
      <4>1. Len(output) # 0
        BY <2>1, EmptySeq
      <4>2. Len(output') # 0
        BY <2>1, <2>3, <2>4, <2>8, <4>1 DEF Drained
      <4> QED BY <4>2
    <3>3. RemovalInv'
      BY <3>1 DEF ConnInv, RemovalInv
    <3>4. DataInv'
      BY <3>1, <2>6 DEF ConnInv, DataInv, channelVars
    <3>5. WatchInv' /\ FinAfterData'
      BY <2>1, <3>1, <3>2 DEF ConnInv, WatchInv, FinAfterData, channelVars
    <3> QED BY <3>3, <3>4, <3>5 DEF ConnInv
  <2> QED BY <2>7, <2>8
<1> QED BY <1>1, <1>2 DEF HandleWrite

\* connectEstablished() and connectDestroyed().
LEMMA EstablishedKeepsInv ==
  ASSUME ConnInv, Update(TRUE, writing),
         UNCHANGED <<dataVars, wire, sndShut, pending, downs, removals>>,
         functors' \in Seq(Queueable(downs > 0))
  PROVE  ConnInv'
<1>1. reading' = TRUE /\ writing' = writing /\ index' = "added"
  BY DEF Update
<1>2. RemovalInv'
  BY DEF ConnInv, RemovalInv
<1>3. DataInv'
  BY <1>1 DEF ConnInv, DataInv, StreamInOrder, dataVars
<1>4. WatchInv' /\ FinAfterData'
  BY <1>1 DEF ConnInv, WatchInv, FinAfterData, dataVars
<1> QED BY <1>2, <1>3, <1>4 DEF ConnInv

LEMMA DestroyedKeepsInv ==
  ASSUME ConnInv, ConnectDestroyed
  PROVE  ConnInv'
<1>1. Head(functors) \in Queueable(downs > 0) /\ Head(functors).op = "destroyed"
      /\ functors' \in Seq(Queueable(downs > 0))
  BY DEF ConnectDestroyed, StartFunctor, ConnInv, RemovalInv
<1>2. downs \in Nat /\ downs > 0
  BY <1>1 DEF Queueable, ConnInv, RemovalInv
<1>3. UNCHANGED <<dataVars, wire, sndShut, pending, removals>>
  BY DEF ConnectDestroyed, StartFunctor, socketVars
<1>4. \/ writing' = FALSE /\ reading' = FALSE /\ downs' = downs + 1
      \/ UNCHANGED <<reading, writing, downs>>
  BY DEF ConnectDestroyed
<1>5. downs' \in Nat /\ downs' > 0
  BY <1>2, <1>4
<1>6. RemovalInv'
  <2>1. functors' \in Seq(Queueable(downs' > 0)) /\ pending \in Seq(Queueable(downs' > 0))
    BY <1>1, <1>5, QueueableGrows DEF ConnInv, RemovalInv
  <2> QED BY <1>3, <1>5, <2>1 DEF ConnInv, RemovalInv
<1>7. DataInv'
  BY <1>3, <1>4 DEF ConnInv, DataInv, StreamInOrder, dataVars
<1>8. WatchInv' /\ FinAfterData'
  BY <1>3, <1>4, <1>5 DEF ConnInv, WatchInv, FinAfterData, dataVars
<1> QED BY <1>6, <1>7, <1>8 DEF ConnInv

\* Every queue the loop or another thread extends stays typed.
LEMMA QueuesTyped ==
  ASSUME ConnInv
  PROVE  /\ functors \in Seq(Queueable(downs > 0))
         /\ pending \in Seq(Queueable(downs > 0))
         /\ << >> \in Seq(Queueable(downs > 0))
         /\ functors # << >> =>
              /\ Head(functors) \in Queueable(downs > 0)
              /\ Tail(functors) \in Seq(Queueable(downs > 0))
         /\ \A f \in Queueable(downs > 0) :
              Append(pending, f) \in Seq(Queueable(downs > 0))
<1> DEFINE Q == Queueable(downs > 0)
<1>1. functors \in Seq(Q) /\ pending \in Seq(Q)
  BY DEF ConnInv, RemovalInv
<1> HIDE DEF Q
<1>2. << >> \in Seq(Q) /\ \A f \in Q : Append(pending, f) \in Seq(Q)
  BY <1>1
<1>3. functors # << >> => Head(functors) \in Q /\ Tail(functors) \in Seq(Q)
  BY <1>1
<1> QED BY <1>1, <1>2, <1>3 DEF Q

LEMMA FunctorStepKeepsInv ==
  ASSUME ConnInv, ConnectionAssumption, RunFunctor
  PROVE  ConnInv'
<1>1. \A op : StartFunctor(op) =>
        /\ functors # << >> /\ Head(functors) \in Queueable(downs > 0)
        /\ Head(functors).op = op
        /\ functors' \in Seq(Queueable(downs > 0))
        /\ UNCHANGED removals
  BY QueuesTyped DEF StartFunctor
<1>2. CASE ConnectEstablished
  BY <1>1, <1>2, EstablishedKeepsInv DEF ConnectEstablished, socketVars
<1>3. CASE ConnectDestroyed
  BY <1>3, DestroyedKeepsInv
<1>4. CASE RunSend
  <2>1. /\ Head(functors).msg \in Messages
        /\ functors' \in Seq(Queueable(downs > 0))
        /\ UNCHANGED <<downs, removals>>
    BY <1>1, <1>4 DEF RunSend, Queueable
  <2>2. CASE state = "disconnected"
    <3>1. UNCHANGED <<channelVars, dataVars, socketVars, pending>>
      BY <1>4, <2>2 DEF RunSend
    <3>2. pending' \in Seq(Queueable(downs > 0))
      BY <3>1, QueuesTyped
    <3> QED BY <2>1, <3>1, <3>2, QuietKeepsInv DEF socketVars
  <2>3. CASE state # "disconnected"
    <3>1. SendInLoop(Head(functors).msg)
      BY <1>4, <2>3 DEF RunSend
    <3> QED BY <2>1, <3>1, SendKeepsInv
  <2> QED BY <2>2, <2>3
<1>5. CASE RunShutdown
  BY <1>1, <1>5, ShutdownKeepsInv DEF RunShutdown
<1>6. CASE RunNotice
  <2>1. /\ functors' \in Seq(Queueable(downs > 0))
        /\ UNCHANGED <<channelVars, dataVars, socketVars, pending, downs, removals>>
    BY <1>1, <1>6 DEF RunNotice
  <2>2. pending' \in Seq(Queueable(downs > 0))
    BY <2>1, QueuesTyped
  <2> QED BY <2>1, <2>2, QuietKeepsInv DEF socketVars
<1>7. CASE EndBatch
  BY <1>7, QueuesTyped, QuietKeepsInv
     DEF EndBatch, socketVars, ownerVars, historyVars
<1> QED BY <1>2, <1>3, <1>4, <1>5, <1>6, <1>7 DEF RunFunctor

LEMMA EventStepKeepsInv ==
  ASSUME ConnInv, Dispatch
  PROVE  ConnInv'
<1>1. CASE EventClose
  <2>1. UNCHANGED <<dataVars, wire, sndShut, functors, pending>>
    BY <1>1 DEF EventClose, queueVars
  <2>2. HandleClose \/ UNCHANGED <<channelVars, downs, removals>>
    BY <1>1 DEF EventClose
  <2> QED BY <2>1, <2>2, CloseKeepsInv, QuietKeepsInv, QueuesTyped
<1>2. CASE EventRead
  <2>1. UNCHANGED <<dataVars, wire, sndShut, functors, pending>>
    BY <1>2 DEF EventRead, queueVars
  <2>2. HandleClose \/ UNCHANGED <<channelVars, downs, removals>>
    BY <1>2 DEF EventRead
  <2> QED BY <2>1, <2>2, CloseKeepsInv, QuietKeepsInv, QueuesTyped
<1>3. CASE EventWrite
  BY <1>3, HandleWriteKeepsInv DEF EventWrite, ownerVars, historyVars
<1>4. CASE Swap
  BY <1>4, QueuesTyped, QuietKeepsInv DEF Swap, socketVars, ownerVars, historyVars
<1> QED BY <1>1, <1>2, <1>3, <1>4 DEF Dispatch

LEMMA UserStepKeepsInv ==
  ASSUME ConnInv, NEW u \in Users, User(u)
  PROVE  ConnInv'
<1>1. UNCHANGED <<channelVars, dataVars, socketVars, functors, downs, removals>>
  BY DEF User, UserFinish, UserSend, UserQueueSend, UserShutdown, UserSetState,
         UserQueueShutdown, UserDrop, queueVars, ownerVars, historyVars
<1>2. pending' = pending \/ \E f \in Queueable(downs > 0) : pending' = Append(pending, f)
  <2>1. CASE UserQueueSend(u)
    BY <2>1, FunctorTyped DEF UserQueueSend
  <2>2. CASE UserQueueShutdown(u)
    BY <2>2, FunctorTyped DEF UserQueueShutdown
  <2>3. CASE \/ \E m \in Messages : UserSend(u, m)
             \/ UserShutdown(u) \/ UserSetState(u) \/ UserDrop(u)
    BY <2>3 DEF UserSend, UserShutdown, UserSetState, UserDrop, queueVars
  <2> QED BY <2>1, <2>2, <2>3 DEF User, UserFinish
<1>3. pending' \in Seq(Queueable(downs > 0)) /\ functors' \in Seq(Queueable(downs > 0))
  BY <1>1, <1>2, QueuesTyped
<1> QED BY <1>1, <1>3, QuietKeepsInv DEF socketVars

\* The server's removal, queued by handleClose(), finds a connection that went
\* down: connectDestroyed() always runs after the down callback.
LEMMA ServerStepKeepsInv ==
  ASSUME ConnInv, ServerRemove
  PROVE  ConnInv'
<1>1. removals \in Nat /\ removals > 0 /\ downs > 0 /\ downs \in Nat
  BY DEF ServerRemove, ConnInv, RemovalInv
<1>2. removals' \in Nat
  BY <1>1 DEF ServerRemove
<1>3. Functor("destroyed") \in Queueable(downs > 0)
  BY <1>1, FunctorTyped
<1>4. pending' \in Seq(Queueable(downs > 0)) /\ functors \in Seq(Queueable(downs > 0))
  BY <1>3, QueuesTyped DEF ServerRemove
<1>5. UNCHANGED <<channelVars, dataVars, wire, sndShut, functors, downs>>
  BY DEF ServerRemove, socketVars, historyVars
<1>6. RemovalInv'
  BY <1>1, <1>2, <1>4, <1>5 DEF RemovalInv
<1>7. DataInv'
  BY <1>5 DEF ConnInv, DataInv, StreamInOrder, channelVars, dataVars
<1>8. WatchInv' /\ FinAfterData'
  BY <1>5 DEF ConnInv, WatchInv, FinAfterData, channelVars, dataVars
<1> QED BY <1>6, <1>7, <1>8 DEF ConnInv

LEMMA NextConnInv ==
  ASSUME ConnInv, ConnectionAssumption, [Next]_vars
  PROVE  ConnInv'
<1>1. CASE PollChannel
  BY <1>1, QueuesTyped, QuietKeepsInv
     DEF PollChannel, socketVars, queueVars, ownerVars, historyVars
<1>2. CASE PollOther
  BY <1>2, QueuesTyped, QuietKeepsInv
     DEF PollOther, socketVars, ownerVars, historyVars
<1>3. CASE Dispatch
  BY <1>3, EventStepKeepsInv
<1>4. CASE RunFunctor
  BY <1>4, FunctorStepKeepsInv
<1>5. CASE \E m \in Messages : LoopSend(m)
  <2>1. PICK m \in Messages : LoopSend(m)
    BY <1>5
  <2>2. UNCHANGED <<functors, downs, removals>>
    BY <2>1 DEF LoopSend, ownerVars
  <2>3. functors' \in Seq(Queueable(downs > 0))
    BY <2>2, QueuesTyped
  <2>4. CASE state = "connected"
    BY <2>1, <2>2, <2>3, <2>4, SendKeepsInv DEF LoopSend
  <2>5. CASE state # "connected"
    <3>1. UNCHANGED <<channelVars, dataVars, socketVars, pending>>
      BY <2>1, <2>5 DEF LoopSend
    <3> QED BY <2>2, <2>3, <3>1, QueuesTyped, QuietKeepsInv DEF socketVars
  <2> QED BY <2>4, <2>5
<1>6. CASE LoopShutdown
  BY <1>6, QueuesTyped, ShutdownKeepsInv
     DEF LoopShutdown, queueVars, ownerVars, historyVars
<1>7. CASE EndUser
  BY <1>7, QueuesTyped, QuietKeepsInv
     DEF EndUser, socketVars, queueVars, ownerVars, historyVars
<1>8. CASE \E u \in Users : User(u)
  BY <1>8, UserStepKeepsInv
<1>9. CASE ServerRemove
  BY <1>9, ServerStepKeepsInv
<1>10. CASE Peer
  BY <1>10, QueuesTyped, QuietKeepsInv
     DEF Peer, PeerSend, PeerClose, PeerReset, queueVars, ownerVars, historyVars
<1>11. CASE UNCHANGED vars
  BY <1>11, QueuesTyped, QuietKeepsInv
     DEF vars, socketVars, queueVars, ownerVars, historyVars
<1> QED BY <1>1, <1>2, <1>3, <1>4, <1>5, <1>6, <1>7, <1>8, <1>9, <1>10, <1>11
        DEF Next, LoopUser

LEMMA ConnInvHolds == Spec => []ConnInv
<1>1. Init => ConnInv
  BY InitConnInv
<1>2. ConnInv /\ [Next]_vars => ConnInv'
  BY NextConnInv, ConnectionAssumption
<1> QED BY <1>1, <1>2, PTL DEF Spec

\* The type invariant but for what ConnInv says of write events.
Typed ==
  /\ state \in {"connecting", "connected", "disconnecting", "disconnected"}
  /\ index \in {"new", "added", "deleted"}
  /\ peer \in {"open", "closed", "reset"}
  /\ soError \in BOOLEAN
  /\ batchRef \in BOOLEAN /\ inMap \in BOOLEAN
  /\ revents \subseteq {"IN", "OUT", "HUP", "ERR"}

\* A callback of the user runs only where handleEvent() or a functor made it.
CallbackInv ==
  /\ loopPc \in {"poll", "close", "read", "write", "swap", "run"}
  /\ inUser \in BOOLEAN
  /\ loopPc \in {"poll", "close", "swap"} => ~inUser

LEMMA NextTyped ==
  ASSUME Typed, [Next]_vars
  PROVE  Typed'
<1> USE DEF Typed
<1>1. CASE PollChannel
  <2>1. revents' \subseteq {"IN", "OUT", "HUP", "ERR"}
    BY <1>1 DEF PollChannel, Readiness
  <2> QED BY <1>1, <2>1
          DEF PollChannel, channelVars, socketVars, queueVars, ownerVars
<1>2. CASE PollOther \/ Swap
  BY <1>2 DEF PollOther, Swap, channelVars, socketVars, ownerVars
<1>3. ASSUME HandleClose \/ UNCHANGED <<state, channelVars>>
      PROVE  /\ state' \in {"connecting", "connected", "disconnecting", "disconnected"}
             /\ index' \in {"new", "added", "deleted"}
  BY <1>3 DEF HandleClose, Update, channelVars
<1>4. CASE EventClose
  <2>1. HandleClose \/ UNCHANGED <<state, channelVars>>
    BY <1>4 DEF EventClose
  <2>2. soError' = FALSE \/ soError' = soError
    BY <1>4 DEF EventClose
  <2>3. UNCHANGED <<peer, batchRef, inMap, revents>>
    BY <1>4 DEF EventClose, queueVars
  <2> QED BY <1>3, <2>1, <2>2, <2>3
<1>5. CASE EventRead
  <2>1. HandleClose \/ UNCHANGED <<state, channelVars>>
    BY <1>5 DEF EventRead
  <2>2. soError' = FALSE \/ soError' = soError
    BY <1>5 DEF EventRead
  <2>3. UNCHANGED <<peer, batchRef, inMap, revents>>
    BY <1>5 DEF EventRead, queueVars
  <2> QED BY <1>3, <2>1, <2>2, <2>3
<1>6. CASE EventWrite
  <2>1. Update(reading, FALSE) \/ UNCHANGED channelVars
    BY <1>6 DEF EventWrite, HandleWrite, DisableWriting
  <2>2. index' \in {"new", "added", "deleted"}
    BY <2>1 DEF Update, channelVars
  <2>3. UNCHANGED <<state, peer, soError, batchRef, inMap>> /\ revents' = {}
    BY <1>6 DEF EventWrite, ownerVars
  <2> QED BY <2>2, <2>3
<1>7. CASE RunFunctor
  <2>1. state' \in {"connecting", "connected", "disconnecting", "disconnected"}
    BY <1>7 DEF RunFunctor, ConnectEstablished, ConnectDestroyed, RunSend,
                RunShutdown, RunNotice, EndBatch
  <2>2. \/ index' \in {"added", "new"}
        \/ \E r, w : Update(r, w)
        \/ UNCHANGED index
    BY <1>7 DEF RunFunctor, ConnectEstablished, ConnectDestroyed, RunSend, SendInLoop,
                RunShutdown, RunNotice, EndBatch, channelVars
  <2>3. index' \in {"new", "added", "deleted"}
    BY <2>2 DEF Update
  <2>4. batchRef' = FALSE \/ batchRef' = (batchRef \/ Owns(Head(functors)))
    BY <1>7 DEF RunFunctor, ConnectEstablished, ConnectDestroyed, RunSend,
                RunShutdown, RunNotice, EndBatch, StartFunctor
  <2>5. batchRef' \in BOOLEAN
    <3>1. (batchRef \/ Owns(Head(functors))) \in BOOLEAN
      BY Zenon
    <3> QED BY <2>4, <3>1, Zenon
  <2>6. UNCHANGED <<peer, soError>>
    BY <1>7 DEF RunFunctor, ConnectEstablished, ConnectDestroyed, RunSend, SendInLoop,
                RunShutdown, RunNotice, EndBatch, socketVars
  <2>7. UNCHANGED <<inMap, revents>>
    BY <1>7 DEF RunFunctor, ConnectEstablished, ConnectDestroyed, RunSend,
                RunShutdown, RunNotice, EndBatch, StartFunctor, ownerVars
  <2> QED BY <2>1, <2>3, <2>5, <2>6, <2>7
<1>8. ASSUME NEW m \in Messages, LoopSend(m) PROVE Typed'
  BY <1>8 DEF LoopSend, SendInLoop, Update, channelVars, socketVars, loopVars, ownerVars
<1>9. CASE LoopShutdown \/ EndUser
  BY <1>9 DEF LoopShutdown, EndUser, channelVars, socketVars, loopVars, queueVars, ownerVars
<1>10. ASSUME NEW u \in Users, User(u) PROVE Typed'
  BY <1>10 DEF User, UserFinish, UserSend, UserQueueSend, UserShutdown, UserSetState,
               UserQueueShutdown, UserDrop, channelVars, socketVars, loopVars,
               queueVars, ownerVars
<1>11. CASE ServerRemove
  BY <1>11 DEF ServerRemove, channelVars, socketVars, loopVars
<1>12. CASE Peer
  BY <1>12 DEF Peer, PeerSend, PeerClose, PeerReset, channelVars, loopVars,
               queueVars, ownerVars
<1>13. CASE UNCHANGED vars
  BY <1>13 DEF vars, channelVars, socketVars, loopVars, queueVars, ownerVars
<1> QED BY <1>1, <1>2, <1>4, <1>5, <1>6, <1>7, <1>8, <1>9, <1>10, <1>11, <1>12, <1>13
        DEF Next, Dispatch, LoopUser

LEMMA NextCallbackInv ==
  ASSUME CallbackInv, [Next]_vars
  PROVE  CallbackInv'
<1> USE DEF CallbackInv
<1>1. CASE PollChannel \/ PollOther
  <2>1. loopPc = "poll" /\ loopPc' \in {"close", "run"}
    BY <1>1 DEF PollChannel, PollOther
  <2>2. inUser' = inUser
    BY <1>1 DEF PollChannel, PollOther
  <2> QED BY <2>1, <2>2
<1>2. CASE Dispatch
  <2>1. /\ loopPc' \in {"read", "write", "swap", "run"}
        /\ inUser' = TRUE \/ inUser' = inUser
        /\ loopPc' = "swap" => inUser' = inUser
        /\ loopPc' = "swap" => ~inUser
    BY <1>2 DEF Dispatch, EventClose, EventRead, EventWrite, Swap
  <2>2. loopPc' = "swap" => ~inUser'
    BY <2>1, Zenon
  <2> QED BY <2>1, <2>2
<1>3. CASE RunFunctor
  <2>1. /\ loopPc' \in {"run", "poll"}
        /\ inUser' = TRUE \/ inUser' = inUser
        /\ loopPc' = "poll" => inUser' = inUser
        /\ loopPc' = "poll" => ~inUser
    BY <1>3 DEF RunFunctor, ConnectEstablished, ConnectDestroyed, RunSend,
                RunShutdown, RunNotice, EndBatch, StartFunctor
  <2>2. loopPc' = "poll" => ~inUser'
    BY <2>1, Zenon
  <2> QED BY <2>1, <2>2
<1>4. CASE LoopUser \/ EndUser
  BY <1>4 DEF LoopUser, LoopSend, LoopShutdown, EndUser, loopVars
<1>5. ASSUME NEW u \in Users, User(u) PROVE CallbackInv'
  BY <1>5 DEF User, UserFinish, UserSend, UserQueueSend, UserShutdown, UserSetState,
              UserQueueShutdown, UserDrop, loopVars
<1>6. CASE ServerRemove \/ Peer
  BY <1>6 DEF ServerRemove, Peer, PeerSend, PeerClose, PeerReset, loopVars
<1>7. CASE UNCHANGED vars
  BY <1>7 DEF vars, loopVars
<1> QED BY <1>1, <1>2, <1>3, <1>4, <1>5, <1>6, <1>7 DEF Next

-----------------------------------------------------------------------------
(* The life of the connection, if users send or shut down but not both.    *)

In(op, q) == \E i \in 1..Len(q) : q[i].op = op
Queued(op) == In(op, functors) \/ In(op, pending)
Caller(kind) == \E u \in Users : kind \in calls[u]

\* Before connectEstablished(), which is all that is queued.
Unborn ==
  /\ state = "connecting" /\ index = "new" /\ downs = 0
  /\ ~inUser /\ inMap /\ removals = 0
  /\ \A u \in Users : ~hasRef[u] /\ userPc[u] = "idle"
  /\ \/ /\ functors = << >> /\ pending = <<Functor("established")>>
        /\ loopPc = "poll"
     \/ /\ functors = <<Functor("established")>> /\ pending = << >>
        /\ loopPc = "run"

Up == /\ state \in {"connected", "disconnecting"} /\ downs = 0
      /\ index = "added" /\ reading = TRUE
      /\ inMap /\ removals = 0

\* A connection that went down leaves the poller for good.  Only shutdown() in
\* another thread can still store kDisconnecting, and then nobody sends.
Down == /\ state \in {"disconnected", "disconnecting"} /\ downs = 1
        /\ state = "disconnecting" => Caller("shutdown")
        /\ index \in {"deleted", "new"} /\ reading = FALSE /\ writing = FALSE
        /\ loopPc \notin {"close", "read"}
        /\ inMap \/ index = "new" \/ Queued("destroyed")

\* Who has called what.
CallsInv ==
  /\ userPc \in [Users -> Messages \cup {"idle", "setState", "queue"}]
  /\ Queued("send") => Caller("send")
  /\ \A u \in Users : /\ userPc[u] \in Messages => Caller("send")
                      /\ userPc[u] \in {"setState", "queue"}
                           => Caller("shutdown")

LifeInv ==
  /\ loopPc # "run" => functors = << >>
  /\ loopPc = "close" => ("HUP" \in revents => "IN" \in revents)
  /\ ups = 0 => Unborn
  /\ ups # 0 => ups = 1 /\ ~Queued("established") /\ (Up \/ Down)
  /\ CallsInv

\* What waits in a sequence of functors when it is extended or cut.
LEMMA InSequence ==
  ASSUME NEW q \in Seq(FunctorSet)
  PROVE  /\ \A op : ~In(op, << >>)
         /\ \A f \in FunctorSet : \A op : In(op, <<f>>) <=> f.op = op
         /\ \A r \in Seq(FunctorSet) : \A op :
              In(op, q \o r) <=> In(op, q) \/ In(op, r)
         /\ q # << >> =>
              /\ Tail(q) \in Seq(FunctorSet)
              /\ \A op : In(op, q) <=> Head(q).op = op \/ In(op, Tail(q))
<1>1. \A op : ~In(op, << >>)
  BY DEF In
<1>2. ASSUME NEW f \in FunctorSet, NEW op
      PROVE  In(op, <<f>>) <=> f.op = op
  BY DEF In
<1>3. ASSUME NEW r \in Seq(FunctorSet), NEW op
      PROVE  In(op, q \o r) <=> In(op, q) \/ In(op, r)
  <2>1. /\ Len(q) \in Nat /\ Len(r) \in Nat
        /\ Len(q \o r) = Len(q) + Len(r)
        /\ \A i \in 1..Len(q) : (q \o r)[i] = q[i]
        /\ \A i \in 1..Len(r) : (q \o r)[Len(q) + i] = r[i]
    BY ConcatProperties
  <2>2. ASSUME In(op, q \o r)
        PROVE  In(op, q) \/ In(op, r)
    <3>1. PICK i \in 1..Len(q \o r) : (q \o r)[i].op = op
      BY <2>2 DEF In
    <3>2. CASE i \in 1..Len(q)
      BY <2>1, <3>1, <3>2 DEF In
    <3>3. CASE ~(i \in 1..Len(q))
      <4>1. PICK j \in 1..Len(r) : i = Len(q) + j
        <5>1. i - Len(q) \in 1..Len(r) /\ i = Len(q) + (i - Len(q))
          BY <2>1, <3>1, <3>3
        <5> QED BY <5>1
      <4> QED BY <2>1, <3>1, <4>1 DEF In
    <3> QED BY <3>2, <3>3
  <2>3. In(op, q) => In(op, q \o r)
    <3>1. \A i \in 1..Len(q) : i \in 1..Len(q \o r)
      BY <2>1
    <3> QED BY <2>1, <3>1 DEF In
  <2>4. In(op, r) => In(op, q \o r)
    <3>1. \A i \in 1..Len(r) : Len(q) + i \in 1..Len(q \o r)
      BY <2>1
    <3> QED BY <2>1, <3>1 DEF In
  <2> QED BY <2>2, <2>3, <2>4
<1>4. ASSUME q # << >>
      PROVE  /\ Tail(q) \in Seq(FunctorSet)
             /\ \A op : In(op, q) <=> Head(q).op = op \/ In(op, Tail(q))
  <2>1. /\ Len(q) \in Nat /\ Len(q) > 0 /\ Head(q) = q[1]
        /\ Tail(q) \in Seq(FunctorSet) /\ Len(Tail(q)) = Len(q) - 1
        /\ \A i \in 1..Len(Tail(q)) : Tail(q)[i] = q[i + 1]
    BY <1>4, EmptySeq
  <2>2. ASSUME NEW op, NEW i \in 1..Len(q), q[i].op = op
        PROVE  Head(q).op = op \/ In(op, Tail(q))
    <3>1. CASE i = 1
      BY <2>1, <2>2, <3>1
    <3>2. CASE i # 1
      <4>1. i - 1 \in 1..Len(Tail(q)) /\ (i - 1) + 1 = i
        BY <2>1, <3>2
      <4>2. Tail(q)[i - 1] = q[i]
        BY <2>1, <4>1
      <4> QED BY <2>2, <4>1, <4>2 DEF In
    <3> QED BY <3>1, <3>2
  <2>3. ASSUME NEW op, NEW i \in 1..Len(Tail(q)), Tail(q)[i].op = op
        PROVE  In(op, q)
    <3>1. i + 1 \in 1..Len(q) /\ q[i + 1].op = op
      BY <2>1, <2>3
    <3> QED BY <3>1 DEF In
  <2>4. \A op : Head(q).op = op => In(op, q)
    <3>1. 1 \in 1..Len(q)
      BY <2>1
    <3> QED BY <2>1, <3>1 DEF In
  <2>5. ASSUME NEW op
        PROVE  In(op, q) <=> Head(q).op = op \/ In(op, Tail(q))
    <3>1. In(op, q) => Head(q).op = op \/ In(op, Tail(q))
      BY <2>2 DEF In
    <3>2. In(op, Tail(q)) => In(op, q)
      BY <2>3 DEF In
    <3> QED BY <3>1, <3>2, <2>4
  <2> QED BY <2>1, <2>5
<1> QED BY <1>1, <1>2, <1>3, <1>4

LEMMA QueueTypes ==
  ASSUME ConnInv
  PROVE  functors \in Seq(FunctorSet) /\ pending \in Seq(FunctorSet)
<1>1. Queueable(downs > 0) \subseteq FunctorSet
  BY DEF Queueable
<1>2. functors \in Seq(Queueable(downs > 0)) /\ pending \in Seq(Queueable(downs > 0))
  BY DEF ConnInv, RemovalInv
<1> QED BY <1>1, <1>2

LEMMA QueuedPrime ==
  \A op : Queued(op)' <=> In(op, functors') \/ In(op, pending')
BY DEF Queued, In

\* What is queued after a step that may have run a functor and then queued s.
LEMMA QueueEffect ==
  ASSUME ConnInv, NEW s \in Seq(FunctorSet), pending' = pending \o s,
         \/ functors' = functors
         \/ functors # << >> /\ functors' = Tail(functors)
  PROVE  /\ \A op : Queued(op)' => Queued(op) \/ In(op, s)
         /\ \A op : In(op, s) => Queued(op)'
         /\ \A op : Queued(op) =>
                      \/ Queued(op)'
                      \/ functors' # functors /\ Head(functors).op = op
<1>1. functors \in Seq(FunctorSet) /\ pending \in Seq(FunctorSet)
  BY QueueTypes
<1>2. \A op : In(op, pending') <=> In(op, pending) \/ In(op, s)
  BY <1>1, InSequence
<1>3. functors # << >> =>
        \A op : In(op, functors) <=> Head(functors).op = op \/ In(op, Tail(functors))
  BY <1>1, InSequence
<1>4. ASSUME NEW op
      PROVE  /\ In(op, functors') => In(op, functors)
             /\ In(op, functors) =>
                  \/ In(op, functors')
                  \/ functors' # functors /\ Head(functors).op = op
  <2>1. CASE functors' = functors
    BY <2>1
  <2>2. CASE functors # << >> /\ functors' = Tail(functors) /\ functors' # functors
    BY <2>2, <1>3
  <2> QED BY <2>1, <2>2
<1> QED BY <1>2, <1>4, QueuedPrime DEF Queued

\* The same if nothing is queued.
LEMMA QueueCut ==
  ASSUME ConnInv, pending' = pending,
         \/ functors' = functors
         \/ functors # << >> /\ functors' = Tail(functors)
  PROVE  /\ \A op : Queued(op)' => Queued(op)
         /\ \A op : Queued(op) =>
                      \/ Queued(op)'
                      \/ functors' # functors /\ Head(functors).op = op
<1>1. functors \in Seq(FunctorSet) /\ pending \in Seq(FunctorSet)
  BY QueueTypes
<1>2. << >> \in Seq(FunctorSet) /\ pending \o << >> = pending
  BY <1>1, ConcatEmptySeq
<1>3. \A op : ~In(op, << >>)
  BY <1>1, InSequence
<1> QED BY <1>2, <1>3, QueueEffect

\* The same if one functor is queued.
LEMMA QueueAppend ==
  ASSUME ConnInv, NEW f \in FunctorSet, pending' = Append(pending, f),
         functors' = functors
  PROVE  \A op : Queued(op)' <=> Queued(op) \/ f.op = op
<1>1. functors \in Seq(FunctorSet) /\ pending \in Seq(FunctorSet)
  BY QueueTypes
<1>2. <<f>> \in Seq(FunctorSet) /\ Append(pending, f) = pending \o <<f>>
  BY <1>1
<1>3. \A op : In(op, <<f>>) <=> f.op = op
  BY <1>1, InSequence
<1> QED BY <1>2, <1>3, QueueEffect

\* Steps that leave the connection as it is.
LEMMA LifeQuiet ==
  ASSUME LifeInv, inUser' => inUser,
         UNCHANGED <<state, channelVars, functors, pending, loopPc, revents,
                     ups, downs, inMap, removals, calls, hasRef, userPc>>
  PROVE  LifeInv'
<1>1. \A op : Queued(op)' <=> Queued(op)
  BY DEF Queued, In
<1>2. \A kind : Caller(kind)' <=> Caller(kind)
  BY DEF Caller
<1>3. Unborn => Unborn'
  BY DEF Unborn, channelVars
<1>4. Up \/ Down => Up' \/ Down'
  BY <1>1, <1>2 DEF Up, Down, channelVars
<1>5. CallsInv'
  BY <1>1, <1>2 DEF LifeInv, CallsInv
<1> QED BY <1>1, <1>3, <1>4, <1>5 DEF LifeInv

\* Steps of the loop thread while the connection is up.
LEMMA LifeUp ==
  ASSUME LifeInv, ups # 0, Up,
         state' \in {"connected", "disconnecting"},
         index' = "added", reading' = TRUE,
         UNCHANGED <<ups, downs, inMap, removals, calls, userPc>>,
         loopPc' # "run" => functors' = << >>,
         loopPc' = "close" => ("HUP" \in revents' => "IN" \in revents'),
         \A op : Queued(op)' => Queued(op) \/ op \in {"complete", "highWater"}
  PROVE  LifeInv'
<1>1. Up'
  BY DEF Up
<1>2. \A kind : Caller(kind)' <=> Caller(kind)
  BY DEF Caller
<1>3. CallsInv'
  BY <1>2 DEF LifeInv, CallsInv
<1>4. ~Queued("established")'
  BY DEF LifeInv
<1> QED BY <1>1, <1>3, <1>4 DEF LifeInv

\* Steps of the loop thread after it went down.
LEMMA LifeDown ==
  ASSUME LifeInv, ups # 0, Down, UNCHANGED <<state, reading, writing>>,
         UNCHANGED <<ups, downs, inMap, removals, calls, userPc>>,
         index' = index \/ index' = "new",
         loopPc' # "run" => functors' = << >>,
         loopPc' \notin {"close", "read"},
         \A op : Queued(op)' => Queued(op) \/ op \in {"complete", "highWater"},
         index' = "new" \/ (Queued("destroyed") => Queued("destroyed")')
  PROVE  LifeInv'
<1>1. \A kind : Caller(kind)' <=> Caller(kind)
  BY DEF Caller
<1>2. Down'
  BY <1>1 DEF Down
<1>3. CallsInv'
  BY <1>1 DEF LifeInv, CallsInv
<1>4. ~Queued("established")'
  BY DEF LifeInv
<1> QED BY <1>2, <1>3, <1>4 DEF LifeInv

\* sendInLoop(), of a connection that is up.
LEMMA LifeSend ==
  ASSUME ConnInv, ConnectionAssumption, Up, NEW m, SendInLoop(m),
         \/ functors' = functors
         \/ functors # << >> /\ functors' = Tail(functors)
  PROVE  /\ index' = "added" /\ reading' = TRUE
         /\ \A op : Queued(op)' => Queued(op) \/ op \in {"complete", "highWater"}
<1>1. PICK n : IF MayWriteAtOnce /\ ~CanWrite
               THEN UNCHANGED <<channelVars, pending>>
               ELSE /\ pending' = pending \o Notice(Size - n)
                    /\ Update(reading, TRUE) \/ UNCHANGED channelVars
  BY DEF SendInLoop
<1>2. index' = "added" /\ reading' = TRUE
  BY <1>1 DEF Up, Update, channelVars
<1>3. CASE pending' = pending
  BY <1>2, <1>3, QueueCut
<1>4. CASE pending' = pending \o Notice(Size - n)
  <2>1. /\ Functor("complete") \in FunctorSet /\ Functor("highWater") \in FunctorSet
        /\ Functor("complete").op = "complete"
        /\ Functor("highWater").op = "highWater"
    BY DEF Functor, FunctorSet
  <2>2. << >> \in Seq(FunctorSet) /\ <<Functor("complete")>> \in Seq(FunctorSet)
        /\ <<Functor("highWater")>> \in Seq(FunctorSet)
    BY <2>1
  <2>3. PICK s \in {<<Functor("complete")>>, <<Functor("highWater")>>, << >>} :
          s = Notice(Size - n)
    BY DEF Notice
  <2>4. s \in Seq(FunctorSet) /\ pending' = pending \o s
    BY <2>2, <2>3, <1>4
  <2>5. \A op : In(op, s) => op \in {"complete", "highWater"}
    <3>1. \A f \in FunctorSet : \A op : In(op, <<f>>) <=> f.op = op
      BY <2>2, InSequence
    <3>2. \A op : ~In(op, << >>)
      BY <2>2, InSequence
    <3> QED BY <2>1, <2>3, <3>1, <3>2
  <2>6. \A op : Queued(op)' => Queued(op) \/ In(op, s)
    BY <2>4, QueueEffect
  <2> QED BY <1>2, <2>5, <2>6
<1> QED BY <1>1, <1>3, <1>4 

\* handleEvent() and the swap.
LEMMA LifeDispatch ==
  ASSUME ConnInv, LifeInv, Dispatch
  PROVE  LifeInv'
<1>1. loopPc \in {"close", "read", "write", "swap"} /\ loopPc # "run"
  BY DEF Dispatch, EventClose, EventRead, EventWrite, Swap
<1>2. /\ ups # 0 /\ ups = 1 /\ ~Queued("established") /\ (Up \/ Down)
      /\ functors = << >>
  BY <1>1 DEF LifeInv, Unborn
<1>3. UNCHANGED <<ups, calls, userPc, inMap>>
  BY DEF Dispatch, EventClose, EventRead, EventWrite, Swap, ownerVars, historyVars
<1>4. CASE EventClose
  <2>1. Up /\ loopPc = "close" /\ loopPc' = "read"
    BY <1>2, <1>4 DEF EventClose, Down
  <2>2. UNCHANGED <<state, channelVars, downs, removals, functors, pending>>
    BY <1>4, <2>1 DEF EventClose, LifeInv, queueVars
  <2>3. \A op : Queued(op)' => Queued(op)
    BY <2>2, QueueCut
  <2> QED BY <1>2, <1>3, <2>1, <2>2, <2>3, LifeUp DEF Up, channelVars
<1>5. CASE EventRead
  <2>1. Up /\ loopPc = "read" /\ loopPc' = "write"
    BY <1>2, <1>5 DEF EventRead, Down
  <2>2. UNCHANGED <<functors, pending>>
    BY <1>5 DEF EventRead, queueVars
  <2>3. \A op : Queued(op)' => Queued(op)
    BY <2>2, QueueCut
  <2>4. CASE UNCHANGED <<state, channelVars, downs, removals>>
    BY <1>2, <1>3, <2>1, <2>2, <2>3, <2>4, LifeUp DEF Up, channelVars
  <2>5. CASE HandleClose
    <3>1. downs = 0 /\ index = "added" /\ inMap
      BY <2>1 DEF Up
    <3>2. /\ state' = "disconnected" /\ downs' = 1 /\ index' = "deleted"
          /\ reading' = FALSE /\ writing' = FALSE
      BY <2>5, <3>1 DEF HandleClose, Update
    <3>3. Down'
      BY <1>3, <2>1, <3>1, <3>2 DEF Down
    <3>4. \A kind : Caller(kind)' <=> Caller(kind)
      BY <1>3 DEF Caller
    <3>5. CallsInv'
      BY <1>3, <2>3, <3>4 DEF LifeInv, CallsInv
    <3> QED BY <1>2, <1>3, <2>1, <2>2, <2>3, <3>3, <3>5 DEF LifeInv
  <2> QED BY <1>5, <2>4, <2>5 DEF EventRead
<1>6. CASE EventWrite
  <2>1. /\ loopPc' = "swap" /\ functors' = functors
        /\ UNCHANGED <<state, downs, removals>>
    BY <1>6 DEF EventWrite, ownerVars, historyVars
  <2>2. /\ Functor("complete") \in FunctorSet
        /\ Functor("complete").op = "complete"
    BY DEF Functor, FunctorSet
  <2>3. pending' = pending \/ pending' = Append(pending, Functor("complete"))
    BY <1>6 DEF EventWrite, HandleWrite
  <2>4. /\ \A op : Queued(op)' => Queued(op) \/ op \in {"complete", "highWater"}
        /\ \A op : Queued(op) => Queued(op)'
    BY <2>1, <2>2, <2>3, QueueCut, QueueAppend
  <2>5. CASE Up
    <3>1. index' = "added" /\ reading' = TRUE
      BY <1>6, <2>5 DEF Up, EventWrite, HandleWrite, DisableWriting, Update,
                        channelVars
    <3> QED BY <1>2, <1>3, <2>1, <2>4, <2>5, <3>1, LifeUp DEF Up
  <2>6. CASE Down
    <3>1. UNCHANGED channelVars
      BY <1>6, <2>6 DEF Down, EventWrite, HandleWrite
    <3> QED BY <1>2, <1>3, <2>1, <2>4, <2>6, <3>1, LifeDown DEF channelVars
  <2> QED BY <1>2, <2>5, <2>6
<1>7. CASE Swap
  <2>1. /\ loopPc' = "run" /\ functors' = pending /\ pending' = << >>
        /\ UNCHANGED <<state, channelVars, downs, removals>>
    BY <1>7 DEF Swap, ownerVars, historyVars
  <2>2. \A op : Queued(op)' <=> Queued(op)
    BY <1>2, <2>1 DEF Queued, In
  <2>3. CASE Up
    BY <1>2, <1>3, <2>1, <2>2, <2>3, LifeUp DEF Up, channelVars
  <2>4. CASE Down
    BY <1>2, <1>3, <2>1, <2>2, <2>4, LifeDown DEF channelVars
  <2> QED BY <1>2, <2>3, <2>4
<1> QED BY <1>4, <1>5, <1>6, <1>7 DEF Dispatch

\* connectEstablished() comes first, and once.
LEMMA LifeEstablished ==
  ASSUME ConnInv, LifeInv, ConnectEstablished
  PROVE  LifeInv'
<1>1. /\ loopPc = "run" /\ loopPc' = "run" /\ functors # << >>
      /\ Head(functors).op = "established" /\ functors' = Tail(functors)
      /\ UNCHANGED <<revents, inMap, removals, calls, userPc, pending, downs>>
      /\ state' = "connected" /\ ups' = ups + 1
  BY DEF ConnectEstablished, StartFunctor
<1>2. In("established", functors)
  BY <1>1, QueueTypes, InSequence
<1>3. ups = 0 /\ Unborn
  BY <1>2 DEF LifeInv, Queued
<1>4. functors = <<Functor("established")>> /\ pending = << >>
  BY <1>1, <1>3 DEF Unborn
<1>5. functors' = << >> /\ pending' = << >>
  BY <1>1, <1>4
<1>6. \A op : ~Queued(op)'
  BY <1>5 DEF Queued, In
<1>7. index' = "added" /\ reading' = TRUE
  BY <1>3 DEF Unborn, ConnectEstablished, Update
<1>8. Up' /\ ups' = 1
  BY <1>1, <1>3, <1>7 DEF Unborn, Up
<1>9. CallsInv'
  <2>1. \A kind : Caller(kind)' <=> Caller(kind)
    BY <1>1 DEF Caller
  <2> QED BY <1>1, <1>6, <2>1 DEF LifeInv, CallsInv
<1> QED BY <1>1, <1>6, <1>8, <1>9 DEF LifeInv

\* The other functors.
LEMMA LifeFunctor ==
  ASSUME ConnInv, ConnectionAssumption, LifeInv, OneKindOfCall, RunFunctor
  PROVE  LifeInv'
<1>1. CASE ConnectEstablished
  BY <1>1, LifeEstablished
<1>2. ASSUME NEW op, StartFunctor(op), op # "established"
      PROVE  /\ loopPc = "run" /\ loopPc' = "run" /\ ups # 0 /\ ups = 1
             /\ Up \/ Down
             /\ functors # << >> /\ functors' = Tail(functors)
             /\ Head(functors).op = op /\ Queued(op)
             /\ Head(functors) \in Queueable(downs > 0)
             /\ UNCHANGED <<revents, inMap, removals, calls, userPc>>
  <2>1. /\ loopPc = "run" /\ loopPc' = "run"
        /\ functors # << >> /\ functors' = Tail(functors)
        /\ Head(functors).op = op
        /\ UNCHANGED <<revents, inMap, removals, calls, userPc>>
    BY <1>2 DEF StartFunctor
  <2>2. In(op, functors) /\ Head(functors) \in Queueable(downs > 0)
    BY <2>1, QueueTypes, QueuesTyped, InSequence
  <2>3. ups # 0
    <3>1. ~Unborn
      BY <1>2, <2>1 DEF Unborn, Functor
    <3> QED BY <3>1 DEF LifeInv
  <2> QED BY <2>1, <2>2, <2>3 DEF LifeInv, Queued
<1>3. CASE ConnectDestroyed
  <2>1. StartFunctor("destroyed") /\ UNCHANGED <<pending, ups>> /\ index' = "new"
    BY <1>3 DEF ConnectDestroyed
  <2>2. Down
    <3>1. downs > 0
      BY <1>2, <2>1 DEF Queueable
    <3>2. downs # 0
      BY <3>1 DEF ConnInv, RemovalInv
    <3> QED BY <1>2, <2>1, <3>2 DEF Up
  <2>3. UNCHANGED <<state, reading, writing, downs>>
    BY <1>3, <2>2 DEF ConnectDestroyed, ReportDown, Down
  <2>4. \A op : Queued(op)' => Queued(op)
    BY <1>2, <2>1, QueueCut
  <2> QED BY <1>2, <2>1, <2>2, <2>3, <2>4, LifeDown
<1>4. CASE RunSend
  <2>1. StartFunctor("send") /\ UNCHANGED <<state, ups, downs>>
    BY <1>4 DEF RunSend
  <2>2. CASE UNCHANGED <<channelVars, pending>>
    <3>1. /\ \A op : Queued(op)' => Queued(op)
          /\ Queued("destroyed") => Queued("destroyed")'
      BY <1>2, <2>1, <2>2, QueueCut
    <3>2. CASE Up
      BY <1>2, <2>1, <2>2, <3>1, <3>2, LifeUp DEF Up, channelVars
    <3>3. CASE Down
      BY <1>2, <2>1, <2>2, <3>1, <3>3, LifeDown DEF channelVars
    <3> QED BY <1>2, <2>1, <3>2, <3>3
  <2>3. CASE state # "disconnected" /\ SendInLoop(Head(functors).msg)
    <3>1. Up
      <4>1. Caller("send")
        BY <1>2, <2>1 DEF LifeInv, CallsInv
      <4>2. ~Caller("shutdown")
        BY <4>1 DEF Caller, OneKindOfCall
      <4> QED BY <1>2, <2>1, <2>3, <4>2 DEF Down
    <3>2. PICK m : SendInLoop(m)
      BY <2>3
    <3>3. /\ index' = "added" /\ reading' = TRUE
          /\ \A op : Queued(op)' => Queued(op) \/ op \in {"complete", "highWater"}
      BY <1>2, <2>1, <3>1, <3>2, LifeSend
    <3> QED BY <1>2, <2>1, <3>1, <3>3, LifeUp DEF Up
  <2> QED BY <1>4, <2>2, <2>3 DEF RunSend
<1>5. CASE RunShutdown \/ RunNotice
  <2>1. PICK op \in {"shutdown", "complete", "highWater"} : StartFunctor(op)
    BY <1>5 DEF RunShutdown, RunNotice
  <2>2. UNCHANGED <<state, channelVars, pending, ups, downs>>
    BY <1>5 DEF RunShutdown, RunNotice
  <2>3. /\ \A o : Queued(o)' => Queued(o)
        /\ Queued("destroyed") => Queued("destroyed")'
    <3>1. op # "destroyed" /\ functors # << >> /\ functors' = Tail(functors)
          /\ Head(functors).op = op
      BY <1>2, <2>1
    <3> QED BY <2>2, <3>1, QueueCut
  <2>4. CASE Up
    BY <1>2, <2>1, <2>2, <2>3, <2>4, LifeUp DEF Up, channelVars
  <2>5. CASE Down
    BY <1>2, <2>1, <2>2, <2>3, <2>5, LifeDown DEF channelVars
  <2> QED BY <1>2, <2>1, <2>4, <2>5
<1>6. CASE EndBatch
  <2>1. /\ loopPc = "run" /\ loopPc' = "poll" /\ functors = << >>
        /\ UNCHANGED <<state, channelVars, functors, pending, inMap, removals,
                       calls, userPc, ups, downs>>
    BY <1>6 DEF EndBatch, ownerVars, historyVars
  <2>2. ups # 0 /\ (Up \/ Down)
    BY <2>1 DEF LifeInv, Unborn
  <2>3. \A op : Queued(op)' <=> Queued(op)
    BY <2>1 DEF Queued, In
  <2>4. CASE Up
    BY <2>1, <2>2, <2>3, <2>4, LifeUp DEF Up, channelVars
  <2>5. CASE Down
    BY <2>1, <2>2, <2>3, <2>5, LifeDown DEF channelVars
  <2> QED BY <2>2, <2>4, <2>5
<1> QED BY <1>1, <1>3, <1>4, <1>5, <1>6 DEF RunFunctor

\* The loop thread in a callback of the user.
LEMMA LifeLoopUser ==
  ASSUME ConnInv, ConnectionAssumption, LifeInv, LoopUser
  PROVE  LifeInv'
<1>1. /\ inUser
      /\ UNCHANGED <<loopPc, revents, functors, inMap, removals, calls, userPc,
                     ups, downs>>
  BY DEF LoopUser, LoopSend, LoopShutdown, loopVars, queueVars, ownerVars,
         historyVars
<1>2. ups # 0 /\ (Up \/ Down)
  BY <1>1 DEF LifeInv, Unborn
<1>3. loopPc' # "run" => functors' = << >>
  BY <1>1 DEF LifeInv
<1>4. CASE \E m \in Messages : LoopSend(m)
  <2>1. PICK m \in Messages : LoopSend(m)
    BY <1>4
  <2>2. state' = state
    BY <2>1 DEF LoopSend
  <2>3. CASE state = "connected"
    <3>1. Up /\ SendInLoop(m)
      BY <1>2, <2>1, <2>3 DEF Down, LoopSend
    <3>2. /\ index' = "added" /\ reading' = TRUE
          /\ \A op : Queued(op)' => Queued(op) \/ op \in {"complete", "highWater"}
      BY <1>1, <3>1, LifeSend
    <3> QED BY <1>1, <1>2, <1>3, <2>2, <3>1, <3>2, LifeUp DEF Up, LifeInv
  <2>4. CASE state # "connected"
    <3>1. UNCHANGED <<channelVars, pending>>
      BY <2>1, <2>4 DEF LoopSend
    <3>2. \A op : Queued(op)' <=> Queued(op)
      BY <1>1, <3>1 DEF Queued, In
    <3>3. CASE Up
      BY <1>1, <1>2, <1>3, <2>2, <3>1, <3>2, <3>3, LifeUp
         DEF Up, LifeInv, channelVars
    <3>4. CASE Down
      <4>1. loopPc' \notin {"close", "read"}
        BY <1>1, <3>4 DEF Down
      <4> QED BY <1>1, <1>2, <1>3, <2>2, <3>1, <3>2, <3>4, <4>1, LifeDown
              DEF channelVars
    <3> QED BY <1>2, <3>3, <3>4
  <2> QED BY <2>3, <2>4
<1>5. CASE LoopShutdown
  <2>1. /\ state = "connected" /\ state' = "disconnecting"
        /\ UNCHANGED <<channelVars, pending>>
    BY <1>5 DEF LoopShutdown, queueVars
  <2>2. Up
    BY <1>2, <2>1 DEF Down
  <2>3. \A op : Queued(op)' <=> Queued(op)
    BY <1>1, <2>1 DEF Queued, In
  <2> QED BY <1>1, <1>2, <1>3, <2>1, <2>2, <2>3, LifeUp DEF Up, LifeInv, channelVars
<1> QED BY <1>4, <1>5 DEF LoopUser

\* The poller's part of a loop's iteration.
LEMMA LifePoll ==
  ASSUME ConnInv, LifeInv, PollChannel \/ PollOther
  PROVE  LifeInv'
<1>1. /\ loopPc = "poll" /\ functors = << >>
      /\ UNCHANGED <<state, channelVars, inUser, ups, downs, inMap, removals,
                     calls, userPc, hasRef>>
  BY DEF PollChannel, PollOther, LifeInv, ownerVars, historyVars
<1>2. CASE PollChannel
  <2>1. /\ loopPc' = "close" /\ index = "added" /\ functors' = functors
        /\ pending' = pending
    BY <1>2 DEF PollChannel, queueVars
  <2>2. ups # 0 /\ Up
    BY <2>1 DEF LifeInv, Unborn, Down
  <2>3. "HUP" \in revents' => "IN" \in revents'
    <3>1. PICK room : revents' = Readiness(room)
      BY <1>2 DEF PollChannel
    <3>2. reading = TRUE
      BY <2>2 DEF Up
    <3> QED BY <3>1, <3>2 DEF Readiness
  <2>4. \A op : Queued(op)' => Queued(op)
    BY <2>1, QueueCut
  <2> QED BY <1>1, <2>1, <2>2, <2>3, <2>4, LifeUp DEF Up, channelVars
<1>3. CASE PollOther
  <2>1. loopPc' = "run" /\ functors' = pending /\ pending' = << >>
    BY <1>3 DEF PollOther
  <2>2. \A op : Queued(op)' <=> Queued(op)
    BY <1>1, <2>1 DEF Queued, In
  <2>3. CASE ups = 0
    <3>1. Unborn /\ pending = <<Functor("established")>>
      BY <1>1, <2>3 DEF LifeInv, Unborn
    <3>2. Unborn'
      BY <1>1, <2>1, <3>1 DEF Unborn, channelVars
    <3>3. \A kind : Caller(kind)' <=> Caller(kind)
      BY <1>1 DEF Caller
    <3>4. CallsInv'
      BY <1>1, <2>2, <3>3 DEF LifeInv, CallsInv
    <3> QED BY <1>1, <2>1, <2>3, <3>2, <3>4 DEF LifeInv
  <2>4. CASE ups # 0 /\ Up
    BY <1>1, <2>1, <2>2, <2>4, LifeUp DEF Up, channelVars
  <2>5. CASE ups # 0 /\ Down
    BY <1>1, <2>1, <2>2, <2>5, LifeDown DEF channelVars
  <2> QED BY <2>3, <2>4, <2>5 DEF LifeInv
<1> QED BY <1>2, <1>3

\* Other threads: what a user queues or stores, it may call.
LEMMA LifeOther ==
  ASSUME ConnInv, ConnectionAssumption, LifeInv, NEW u \in Users, User(u)
  PROVE  LifeInv'
<1>1. /\ UNCHANGED <<channelVars, loopPc, revents, inUser, functors, inMap,
                     removals, calls, ups, downs>>
      /\ hasRef[u] \/ userPc[u] # "idle"
  <2>1. CASE \E m \in Messages : UserSend(u, m)
    BY <2>1 DEF UserSend, loopVars, queueVars, ownerVars
  <2>2. CASE UserShutdown(u) \/ UserSetState(u) \/ UserQueueShutdown(u)
    BY <2>2 DEF UserShutdown, UserSetState, UserQueueShutdown, loopVars,
                queueVars, ownerVars, historyVars
  <2>3. CASE UserQueueSend(u)
    <3>1. userPc[u] # "idle"
      BY <2>3 DEF UserQueueSend, ConnectionAssumption
    <3> QED BY <2>3, <3>1 DEF UserQueueSend, loopVars, queueVars, ownerVars,
                              historyVars
  <2>4. CASE UserDrop(u)
    BY <2>4 DEF UserDrop, loopVars, queueVars, historyVars
  <2> QED BY <2>1, <2>2, <2>3, <2>4 DEF User, UserFinish
<1>2. ups # 0 /\ ups = 1 /\ ~Queued("established") /\ (Up \/ Down)
  BY <1>1 DEF LifeInv, Unborn
<1>3. \A kind : Caller(kind)' <=> Caller(kind)
  BY <1>1 DEF Caller
<1>4. /\ userPc \in [Users -> Messages \cup {"idle", "setState", "queue"}]
      /\ \A v \in Users : /\ userPc[v] \in Messages => Caller("send")
                          /\ userPc[v] \in {"setState", "queue"}
                               => Caller("shutdown")
  BY DEF LifeInv, CallsInv
<1>5. /\ \A op : Queued(op)' => \/ Queued(op)
                                 \/ (op = "send" /\ Caller("send"))
                                 \/ (op = "shutdown")
      /\ \A op : Queued(op) => Queued(op)'
  <2>1. CASE pending' = pending
    <3>1. \A op : Queued(op)' <=> Queued(op)
      BY <1>1, <2>1 DEF Queued, In
    <3> QED BY <3>1
  <2>2. CASE UserQueueSend(u)
    <3> DEFINE f == [op |-> "send", msg |-> userPc[u]]
    <3>1. f \in FunctorSet /\ f.op = "send" /\ Caller("send")
      BY <2>2, <1>4 DEF UserQueueSend, FunctorSet
    <3>2. pending' = Append(pending, f)
      BY <2>2 DEF UserQueueSend
    <3> HIDE DEF f
    <3>3. \A op : Queued(op)' <=> Queued(op) \/ f.op = op
      BY <1>1, <3>1, <3>2, QueueAppend
    <3> QED BY <3>1, <3>3
  <2>3. CASE UserQueueShutdown(u)
    <3>1. Functor("shutdown") \in FunctorSet /\ Functor("shutdown").op = "shutdown"
      BY DEF Functor, FunctorSet
    <3>2. \A op : Queued(op)' <=> Queued(op) \/ Functor("shutdown").op = op
      BY <1>1, <2>3, <3>1, QueueAppend DEF UserQueueShutdown
    <3>3. \A op : Queued(op)' <=> Queued(op) \/ op = "shutdown"
      BY <3>1, <3>2
    <3> QED BY <3>3
  <2> QED BY <2>1, <2>2, <2>3 
          DEF User, UserFinish, UserSend, UserShutdown, UserSetState, UserDrop,
              queueVars
<1>6. /\ state' = state \/ (state' = "disconnecting" /\ Caller("shutdown"))
      /\ userPc' \in [Users -> Messages \cup {"idle", "setState", "queue"}]
      /\ \A v \in Users : /\ userPc'[v] \in Messages => Caller("send")
                          /\ userPc'[v] \in {"setState", "queue"}
                               => Caller("shutdown")
  <2>1. ASSUME NEW m \in Messages, UserSend(u, m)
        PROVE  state' = state /\ Caller("send")
               /\ (userPc' = userPc \/ userPc' = [userPc EXCEPT ![u] = m])
    BY <2>1 DEF UserSend, Caller
  <2>2. CASE \E m \in Messages : UserSend(u, m)
    <3>1. PICK m \in Messages : UserSend(u, m)
      BY <2>2
    <3>2. m \notin {"setState", "queue"}
      BY DEF ConnectionAssumption
    <3> QED BY <2>1, <3>1, <3>2, <1>4
  <2>3. CASE UserShutdown(u)
    <3>1. state' = state /\ Caller("shutdown")
          /\ userPc' = [userPc EXCEPT ![u] = "setState"]
      BY <2>3 DEF UserShutdown, Caller
    <3> QED BY <3>1, <1>4 DEF ConnectionAssumption
  <2>4. CASE UserSetState(u)
    <3>1. state' = "disconnecting" /\ Caller("shutdown")
          /\ userPc' = [userPc EXCEPT ![u] = "queue"]
      BY <2>4, <1>4 DEF UserSetState
    <3> QED BY <3>1, <1>4 DEF ConnectionAssumption
  <2>5. CASE UserQueueSend(u) \/ UserQueueShutdown(u)
    <3>1. state' = state /\ userPc' = [userPc EXCEPT ![u] = "idle"]
      BY <2>5 DEF UserQueueSend, UserQueueShutdown
    <3> QED BY <3>1, <1>4 DEF ConnectionAssumption
  <2>6. CASE UserDrop(u)
    BY <2>6, <1>4 DEF UserDrop
  <2> QED BY <2>2, <2>3, <2>4, <2>5, <2>6 DEF User, UserFinish
<1>7. Up \/ Down => Up' \/ Down'
  BY <1>1, <1>3, <1>5, <1>6 DEF Up, Down, channelVars
<1>8. CallsInv'
  BY <1>3, <1>5, <1>6 DEF LifeInv, CallsInv
<1> QED BY <1>1, <1>2, <1>5, <1>7, <1>8 DEF LifeInv

\* The server's thread lets go of a connection that went down.
LEMMA LifeServer ==
  ASSUME ConnInv, LifeInv, ServerRemove
  PROVE  LifeInv'
<1>1. /\ removals > 0 /\ removals' = removals - 1
      /\ pending' = Append(pending, Functor("destroyed"))
      /\ UNCHANGED <<state, channelVars, loopPc, revents, inUser, functors,
                     calls, userPc, ups, downs>>
  BY DEF ServerRemove, loopVars, historyVars
<1>2. Functor("destroyed") \in FunctorSet /\ Functor("destroyed").op = "destroyed"
  BY DEF Functor, FunctorSet
<1>3. \A op : Queued(op)' <=> Queued(op) \/ Functor("destroyed").op = op
  BY <1>1, <1>2, QueueAppend
<1>4. ups # 0 /\ ups = 1 /\ ~Queued("established") /\ Down
  BY <1>1 DEF LifeInv, Unborn, Up
<1>5. \A kind : Caller(kind)' <=> Caller(kind)
  BY <1>1 DEF Caller
<1>6. Down'
  BY <1>1, <1>2, <1>3, <1>4, <1>5 DEF Down, channelVars
<1>7. CallsInv'
  BY <1>1, <1>2, <1>3, <1>5 DEF LifeInv, CallsInv
<1> QED BY <1>1, <1>2, <1>3, <1>4, <1>6, <1>7 DEF LifeInv

LEMMA NextLifeInv ==
  ASSUME ConnInv, ConnectionAssumption, LifeInv, OneKindOfCall, [Next]_vars
  PROVE  LifeInv'
<1>1. CASE EndUser \/ Peer \/ UNCHANGED vars
  BY <1>1, LifeQuiet
     DEF EndUser, Peer, PeerSend, PeerClose, PeerReset, vars, channelVars,
         loopVars, queueVars, ownerVars, historyVars
<1> QED BY <1>1, LifePoll, LifeDispatch, LifeFunctor, LifeLoopUser, LifeOther,
           LifeServer DEF Next

LEMMA CallsNeverChange == [Next]_vars => UNCHANGED calls
BY DEF Next, vars, PollChannel, PollOther, Dispatch, EventClose, EventRead,
       EventWrite, Swap, RunFunctor, ConnectEstablished, ConnectDestroyed,
       RunSend, RunShutdown, RunNotice, StartFunctor, EndBatch, LoopUser,
       LoopSend, LoopShutdown, EndUser, User, UserFinish, UserSend,
       UserQueueSend, UserShutdown, UserSetState, UserQueueShutdown, UserDrop,
       ServerRemove, Peer, PeerSend, PeerClose, PeerReset, ownerVars

LEMMA LifeInvHolds == Spec => [](OneKindOfCall => LifeInv)
<1>1. Init => LifeInv
  <2> SUFFICES ASSUME Init PROVE LifeInv
    OBVIOUS
  <2>1. Functor("established") \in FunctorSet /\ Functor("established").op = "established"
    BY DEF Functor, FunctorSet
  <2>2. functors = << >> /\ pending = <<Functor("established")>>
    BY DEF Init
  <2>3. ~Queued("send")
    BY <2>1, <2>2 DEF Queued, In
  <2>4. CallsInv
    BY <2>3, ConnectionAssumption DEF Init, CallsInv, ConnectionAssumption
  <2>5. Unborn
    BY DEF Init, Unborn
  <2> QED BY <2>4, <2>5 DEF Init, LifeInv
<1>2. ConnInv /\ (OneKindOfCall => LifeInv) /\ [Next]_vars
        => (OneKindOfCall => LifeInv)'
  <2>1. OneKindOfCall' /\ [Next]_vars => OneKindOfCall
    BY CallsNeverChange DEF OneKindOfCall
  <2> QED BY <2>1, NextLifeInv, ConnectionAssumption
<1> QED BY <1>1, <1>2, ConnInvHolds, PTL DEF Spec

-----------------------------------------------------------------------------
(* Theorems.                                                               *)

\* The type invariant: the channel asks for write events only while there is
\* output, and is then in the poller (TcpConnection.cc:118-134, 185-207).
THEOREM ConnectionTypeCorrect == Spec => []TypeOK
<1>1. Init => Typed /\ CallbackInv
  BY DEF Init, Typed, CallbackInv
<1>2. Typed /\ CallbackInv /\ [Next]_vars => (Typed /\ CallbackInv)'
  BY NextTyped, NextCallbackInv
<1>3. ConnInv /\ Typed /\ CallbackInv => TypeOK
  BY DEF ConnInv, DataInv, WatchInv, Typed, CallbackInv, TypeOK
<1> QED BY <1>1, <1>2, <1>3, ConnInvHolds, PTL DEF Spec

\* No partial write, in send() or in handleWrite(), loses, repeats or swaps a
\* unit of the stream (TcpConnection.cc:91-134, 185-192).
THEOREM StreamIsInOrder == Spec => []StreamInOrder
<1>1. ConnInv => StreamInOrder
  BY DEF ConnInv, DataInv
<1> QED BY <1>1, ConnInvHolds, PTL

\* While the connection is up there is output exactly when the poller watches
\* for room to write it (TcpConnection.cc:112-134, 191-192).
THEOREM OutputStaysWatched == Spec => []OutputIsWatched
<1>1. ConnInv => OutputIsWatched
  BY DEF ConnInv, WatchInv, RemovalInv, OutputIsWatched
<1> QED BY <1>1, ConnInvHolds, PTL

\* FIN never overtakes buffered output (TcpConnection.cc:136-149, 199-201).
THEOREM FinFollowsData == Spec => []FinAfterData
<1>1. ConnInv => FinAfterData
  BY DEF ConnInv
<1> QED BY <1>1, ConnInvHolds, PTL

\* If other threads send or shut down, but not both, the user is told once that
\* the connection is up, then at most once that it is down, and before the
\* channel leaves the poller (TcpConnection.cc:152-169, 210-218).
THEOREM ReportedDownOnce == Spec => [](OneKindOfCall => DownOnce)
<1>1. LifeInv => DownOnce
  BY DEF LifeInv, Unborn, Up, Down, DownOnce
<1> QED BY <1>1, LifeInvHolds, PTL

\* With the same users, the poller has forgotten the channel when the last
\* owner of the connection lets go (TcpConnection.cc:162-169,
\* TcpServer.cc:107-116).
THEOREM RemovedWhenFreed == Spec => [](OneKindOfCall => FreedIsRemoved)
<1>1. ConnInv /\ LifeInv => FreedIsRemoved
  <2> SUFFICES ASSUME ConnInv, LifeInv, Freed PROVE index = "new"
    BY DEF FreedIsRemoved
  <2>1. ~inMap /\ \A f \in Range(functors) \cup Range(pending) : ~Owns(f)
    BY DEF Freed
  <2>2. ~Queued("destroyed")
    <3>1. functors \in Seq(FunctorSet) /\ pending \in Seq(FunctorSet)
      BY QueueTypes
    <3>2. \A q \in Seq(FunctorSet) : \A i \in 1..Len(q) : q[i] \in Range(q)
      BY DEF Range
    <3> QED BY <2>1, <3>1, <3>2 DEF Queued, In, Owns
  <2> QED BY <2>1, <2>2 DEF LifeInv, Unborn, Up, Down
<1> QED BY <1>1, ConnInvHolds, LifeInvHolds, PTL
=============================================================================

--------------------------- MODULE LibraryProofs ---------------------------
(***************************************************************************)
(* Theorems about mymuduo's Buffer, the logger of mprpc, the memory pool    *)
(* and the sequential programs, for all values of the constants and, where  *)
(* a program has an input, for every input.                                *)
(***************************************************************************)
EXTENDS Library, ProtobufProofs, FunctionTheorems, TLAPS

-----------------------------------------------------------------------------
(* Buffer.                                                                 *)

Memories == UNION {Memory(size) : size \in Nat}

Valid(b) ==
  /\ b \in [mem : Memories, size : Nat, reader : Nat, writer : Nat]
  /\ b.mem \in Memory(b.size)
  /\ kCheapPrepend <= b.reader /\ b.reader <= b.writer /\ b.writer <= b.size

Members == {"mem", "size", "reader", "writer"}

\* A buffer is known by its members.
LEMMA ByMembers ==
  ASSUME NEW b, b = [x \in Members |-> b[x]]
  PROVE  b = [mem |-> b.mem, size |-> b.size, reader |-> b.reader,
              writer |-> b.writer]
BY DEF Members

\* A valid buffer is the record of its members.
LEMMA HasMembers ==
  ASSUME NEW b, Valid(b)
  PROVE  /\ b = [x \in Members |-> b[x]]
         /\ b = [mem |-> b.mem, size |-> b.size, reader |-> b.reader,
                 writer |-> b.writer]
BY DEF Valid, Members

\* The readable part of a buffer is a sequence of characters.
LEMMA ReadableIsSequence ==
  ASSUME BufferAssumption, NEW b, Valid(b)
  PROVE  /\ Readable(b) \in Seq(Chars)
         /\ Len(Readable(b)) = b.writer - b.reader
         /\ \A i \in 1..(b.writer - b.reader) :
              Readable(b)[i] = b.mem[b.reader + i - 1]
<1>1. b.writer - b.reader \in Nat
  BY DEF Valid
<1>2. \A i \in 1..(b.writer - b.reader) : b.mem[b.reader + i - 1] \in Chars
  BY DEF Valid, Memory
<1>3. Readable(b) = [i \in 1..(b.writer - b.reader) |-> b.mem[b.reader + i - 1]]
  BY DEF Readable, readableBytes
<1> QED BY <1>1, <1>2, <1>3

\* A sequence cut in two.
LEMMA Halves ==
  ASSUME NEW S, NEW s \in Seq(S), NEW n \in 0..Len(s)
  PROVE  /\ SubSeq(s, 1, n) \in Seq(S) /\ Len(SubSeq(s, 1, n)) = n
         /\ SubSeq(s, n + 1, Len(s)) \in Seq(S)
         /\ Len(SubSeq(s, n + 1, Len(s))) = Len(s) - n
         /\ \A i \in 1..(Len(s) - n) : SubSeq(s, n + 1, Len(s))[i] = s[n + i]
         /\ SubSeq(s, 1, n) \o SubSeq(s, n + 1, Len(s)) = s
<1> DEFINE a == SubSeq(s, 1, n)
           b == SubSeq(s, n + 1, Len(s))
<1>1. Len(s) \in Nat /\ n \in Nat
  OBVIOUS
<1>2. a \in Seq(S) /\ Len(a) = n /\ \A i \in 1..n : a[i] = s[i]
  BY <1>1
<1>3. /\ b \in Seq(S) /\ Len(b) = Len(s) - n
      /\ \A i \in 1..(Len(s) - n) : b[i] = s[n + i]
  BY <1>1
<1> HIDE DEF a, b
<1>4. a \o b = s
  <2>1. /\ a \o b \in Seq(S) /\ Len(a \o b) = Len(s)
        /\ \A i \in 1..Len(s) : (a \o b)[i] = IF i <= n THEN a[i] ELSE b[i - n]
    <3>1. Len(a) + Len(b) = Len(s)
      BY <1>1, <1>2, <1>3
    <3> QED BY <1>2, <1>3, <3>1, ConcatProperties
  <2>2. ASSUME NEW i \in 1..Len(s)
        PROVE  (a \o b)[i] = s[i]
    <3>1. CASE i <= n
      BY <3>1, <1>1, <1>2, <2>1
    <3>2. CASE i > n
      <4>1. i - n \in 1..(Len(s) - n) /\ n + (i - n) = i /\ ~(i <= n)
        BY <3>2, <1>1
      <4>2. b[i - n] = s[n + (i - n)]
        BY <4>1, <1>3
      <4> QED BY <2>1, <4>1, <4>2
    <3>3. i <= n \/ i > n
      BY <1>1
    <3> QED BY <3>1, <3>2, <3>3, Zenon
  <2> QED BY <2>1, <2>2, SeqEqual
<1> QED BY <1>2, <1>3, <1>4 DEF a, b

\* Data that fits is appended to what can be read.
LEMMA CopyIn ==
  ASSUME BufferAssumption, NEW b, Valid(b), NEW data \in Seq(Chars),
         Len(data) <= writableBytes(b),
         NEW c, c = [b EXCEPT !.mem = Copied(b.mem, b.writer, data),
                              !.writer = b.writer + Len(data)]
  PROVE  /\ Valid(c) /\ c.size = b.size /\ c.reader = b.reader
         /\ c.writer = b.writer + Len(data)
         /\ Readable(c) = Readable(b) \o data
<1>1. /\ c = [mem |-> Copied(b.mem, b.writer, data), size |-> b.size,
              reader |-> b.reader, writer |-> b.writer + Len(data)]
      /\ b.writer + Len(data) <= b.size
      /\ Len(data) \in Nat
      /\ b.size \in Nat /\ b.reader \in Nat /\ b.writer \in Nat
      /\ kCheapPrepend <= b.reader /\ b.reader <= b.writer
      /\ b.writer <= b.size
  <2>1. /\ Len(data) \in Nat
        /\ b.size \in Nat /\ b.reader \in Nat /\ b.writer \in Nat
        /\ kCheapPrepend <= b.reader /\ b.reader <= b.writer
        /\ b.writer <= b.size
    BY DEF Valid
  <2>2. b.writer + Len(data) <= b.size
    BY <2>1 DEF writableBytes
  <2>3. /\ c.mem = Copied(b.mem, b.writer, data) /\ c.size = b.size
        /\ c.reader = b.reader /\ c.writer = b.writer + Len(data)
        /\ c = [x \in Members |-> c[x]]
    <3>1. b = [x \in Members |-> b[x]]
      BY HasMembers
    <3> QED BY <3>1 DEF Members
  <2> QED BY <2>1, <2>2, <2>3, ByMembers
<1>2. /\ c.mem \in Memory(b.size)
      /\ \A i \in 0..(b.writer - 1) : c.mem[i] = b.mem[i]
      /\ \A i \in 1..Len(data) : c.mem[b.writer + i - 1] = data[i]
  <2>1. DOMAIN b.mem = 0..(b.size - 1)
    BY DEF Valid, Memory
  <2>2. c.mem = [i \in 0..(b.size - 1) |->
                   IF i \in b.writer..(b.writer + Len(data) - 1)
                   THEN data[i - b.writer + 1] ELSE b.mem[i]]
    BY <1>1, <2>1 DEF Copied
  <2>3. ASSUME NEW i \in 0..(b.size - 1)
        PROVE  c.mem[i] \in Chars
    <3>1. CASE i \in b.writer..(b.writer + Len(data) - 1)
      <4>1. i - b.writer + 1 \in 1..Len(data)
        BY <1>1, <3>1
      <4>2. data[i - b.writer + 1] \in Chars
        BY <4>1
      <4> QED BY <2>2, <3>1, <4>2
    <3>2. CASE ~(i \in b.writer..(b.writer + Len(data) - 1))
      BY <2>2, <3>2 DEF Valid, Memory
    <3> QED BY <3>1, <3>2
  <2>4. ASSUME NEW i \in 1..Len(data)
        PROVE  c.mem[b.writer + i - 1] = data[i]
    <3>1. /\ b.writer + i - 1 \in 0..(b.size - 1)
          /\ b.writer + i - 1 \in b.writer..(b.writer + Len(data) - 1)
          /\ (b.writer + i - 1) - b.writer + 1 = i
      BY <1>1 DEF Valid
    <3> QED BY <2>2, <3>1
  <2>5. \A i \in 0..(b.writer - 1) : c.mem[i] = b.mem[i]
    BY <1>1, <2>2 DEF Valid
  <2> QED BY <2>2, <2>3, <2>4, <2>5 DEF Memory
<1>3. /\ Valid(c) /\ c.size = b.size /\ c.reader = b.reader
      /\ c.writer = b.writer + Len(data)
  <2>1. c.mem \in Memories
    BY <1>1, <1>2 DEF Memories
  <2> QED BY <1>1, <1>2, <2>1 DEF Valid
<1>4. /\ Readable(b) \in Seq(Chars) /\ Len(Readable(b)) = b.writer - b.reader
      /\ \A i \in 1..(b.writer - b.reader) :
           Readable(b)[i] = b.mem[b.reader + i - 1]
  BY ReadableIsSequence
<1>5. /\ Readable(c) \in Seq(Chars)
      /\ Len(Readable(c)) = (b.writer + Len(data)) - b.reader
      /\ \A i \in 1..((b.writer + Len(data)) - b.reader) :
           Readable(c)[i] = c.mem[b.reader + i - 1]
  <2>1. /\ Readable(c) \in Seq(Chars) /\ Len(Readable(c)) = c.writer - c.reader
        /\ \A i \in 1..(c.writer - c.reader) :
             Readable(c)[i] = c.mem[c.reader + i - 1]
    BY <1>3, ReadableIsSequence
  <2>2. c.writer - c.reader = (b.writer + Len(data)) - b.reader /\ c.reader = b.reader
    BY <1>3, Zenon
  <2> QED BY <2>1, <2>2, Zenon
<1>6. /\ Readable(b) \o data \in Seq(Chars)
      /\ Len(Readable(b) \o data) = b.writer - b.reader + Len(data)
      /\ \A i \in 1..(b.writer - b.reader + Len(data)) :
           (Readable(b) \o data)[i] =
             IF i <= b.writer - b.reader THEN Readable(b)[i]
             ELSE data[i - (b.writer - b.reader)]
  <2> DEFINE r == Readable(b)
  <2>1. r \in Seq(Chars) /\ Len(r) = b.writer - b.reader
    BY <1>4
  <2> HIDE DEF r
  <2>2. /\ r \o data \in Seq(Chars) /\ Len(r \o data) = Len(r) + Len(data)
        /\ \A i \in 1..(Len(r) + Len(data)) :
             (r \o data)[i] = IF i <= Len(r) THEN r[i] ELSE data[i - Len(r)]
    BY <2>1, ConcatProperties
  <2>3. /\ r \o data \in Seq(Chars)
        /\ Len(r \o data) = b.writer - b.reader + Len(data)
        /\ \A i \in 1..(b.writer - b.reader + Len(data)) :
             (r \o data)[i] = IF i <= b.writer - b.reader THEN r[i]
                              ELSE data[i - (b.writer - b.reader)]
    BY <2>1, <2>2
  <2> QED BY <2>3 DEF r
<1>7. Len(Readable(c)) = Len(Readable(b) \o data)
  BY <1>1, <1>5, <1>6 DEF Valid
<1>8. ASSUME NEW i \in 1..Len(Readable(c))
      PROVE  Readable(c)[i] = (Readable(b) \o data)[i]
  <2>1. i \in 1..(b.writer - b.reader + Len(data)) /\ i \in Nat
        /\ i \in 1..((b.writer + Len(data)) - b.reader)
    BY <1>1, <1>5 DEF Valid
  <2>2. CASE i <= b.writer - b.reader
    <3>1. b.reader + i - 1 \in 0..(b.writer - 1) /\ i \in 1..(b.writer - b.reader)
      BY <2>1, <2>2 DEF Valid
    <3> QED BY <1>2, <1>4, <1>5, <1>6, <2>1, <2>2, <3>1
  <2>3. CASE ~(i <= b.writer - b.reader)
    <3> DEFINE j == i - (b.writer - b.reader)
    <3>1. j \in 1..Len(data) /\ b.writer + j - 1 = b.reader + i - 1
      BY <1>1, <2>1, <2>3 DEF Valid
    <3>2. c.mem[b.writer + j - 1] = data[j]
      BY <1>2, <3>1
    <3>3. (Readable(b) \o data)[i] = data[j]
      BY <1>6, <2>1, <2>3
    <3> QED BY <1>5, <2>1, <3>1, <3>2, <3>3
  <2> QED BY <2>2, <2>3
<1> QED BY <1>3, <1>5, <1>6, <1>7, <1>8, SeqEqual

\* More room changes nothing of what can be read.
LEMMA RoomIsMade ==
  ASSUME BufferAssumption, NEW b, Valid(b), NEW len \in Nat,
         NEW e, e = ensureWriteableBytes(b, len)
  PROVE  Valid(e) /\ len <= writableBytes(e) /\ Readable(e) = Readable(b)
<1>1. CASE ~(writableBytes(b) < len)
  BY <1>1 DEF ensureWriteableBytes, Valid, writableBytes
<1>2. ASSUME Valid(e), e.writer - e.reader = b.writer - b.reader,
             \A i \in 1..(b.writer - b.reader) :
               e.mem[e.reader + i - 1] = b.mem[b.reader + i - 1]
      PROVE  Readable(e) = Readable(b)
  BY <1>2 DEF Readable, readableBytes
<1>3. CASE /\ writableBytes(b) < len
           /\ writableBytes(b) + prependableBytes(b) < len + kCheapPrepend
  <2>1. e = [mem |-> [i \in 0..((b.writer + len) - 1) |->
                        IF i < b.size THEN b.mem[i] ELSE 0],
             size |-> b.writer + len, reader |-> b.reader, writer |-> b.writer]
    <3>1. e = resize(b, b.writer + len)
      BY <1>3 DEF ensureWriteableBytes, makeSpace
    <3>2. b = [x \in Members |-> b[x]]
      BY HasMembers
    <3>3. /\ e.size = b.writer + len /\ e.reader = b.reader
          /\ e.writer = b.writer /\ e = [x \in Members |-> e[x]]
          /\ e.mem = [i \in 0..((b.writer + len) - 1) |->
                        IF i < b.size THEN b.mem[i] ELSE 0]
      <4> DEFINE f == [i \in 0..((b.writer + len) - 1) |->
                         IF i < b.size THEN b.mem[i] ELSE 0]
      <4>1. e = [b EXCEPT !.size = b.writer + len, !.mem = f]
        BY <3>1 DEF resize
      <4> HIDE DEF f
      <4>2. /\ e.size = b.writer + len /\ e.reader = b.reader
            /\ e.writer = b.writer /\ e = [x \in Members |-> e[x]] /\ e.mem = f
        BY <3>2, <4>1 DEF Members
      <4> QED BY <4>2 DEF f
    <3> QED BY <3>3, ByMembers
  <2>2. b.size <= b.writer + len
    BY <1>3 DEF Valid, writableBytes
  <2>3. Valid(e) /\ len <= writableBytes(e)
    <3>1. \A i \in 0..((b.writer + len) - 1) : e.mem[i] \in Chars
      BY <2>1, <2>2, BufferAssumption DEF Valid, Memory, BufferAssumption
    <3>2. b.writer + len \in Nat
      BY DEF Valid
    <3>3. e.mem \in Memory(e.size) /\ e.mem \in Memories
      <4>1. /\ e.mem = [i \in 0..((b.writer + len) - 1) |-> e.mem[i]]
            /\ e.size = b.writer + len
        BY <2>1
      <4>2. e.mem \in Memory(b.writer + len)
        BY <3>1, <4>1 DEF Memory
      <4> QED BY <3>2, <4>1, <4>2 DEF Memories
    <3> QED BY <2>1, <2>2, <3>2, <3>3 DEF Valid, writableBytes
  <2>4. \A i \in 1..(b.writer - b.reader) :
          e.mem[e.reader + i - 1] = b.mem[b.reader + i - 1]
    BY <2>1, <2>2 DEF Valid
  <2> QED BY <1>2, <2>1, <2>3, <2>4
<1>4. CASE /\ writableBytes(b) < len
           /\ ~(writableBytes(b) + prependableBytes(b) < len + kCheapPrepend)
  <2> DEFINE n == b.writer - b.reader
             r == Readable(b)
  <2>1. n \in Nat /\ r \in Seq(Chars) /\ Len(r) = n
        /\ \A i \in 1..n : r[i] = b.mem[b.reader + i - 1]
    BY ReadableIsSequence DEF Valid
  <2>2. DOMAIN b.mem = 0..(b.size - 1)
    BY DEF Valid, Memory
  <2>3. e = [mem |-> [i \in 0..(b.size - 1) |->
                        IF i \in kCheapPrepend..(kCheapPrepend + n - 1)
                        THEN r[i - kCheapPrepend + 1] ELSE b.mem[i]],
             size |-> b.size, reader |-> kCheapPrepend,
             writer |-> kCheapPrepend + n]
    <3>1. e = [b EXCEPT !.mem = Copied(b.mem, kCheapPrepend, Readable(b)),
                        !.reader = kCheapPrepend,
                        !.writer = kCheapPrepend + readableBytes(b)]
      BY <1>4 DEF ensureWriteableBytes, makeSpace
    <3>2. /\ e.size = b.size /\ e.reader = kCheapPrepend
          /\ e.writer = kCheapPrepend + n /\ e = [x \in Members |-> e[x]]
          /\ e.mem = Copied(b.mem, kCheapPrepend, r)
      <4>1. b = [x \in Members |-> b[x]]
        BY HasMembers
      <4> QED BY <3>1, <4>1 DEF readableBytes, Members
    <3>3. Copied(b.mem, kCheapPrepend, r)
            = [i \in 0..(b.size - 1) |->
                 IF i \in kCheapPrepend..(kCheapPrepend + n - 1)
                 THEN r[i - kCheapPrepend + 1] ELSE b.mem[i]]
      BY <2>1, <2>2 DEF Copied
    <3> QED BY <3>2, <3>3, ByMembers
  <2> HIDE DEF r
  <2>4. kCheapPrepend + n + len <= b.size
    BY <1>4 DEF writableBytes, prependableBytes, Valid, BufferAssumption
  <2>5. \A i \in 0..(b.size - 1) : e.mem[i] \in Chars
    <3> SUFFICES ASSUME NEW i \in 0..(b.size - 1) PROVE e.mem[i] \in Chars
      OBVIOUS
    <3>1. CASE i \in kCheapPrepend..(kCheapPrepend + n - 1)
      <4>1. i - kCheapPrepend + 1 \in 1..n
        BY <2>1, <3>1 DEF BufferAssumption
      <4>2. r[i - kCheapPrepend + 1] \in Chars
        BY <2>1, <4>1
      <4> QED BY <2>3, <3>1, <4>2
    <3>2. CASE ~(i \in kCheapPrepend..(kCheapPrepend + n - 1))
      BY <2>3, <3>2 DEF Valid, Memory
    <3> QED BY <3>1, <3>2
  <2>6. Valid(e) /\ len <= writableBytes(e)
    <3>1. e.mem \in Memory(b.size) /\ b.size \in Nat
      <4>1. e.mem = [i \in 0..(b.size - 1) |-> e.mem[i]]
        <5> DEFINE f == [i \in 0..(b.size - 1) |->
                           IF i \in kCheapPrepend..(kCheapPrepend + n - 1)
                           THEN r[i - kCheapPrepend + 1] ELSE b.mem[i]]
        <5>1. f = [i \in 0..(b.size - 1) |-> f[i]]
          OBVIOUS
        <5>2. e.mem = f
          BY <2>3
        <5> HIDE DEF f
        <5> QED BY <5>1, <5>2, Zenon
      <4> QED BY <4>1, <2>5 DEF Memory, Valid
    <3>2. e.mem \in Memories
      BY <3>1 DEF Memories
    <3>3. kCheapPrepend + n \in Nat /\ kCheapPrepend + n <= b.size
      BY <2>1, <2>4 DEF BufferAssumption, Valid
    <3> HIDE DEF n
    <3> QED BY <2>1, <2>3, <2>4, <3>1, <3>2, <3>3
            DEF Valid, writableBytes, BufferAssumption
  <2>7. ASSUME NEW i \in 1..n
        PROVE  e.mem[e.reader + i - 1] = b.mem[b.reader + i - 1]
    <3>1. /\ kCheapPrepend + i - 1 \in 0..(b.size - 1)
          /\ kCheapPrepend + i - 1 \in kCheapPrepend..(kCheapPrepend + n - 1)
          /\ (kCheapPrepend + i - 1) - kCheapPrepend + 1 = i
      <4>1. n \in Nat /\ i \in 1..n /\ kCheapPrepend \in Nat /\ b.size \in Nat
        BY <2>1, <2>7 DEF BufferAssumption, Valid
      <4> HIDE DEF n
      <4> QED BY <2>4, <4>1
    <3> QED BY <2>1, <2>3, <3>1
  <2>8. e.writer - e.reader = n
    BY <2>1, <2>3 DEF BufferAssumption
  <2> QED BY <1>2, <2>6, <2>7, <2>8
<1> QED BY <1>1, <1>3, <1>4

\* append() puts its characters behind the readable ones.
LEMMA AppendIsFifo ==
  ASSUME BufferAssumption, NEW b, Valid(b), NEW data \in Seq(Chars)
  PROVE  /\ Valid(append(b, data))
         /\ Readable(append(b, data)) = Readable(b) \o data
<1> DEFINE e == ensureWriteableBytes(b, Len(data))
<1>1. Valid(e) /\ Len(data) <= writableBytes(e) /\ Readable(e) = Readable(b)
  <2>1. Len(data) \in Nat
    OBVIOUS
  <2> QED BY <2>1, RoomIsMade
<1>2. append(b, data) = [e EXCEPT !.mem = Copied(e.mem, e.writer, data),
                                  !.writer = e.writer + Len(data)]
  BY DEF append
<1> HIDE DEF e
<1> DEFINE c == append(b, data)
<1>3. c = [e EXCEPT !.mem = Copied(e.mem, e.writer, data),
                    !.writer = e.writer + Len(data)]
  BY <1>2
<1> HIDE DEF c
<1>4. Valid(c) /\ Readable(c) = Readable(e) \o data
  BY <1>1, <1>3, CopyIn
<1>5. Valid(c) /\ Readable(c) = Readable(b) \o data
  BY <1>1, <1>4
<1> QED BY <1>5 DEF c

\* retrieve() takes the first readable characters, or all of them.
LEMMA RetrieveIsFifo ==
  ASSUME BufferAssumption, NEW b, Valid(b), NEW len \in Nat
  PROVE  /\ Valid(retrieve(b, len))
         /\ Readable(retrieve(b, len))
              = SubSeq(Readable(b), len + 1, Len(Readable(b)))
<1> DEFINE n == b.writer - b.reader
           c == retrieve(b, len)
           r == Readable(b)
<1>1. /\ b = [x \in Members |-> b[x]]
      /\ b.size \in Nat /\ b.reader \in Nat /\ b.writer \in Nat /\ n \in Nat
      /\ b.mem \in Memory(b.size) /\ b.mem \in Memories
      /\ kCheapPrepend <= b.reader /\ b.reader <= b.writer /\ b.writer <= b.size
  BY HasMembers DEF Valid
<1>2. r \in Seq(Chars) /\ Len(r) = n
      /\ \A i \in 1..n : r[i] = b.mem[b.reader + i - 1]
  BY ReadableIsSequence
<1>3. CASE len < n
  <2>1. /\ c.mem = b.mem /\ c.size = b.size /\ c.reader = b.reader + len
        /\ c.writer = b.writer /\ c = [x \in Members |-> c[x]]
    BY <1>1, <1>3 DEF retrieve, readableBytes, Members
  <2> HIDE DEF c, r
  <2>2. Valid(c)
    BY <1>1, <1>3, <2>1, ByMembers DEF Valid
  <2>3. /\ Readable(c) \in Seq(Chars) /\ Len(Readable(c)) = n - len
        /\ \A i \in 1..(n - len) : Readable(c)[i] = b.mem[b.reader + len + i - 1]
    <3>1. /\ Readable(c) \in Seq(Chars)
          /\ Len(Readable(c)) = c.writer - c.reader
          /\ \A i \in 1..(c.writer - c.reader) :
               Readable(c)[i] = c.mem[c.reader + i - 1]
      BY <2>2, ReadableIsSequence
    <3>2. c.writer - c.reader = n - len
      BY <1>1, <2>1
    <3>3. \A i \in 1..(n - len) : c.reader + i - 1 = b.reader + len + i - 1
      BY <1>1, <2>1
    <3> QED BY <2>1, <3>1, <3>2, <3>3
  <2>4. /\ SubSeq(r, len + 1, Len(r)) \in Seq(Chars)
        /\ Len(SubSeq(r, len + 1, Len(r))) = n - len
        /\ \A i \in 1..(n - len) : SubSeq(r, len + 1, Len(r))[i] = r[len + i]
    <3>1. len \in 0..Len(r)
      BY <1>1, <1>2, <1>3
    <3> QED BY <1>2, <3>1, Halves
  <2>5. \A i \in 1..(n - len) : Readable(c)[i] = SubSeq(r, len + 1, Len(r))[i]
    <3> SUFFICES ASSUME NEW i \in 1..(n - len)
                 PROVE  Readable(c)[i] = SubSeq(r, len + 1, Len(r))[i]
      OBVIOUS
    <3>1. len + i \in 1..n /\ b.reader + (len + i) - 1 = b.reader + len + i - 1
      BY <1>1, <1>3
    <3> QED BY <1>2, <2>3, <2>4, <3>1
  <2>6. Readable(c) = SubSeq(r, len + 1, Len(r))
    BY <2>3, <2>4, <2>5, SeqEqual
  <2> QED BY <2>2, <2>6 DEF c, r
<1>4. CASE ~(len < n)
  <2>1. /\ c.mem = b.mem /\ c.size = b.size /\ c.reader = kCheapPrepend
        /\ c.writer = kCheapPrepend /\ c = [x \in Members |-> c[x]]
    BY <1>1, <1>4 DEF retrieve, retrieveAll, readableBytes, Members
  <2> HIDE DEF c, r
  <2>2. Valid(c)
    BY <1>1, <2>1, ByMembers DEF Valid, BufferAssumption
  <2>3. Readable(c) = << >>
    <3>1. c.writer - c.reader = 0
      BY <2>1 DEF BufferAssumption
    <3>2. Readable(c) \in Seq(Chars) /\ Len(Readable(c)) = c.writer - c.reader
      BY <2>2, ReadableIsSequence
    <3> QED BY <3>1, <3>2, EmptySeq
  <2>4. SubSeq(r, len + 1, Len(r)) = << >>
    BY <1>1, <1>2, <1>4
  <2> QED BY <2>2, <2>3, <2>4 DEF c, r
<1> QED BY <1>3, <1>4

\* readFd() appends what the descriptor gave, the excess included.
LEMMA ReadFdIsFifo ==
  ASSUME BufferAssumption, NEW b, Valid(b), NEW data \in Seq(Chars)
  PROVE  /\ Valid(readFd(b, data))
         /\ Readable(readFd(b, data)) = Readable(b) \o data
<1> DEFINE w == writableBytes(b)
<1>1. w \in Nat /\ b.writer + w = b.size /\ Len(data) \in Nat
  BY DEF writableBytes, Valid
<1>2. CASE Len(data) < w
  <2> DEFINE c == [b EXCEPT !.mem = Copied(b.mem, b.writer, data),
                            !.writer = b.writer + Len(data)]
  <2>1. readFd(b, data) = c
    BY <1>2 DEF readFd
  <2>2. Len(data) <= w
    BY <1>1, <1>2
  <2>3. Valid(c) /\ Readable(c) = Readable(b) \o data
    BY <2>2, CopyIn
  <2> QED BY <2>1, <2>3
<1>3. CASE ~(Len(data) < w)
  <2> DEFINE first == SubSeq(data, 1, w)
             rest == SubSeq(data, w + 1, Len(data))
             c == [b EXCEPT !.mem = Copied(b.mem, b.writer, first),
                            !.writer = b.writer + Len(first)]
  <2>1. w \in 0..Len(data)
    BY <1>1, <1>3
  <2>2. /\ first \in Seq(Chars) /\ Len(first) = w /\ rest \in Seq(Chars)
        /\ first \o rest = data
    BY <2>1, Halves
  <2>3. readFd(b, data) = append(c, rest)
    BY <1>1, <1>3, <2>2 DEF readFd
  <2>4. Valid(c) /\ Readable(c) = Readable(b) \o first
    <3> HIDE DEF first
    <3>1. Len(first) <= w
      BY <1>1, <2>2
    <3> QED BY <2>2, <3>1, CopyIn
  <2> HIDE DEF c, rest, first
  <2>5. /\ Valid(append(c, rest))
        /\ Readable(append(c, rest)) = (Readable(b) \o first) \o rest
    BY <2>2, <2>4, AppendIsFifo
  <2>6. (Readable(b) \o first) \o rest = Readable(b) \o data
    <3>1. Readable(b) \in Seq(Chars)
      BY ReadableIsSequence
    <3>2. \A x, y, z \in Seq(Chars) : (x \o y) \o z = x \o (y \o z)
      BY ConcatAssociative
    <3>3. (Readable(b) \o first) \o rest = Readable(b) \o (first \o rest)
      BY <2>2, <3>1, <3>2
    <3> QED BY <2>2, <3>3
  <2> QED BY <2>3, <2>5, <2>6
<1> QED BY <1>2, <1>3

\* A buffer is a queue of bytes, whenever it moves them or grows
\* (Buffer.h:38-73, 97-113, Buffer.cc:7-33).
THEOREM BufferIsQueue == BufferSpec => []BufferIsFifo
<1> DEFINE Inv == /\ Valid(buffer) /\ content \in Seq(Chars)
                  /\ Readable(buffer) = content
<1>1. BufferInit => Inv
  <2> SUFFICES ASSUME BufferInit PROVE Inv
    OBVIOUS
  <2> DEFINE size == kCheapPrepend + kInitialSize
             m == [i \in 0..(kCheapPrepend + kInitialSize - 1) |-> 0]
  <2>1. /\ size \in Nat /\ kCheapPrepend \in Nat /\ kCheapPrepend <= size
        /\ 0 \in Chars
    BY BufferAssumption DEF BufferAssumption
  <2>2. m \in Memory(size)
    <3>1. kCheapPrepend + kInitialSize - 1 = size - 1
      BY BufferAssumption DEF BufferAssumption
    <3> QED BY <2>1, <3>1 DEF Memory
  <2>3. /\ buffer = [mem |-> m, size |-> size, reader |-> kCheapPrepend,
                     writer |-> kCheapPrepend]
        /\ content = << >>
    BY DEF BufferInit
  <2> HIDE DEF m, size
  <2>4. m \in Memories
    BY <2>1, <2>2 DEF Memories
  <2>5. Valid(buffer)
    BY <2>1, <2>2, <2>3, <2>4 DEF Valid
  <2>6. Readable(buffer) \in Seq(Chars) /\ Len(Readable(buffer)) = 0
    <3>1. buffer.writer - buffer.reader = 0
      BY <2>1, <2>3
    <3> QED BY <2>5, <3>1, BufferAssumption, ReadableIsSequence
  <2> QED BY <2>3, <2>5, <2>6, EmptySeq
<1>2. Inv /\ [BufferNext]_bufferVars => Inv'
  <2> SUFFICES ASSUME Inv, [BufferNext]_bufferVars PROVE Inv'
    OBVIOUS
  <2>1. ASSUME NEW data \in Data, Append_(data) \/ ReadFd(data)
        PROVE  Inv'
    <3>1. data \in Seq(Chars)
      <4>1. PICK n \in 0..MaxReadable : data \in [1..n -> Chars]
        BY DEF Data
      <4> QED BY <4>1, BufferAssumption DEF BufferAssumption
    <3>2. /\ content' = content \o data
          /\ buffer' = append(buffer, data) \/ buffer' = readFd(buffer, data)
      BY <2>1 DEF Append_, ReadFd, Put
    <3>3. /\ Valid(append(buffer, data))
          /\ Readable(append(buffer, data)) = Readable(buffer) \o data
      BY <3>1, BufferAssumption, AppendIsFifo
    <3>4. /\ Valid(readFd(buffer, data))
          /\ Readable(readFd(buffer, data)) = Readable(buffer) \o data
      BY <3>1, BufferAssumption, ReadFdIsFifo
    <3>5. Valid(buffer') /\ Readable(buffer') = content'
      BY <3>2, <3>3, <3>4
    <3>6. content' \in Seq(Chars)
      BY <3>1, <3>2
    <3> QED BY <3>5, <3>6 DEF Valid, Readable, readableBytes
  <2>2. ASSUME NEW len \in 0..MaxReadable, Retrieve(len)
        PROVE  Inv'
    <3>1. len \in Nat
      BY BufferAssumption DEF BufferAssumption
    <3>2. /\ Valid(buffer')
          /\ Readable(buffer') = SubSeq(content, len + 1, Len(content))
      BY <2>2, <3>1, BufferAssumption, RetrieveIsFifo DEF Retrieve
    <3>3. content' = SubSeq(content, len + 1, Len(content))
      BY <2>2 DEF Retrieve
    <3>4. content' \in Seq(Chars)
      BY <3>1, <3>3
    <3> QED BY <3>2, <3>3, <3>4 DEF Valid, Readable, readableBytes
  <2>3. ASSUME NEW len \in 0..MaxReadable, EnsureWriteableBytes(len)
        PROVE  Inv'
    <3>1. len \in Nat
      BY BufferAssumption DEF BufferAssumption
    <3>2. buffer' = ensureWriteableBytes(buffer, len) /\ content' = content
      BY <2>3 DEF EnsureWriteableBytes
    <3>3. Valid(buffer') /\ Readable(buffer') = content'
      BY <3>1, <3>2, BufferAssumption, RoomIsMade
    <3> QED BY <3>2, <3>3 DEF Valid, Readable, readableBytes
  <2>4. CASE UNCHANGED bufferVars
    BY <2>4 DEF bufferVars, Valid, Readable, readableBytes
  <2> QED BY <2>1, <2>2, <2>3, <2>4 DEF BufferNext
<1>3. Inv => BufferIsFifo
  BY DEF Valid, BufferIsFifo
<1> QED BY <1>1, <1>2, <1>3, PTL DEF BufferSpec

-----------------------------------------------------------------------------
(* The logger.                                                             *)

LogMessages == [level : Levels, by : Loggers]
Records == [message : LogMessages, file : Nat, label : Levels, written : Nat]

\* Where the writer is, it holds a message or none.
WriterInv ==
  /\ writerPc \in {"open", "pop", "write", "gone"}
  /\ message \in LogMessages \cup {NoMessage}
  /\ writerPc = "write" => message # NoMessage
  /\ writerPc \in {"open", "pop"} => message = NoMessage

LoggerTyped ==
  /\ logLevel \in Levels
  /\ macro \in [Loggers -> Levels \cup {"none"}]
  /\ today \in Nat /\ fileDay \in Nat
  /\ logQueue \in Seq(LogMessages) /\ pushed \in Seq(LogMessages)
  /\ logged \in Seq(Records)

Held == IF message = NoMessage THEN << >> ELSE <<message>>
OrderInv == pushed = (Messages(logged) \o Held) \o logQueue

\* The file the writer has opened is of a day no earlier than the last record,
\* until it writes.
DayInv ==
  /\ fileDay <= today
  /\ \A i \in 1..Len(logged) :
       /\ logged[i].file <= logged[i].written
       /\ logged[i].written <= today
       /\ i > 1 => logged[i - 1].written <= logged[i].file
  /\ writerPc \in {"pop", "write"} =>
       \A i \in 1..Len(logged) : logged[i].written <= fileDay

\* Only one level has been used, and it is the logger's.
Only(level) == /\ \A i \in 1..Len(pushed) : pushed[i].level = level
               /\ \A t \in Loggers : macro[t] \in {"none", level}
Begun == pushed # << >> \/ \E t \in Loggers : macro[t] # "none"
LabelInv ==
  \A level \in Levels :
    Only(level) => /\ Begun => logLevel = level
                   /\ \A i \in 1..Len(logged) : logged[i].label = level

LoggerInv == WriterInv /\ LoggerTyped /\ OrderInv /\ DayInv /\ LabelInv

\* No message has the level of NoMessage.
LEMMA NoMessageIsNone ==
  /\ NoMessage \notin LogMessages
  /\ "none" \notin Levels
BY DEF NoMessage, LogMessages, Levels

\* The messages of a list of queued lines are messages.
LEMMA MessagesTyped ==
  ASSUME NEW q \in Seq(Records)
  PROVE  /\ Messages(q) \in Seq(LogMessages) /\ Len(Messages(q)) = Len(q)
         /\ \A i \in 1..Len(q) : Messages(q)[i] = q[i].message
<1>1. \A i \in 1..Len(q) : q[i].message \in LogMessages
  <2>1. \A i \in 1..Len(q) : q[i] \in Records
    OBVIOUS
  <2> QED BY <2>1 DEF Records
<1>2. Messages(q) = [i \in 1..Len(q) |-> q[i].message]
  BY DEF Messages
<1> QED BY <1>1, <1>2

\* The message of a line that is appended is the last one.
LEMMA MessagesAppended ==
  ASSUME NEW r \in Seq(Records), NEW x \in Records
  PROVE  Messages(Append(r, x)) = Messages(r) \o <<x.message>>
<1>1. \A q \in Seq(Records) :
        /\ Messages(q) \in Seq(LogMessages) /\ Len(Messages(q)) = Len(q)
        /\ \A i \in 1..Len(q) : Messages(q)[i] = q[i].message
  BY MessagesTyped
<1>2. /\ Append(r, x) \in Seq(Records) /\ Len(Append(r, x)) = Len(r) + 1
      /\ \A i \in 1..Len(r) : Append(r, x)[i] = r[i]
      /\ Append(r, x)[Len(r) + 1] = x
  BY AppendProperties
<1> DEFINE m == Messages(r)
           a == Messages(Append(r, x))
           c == m \o <<x.message>>
<1>3. x.message \in LogMessages
  BY DEF Records
<1>4. m \in Seq(LogMessages) /\ Len(m) = Len(r)
      /\ \A i \in 1..Len(r) : m[i] = r[i].message
  BY <1>1
<1>5. a \in Seq(LogMessages) /\ Len(a) = Len(r) + 1
      /\ \A i \in 1..(Len(r) + 1) : a[i] = Append(r, x)[i].message
  <2> HIDE DEF a
  <2>1. Append(r, x) \in Seq(Records)
    BY <1>2
  <2>2. /\ a \in Seq(LogMessages) /\ Len(a) = Len(Append(r, x))
        /\ \A i \in 1..Len(Append(r, x)) : a[i] = Append(r, x)[i].message
    BY <1>1, <2>1 DEF a
  <2> QED BY <1>2, <2>2
<1> HIDE DEF a, m
<1>6. /\ c \in Seq(LogMessages) /\ Len(c) = Len(r) + 1
      /\ \A i \in 1..Len(r) : c[i] = m[i]
      /\ c[Len(r) + 1] = x.message
  BY <1>3, <1>4
<1> HIDE DEF c
<1>7. \A i \in 1..(Len(r) + 1) : a[i] = c[i]
  <2> SUFFICES ASSUME NEW i \in 1..(Len(r) + 1) PROVE a[i] = c[i]
    OBVIOUS
  <2>1. CASE i = Len(r) + 1
    <3>1. Len(r) + 1 \in 1..(Len(r) + 1)
      BY <1>4
    <3>2. a[Len(r) + 1] = Append(r, x)[Len(r) + 1].message
      BY <1>5, <3>1
    <3>3. a[Len(r) + 1] = x.message /\ c[Len(r) + 1] = x.message
      BY <1>2, <1>6, <3>2, Zenon
    <3> QED BY <2>1, <3>3, Zenon
  <2>2. CASE i # Len(r) + 1
    <3>1. i \in 1..Len(r)
      BY <2>2
    <3> QED BY <1>2, <1>4, <1>5, <1>6, <3>1
  <2> QED BY <2>1, <2>2
<1> QED BY <1>4, <1>5, <1>6, <1>7, SeqEqual DEF a, m, c

\* Steps that neither push nor write.
LEMMA SetLogLevelKeepsInv ==
  ASSUME LoggerInv, NEW t \in Loggers, NEW level \in Levels,
         SetLogLevel(t, level)
  PROVE  LoggerInv'
<1> USE DEF LoggerInv
<1>1. /\ macro[t] = "none" /\ logLevel' = level
      /\ macro' = [macro EXCEPT ![t] = level]
      /\ UNCHANGED <<logQueue, writerPc, fileDay, message, today, pushed, logged>>
  BY DEF SetLogLevel
<1>2. WriterInv' /\ OrderInv' /\ DayInv'
  BY <1>1 DEF WriterInv, OrderInv, DayInv, Held, Messages
<1>3. LoggerTyped'
  BY <1>1 DEF LoggerTyped
<1>4. LabelInv'
  <2> SUFFICES ASSUME NEW other \in Levels, Only(other)'
               PROVE  /\ logLevel' = other
                      /\ \A i \in 1..Len(logged') : logged'[i].label = other
    BY DEF LabelInv
  <2>1. macro \in [Loggers -> Levels \cup {"none"}]
    BY DEF LoggerTyped
  <2>2. other = level
    BY <1>1, <2>1, NoMessageIsNone DEF Only
  <2>3. Only(other)
    BY <1>1, <2>1 DEF Only
  <2> QED BY <1>1, <2>2, <2>3 DEF LabelInv
<1> QED BY <1>2, <1>3, <1>4

\* A logger that queues a line keeps the invariant.
LEMMA LogKeepsInv ==
  ASSUME LoggerInv, NEW t \in Loggers, Log(t)
  PROVE  LoggerInv'
<1> USE DEF LoggerInv
<1> DEFINE msg == [level |-> macro[t], by |-> t]
<1>1. /\ macro[t] # "none"
      /\ logQueue' = Append(logQueue, msg) /\ pushed' = Append(pushed, msg)
      /\ macro' = [macro EXCEPT ![t] = "none"]
      /\ UNCHANGED <<logLevel, writerPc, fileDay, message, today, logged>>
  BY DEF Log
<1>2. msg \in LogMessages
  BY <1>1 DEF LoggerTyped, LogMessages
<1>3. WriterInv' /\ DayInv'
  BY <1>1 DEF WriterInv, DayInv
<1>4. LoggerTyped'
  <2> HIDE DEF msg
  <2> QED BY <1>1, <1>2 DEF LoggerTyped
<1>5. OrderInv'
  <2> HIDE DEF msg
  <2>1. /\ pushed \in Seq(LogMessages) /\ logQueue \in Seq(LogMessages)
        /\ Held \in Seq(LogMessages)
    BY DEF LoggerTyped, WriterInv, Held
  <2>2. \A a, b \in Seq(LogMessages) :
          Append(a \o b, msg) = a \o Append(b, msg)
    BY <1>2
  <2>3. Messages(logged) \o Held \in Seq(LogMessages)
    BY <2>1, MessagesTyped DEF LoggerTyped
  <2>4. Messages(logged)' = Messages(logged) /\ Held' = Held
    BY <1>1 DEF Messages, Held
  <2> QED BY <1>1, <2>1, <2>2, <2>3, <2>4 DEF OrderInv
<1>6. LabelInv'
  <2> SUFFICES ASSUME NEW level \in Levels, Only(level)'
               PROVE  /\ logLevel' = level
                      /\ \A i \in 1..Len(logged') : logged'[i].label = level
    BY DEF LabelInv
  <2>1. /\ macro \in [Loggers -> Levels \cup {"none"}]
        /\ pushed \in Seq(LogMessages)
    BY DEF LoggerTyped
  <2>2. /\ Len(pushed') = Len(pushed) + 1 /\ pushed'[Len(pushed) + 1] = msg
        /\ \A i \in 1..Len(pushed) : pushed'[i] = pushed[i]
    <3> HIDE DEF msg
    <3> QED BY <1>1, <1>2, <2>1, AppendProperties
  <2>3. macro[t] = level
    <3>1. pushed'[Len(pushed) + 1].level = level
      BY <2>1, <2>2 DEF Only
    <3> QED BY <2>2, <3>1
  <2>4. Only(level)
    <3>1. \A i \in 1..Len(pushed) : pushed[i].level = level
      BY <2>1, <2>2 DEF Only
    <3>2. \A u \in Loggers : macro[u] \in {"none", level}
      BY <1>1, <2>1, <2>3 DEF Only
    <3> QED BY <3>1, <3>2 DEF Only
  <2>5. Begun
    BY <1>1 DEF Begun
  <2> QED BY <1>1, <2>4, <2>5 DEF LabelInv
<1> QED BY <1>3, <1>4, <1>5, <1>6

\* So does one whose level is not logged.
LEMMA QuietKeepsLogger ==
  ASSUME LoggerInv, OpenFile \/ Midnight \/ LoggerExit \/ UNCHANGED loggerVars
  PROVE  LoggerInv'
<1> USE DEF LoggerInv
<1>1. /\ UNCHANGED <<logLevel, logQueue, macro, message, pushed, logged>>
      /\ \/ writerPc = "open" /\ fileDay' = today /\ writerPc' = "pop" /\ today' = today
         \/ today' = today + 1 /\ UNCHANGED <<writerPc, fileDay>>
         \/ writerPc' = "gone" /\ UNCHANGED <<today, fileDay>>
         \/ UNCHANGED <<writerPc, fileDay, today>>
  BY DEF OpenFile, Midnight, LoggerExit, loggerVars
<1>2. WriterInv' /\ LoggerTyped' /\ OrderInv'
  <2>1. WriterInv'
    BY <1>1 DEF WriterInv
  <2>2. LoggerTyped'
    BY <1>1 DEF LoggerTyped
  <2>3. OrderInv'
    BY <1>1 DEF OrderInv, Held, Messages
  <2> QED BY <2>1, <2>2, <2>3
<1>3. LabelInv'
  BY <1>1 DEF LabelInv, Only, Begun
<1>4. \A i \in 1..Len(logged) : logged[i] \in Records
  BY DEF LoggerTyped
<1>5. DayInv'
  BY <1>1, <1>4 DEF DayInv, LoggerTyped, Records
<1> QED BY <1>2, <1>3, <1>5

\* The writing thread that takes a line keeps the invariant.
LEMMA PopKeepsInv ==
  ASSUME LoggerInv, Pop
  PROVE  LoggerInv'
<1> USE DEF LoggerInv
<1>1. /\ writerPc = "pop" /\ logQueue # << >> /\ message' = Head(logQueue)
      /\ logQueue' = Tail(logQueue) /\ writerPc' = "write"
      /\ UNCHANGED <<logLevel, macro, fileDay, today, pushed, logged>>
  BY DEF Pop
<1>2. /\ logQueue \in Seq(LogMessages) /\ Head(logQueue) \in LogMessages
      /\ Tail(logQueue) \in Seq(LogMessages)
      /\ logQueue = <<Head(logQueue)>> \o Tail(logQueue)
  BY <1>1 DEF LoggerTyped
<1>3. message = NoMessage /\ message' # NoMessage
  BY <1>1, <1>2, NoMessageIsNone DEF WriterInv
<1>4. WriterInv' /\ LoggerTyped'
  BY <1>1, <1>2, <1>3 DEF WriterInv, LoggerTyped
<1>5. LabelInv' /\ DayInv'
  BY <1>1 DEF LabelInv, Only, Begun, DayInv
<1>6. OrderInv'
  <2> DEFINE m == Messages(logged)
  <2>1. m \in Seq(LogMessages)
    BY MessagesTyped DEF LoggerTyped
  <2>2. Held = << >> /\ Held' = <<Head(logQueue)>>
    BY <1>1, <1>3 DEF Held
  <2>3. (m \o << >>) \o logQueue = (m \o <<Head(logQueue)>>) \o Tail(logQueue)
    <3> HIDE DEF m
    <3>1. \A a, b, c \in Seq(LogMessages) : a \o (b \o c) = (a \o b) \o c
      BY ConcatAssociative
    <3>2. m \o << >> = m
      BY <2>1, ConcatEmptySeq
    <3>3. <<Head(logQueue)>> \in Seq(LogMessages)
      BY <1>2
    <3>4. m \o (<<Head(logQueue)>> \o Tail(logQueue))
            = (m \o <<Head(logQueue)>>) \o Tail(logQueue)
      BY <1>2, <2>1, <3>1, <3>3
    <3> QED BY <1>2, <3>2, <3>4
  <2>4. m' = m
    BY <1>1 DEF Messages
  <2> QED BY <1>1, <2>2, <2>3, <2>4 DEF OrderInv
<1> QED BY <1>4, <1>5, <1>6

\* The writing thread that writes it to a file keeps the invariant.
LEMMA WriteKeepsInv ==
  ASSUME LoggerInv, Write
  PROVE  LoggerInv'
<1> USE DEF LoggerInv
<1> DEFINE n == Len(logged)
           r == [message |-> message, file |-> fileDay, label |-> logLevel,
                 written |-> today]
<1>1. /\ writerPc = "write" /\ logged' = Append(logged, r)
      /\ message' = NoMessage /\ writerPc' = "open"
      /\ UNCHANGED <<logLevel, logQueue, macro, fileDay, today, pushed>>
  BY DEF Write
<1>2. message \in LogMessages /\ message # NoMessage
  BY <1>1 DEF WriterInv
<1>3. r \in Records
  BY <1>2 DEF Records, LoggerTyped
<1>4. /\ r.message = message /\ r.file = fileDay /\ r.label = logLevel
      /\ r.written = today
  OBVIOUS
<1> HIDE DEF r
<1>5. /\ logged \in Seq(Records) /\ n \in Nat
      /\ \A i \in 1..n : logged[i] \in Records
      /\ logged' \in Seq(Records) /\ Len(logged') = n + 1
      /\ \A i \in 1..n : logged'[i] = logged[i]
      /\ logged'[n + 1] = r
  BY <1>1, <1>3, AppendProperties DEF LoggerTyped
<1>6. WriterInv' /\ LoggerTyped'
  BY <1>1, <1>5 DEF WriterInv, LoggerTyped
<1>7. OrderInv'
  <2>1. Messages(logged') = Messages(logged) \o <<message>>
    BY <1>1, <1>3, <1>4, <1>5, MessagesAppended
  <2>2. Held = <<message>> /\ Held' = << >>
    BY <1>1, <1>2 DEF Held
  <2>3. Messages(logged') \o << >> = Messages(logged')
    BY <1>5, MessagesTyped, ConcatEmptySeq
  <2>4. Messages(logged)' = Messages(logged')
    BY DEF Messages
  <2> QED BY <1>1, <2>1, <2>2, <2>3, <2>4 DEF OrderInv
<1>8. DayInv'
  <2>1. fileDay \in Nat /\ today \in Nat /\ fileDay <= today
    BY DEF DayInv, LoggerTyped
  <2>2. \A i \in 1..n : /\ logged[i].file <= logged[i].written
                        /\ logged[i].written <= today
                        /\ i > 1 => logged[i - 1].written <= logged[i].file
                        /\ logged[i].written <= fileDay
    BY <1>1 DEF DayInv
  <2>3. ASSUME NEW i \in 1..(n + 1)
        PROVE  /\ logged'[i].file <= logged'[i].written
               /\ logged'[i].written <= today
               /\ i > 1 => logged'[i - 1].written <= logged'[i].file
    <3>1. i > 1 => i - 1 \in 1..n
      BY <1>5
    <3>2. CASE i \in 1..n
      BY <1>5, <2>2, <3>1, <3>2
    <3>3. CASE i = n + 1
      <4>1. i > 1 => logged[i - 1].written <= fileDay
        BY <2>2, <3>1
      <4> QED BY <1>4, <1>5, <2>1, <3>1, <3>3, <4>1
    <3> QED BY <1>5, <3>2, <3>3
  <2> QED BY <1>1, <1>5, <2>1, <2>3 DEF DayInv
<1>9. LabelInv'
  <2> SUFFICES ASSUME NEW level \in Levels, Only(level)'
               PROVE  /\ logLevel' = level
                      /\ \A i \in 1..Len(logged') : logged'[i].label = level
    BY DEF LabelInv
  <2>1. Only(level)
    BY <1>1 DEF Only
  <2>2. Begun
    <3>1. Held = <<message>>
      BY <1>2 DEF Held
    <3>2. <<message>> \in Seq(LogMessages) /\ Len(<<message>>) = 1
      BY <1>2
    <3>3. Messages(logged) \in Seq(LogMessages) /\ logQueue \in Seq(LogMessages)
      BY MessagesTyped DEF LoggerTyped
    <3>4. Len((Messages(logged) \o <<message>>) \o logQueue) > 0
      BY <3>2, <3>3
    <3>5. pushed = (Messages(logged) \o <<message>>) \o logQueue
      BY <3>1 DEF OrderInv
    <3>6. Len(<< >>) = 0
      OBVIOUS
    <3> QED BY <3>4, <3>5, <3>6 DEF Begun
  <2>3. logLevel = level /\ \A i \in 1..n : logged[i].label = level
    BY <2>1, <2>2 DEF LabelInv
  <2>4. ASSUME NEW i \in 1..(n + 1)
        PROVE  logged'[i].label = level
    <3>1. CASE i \in 1..n
      BY <1>5, <2>3, <3>1
    <3>2. CASE i = n + 1
      BY <1>4, <1>5, <2>3, <3>2
    <3> QED BY <1>5, <3>1, <3>2
  <2> QED BY <1>1, <1>5, <2>3, <2>4
<1> QED BY <1>6, <1>7, <1>8, <1>9

\* Messages are written once, in the order in which they were pushed, under
\* days that never go back, and with a wrong label only if both levels have
\* been logged, however threads, writer and midnight interleave
\* (lockqueue.h:13-31, logger.cc:15-42, logger.h:31-49).
THEOREM LoggerKeepsOrder == LoggerSpec => []LogInOrder
<1>1. LoggerInit => LoggerInv
  <2> SUFFICES ASSUME LoggerInit PROVE LoggerInv
    OBVIOUS
  <2>1. /\ logQueue = << >> /\ pushed = << >> /\ logged = << >>
        /\ message = NoMessage
    BY DEF LoggerInit
  <2>2. Messages(logged) = << >>
    BY <2>1 DEF Messages
  <2>3. OrderInv
    BY <2>1, <2>2 DEF OrderInv, Held
  <2>4. LabelInv
    BY <2>1 DEF LoggerInit, LabelInv, Begun
  <2> QED BY <2>1, <2>3, <2>4
          DEF LoggerInit, LoggerInv, WriterInv, LoggerTyped, DayInv
<1>2. LoggerInv /\ [LoggerNext]_loggerVars => LoggerInv'
  BY SetLogLevelKeepsInv, LogKeepsInv, QuietKeepsLogger, PopKeepsInv,
     WriteKeepsInv DEF LoggerNext
<1>3. LoggerInv => LogInOrder
  <2> SUFFICES ASSUME LoggerInv PROVE LogInOrder
    OBVIOUS
  <2>1. DOMAIN logged = 1..Len(logged) /\ DOMAIN pushed = 1..Len(pushed)
    BY DEF LoggerInv, LoggerTyped
  <2>2. pushed = Messages(logged)
                   \o (IF message = NoMessage THEN << >> ELSE <<message>>)
                   \o logQueue
    BY DEF LoggerInv, OrderInv, Held
  <2>3. \A i \in DOMAIN logged :
          /\ logged[i].file <= logged[i].written
          /\ i > 1 => logged[i - 1].written <= logged[i].file
    BY <2>1 DEF LoggerInv, DayInv
  <2>4. ASSUME NEW level \in Levels,
               \A i \in DOMAIN pushed : pushed[i].level = level,
               \A t \in Loggers : macro[t] \in {"none", level}
        PROVE  \A i \in DOMAIN logged : logged[i].label = level
    BY <2>1, <2>4 DEF LoggerInv, LabelInv, Only
  <2> QED BY <2>2, <2>3, <2>4 DEF LogInOrder
<1> QED BY <1>1, <1>2, <1>3, PTL DEF LoggerSpec

-----------------------------------------------------------------------------
(* The memory pool.                                                        *)

PoolMembers == {"status", "size", "last", "larges", "cleanup", "handed",
                "heap", "leaked"}
Pieces == [from : Nat, to : Nat, align : BOOLEAN]
Entries == [at : Nat, alloc : Nat]

\* What was cut from the block lies before the next piece, and all of it
\* before last.
BlockInv(q) ==
  /\ q.size \in Nat /\ q.last \in Nat /\ q.handed \in Seq(Pieces)
  /\ PoolHeader <= q.size /\ PoolHeader <= q.last
  /\ q.size % Alignment = 0 => q.last <= q.size
  /\ \A i \in 1..Len(q.handed) :
       /\ PoolHeader <= q.handed[i].from /\ q.handed[i].to <= q.last
       /\ q.handed[i].align => q.handed[i].from % Alignment = 0
       /\ \A j \in 1..Len(q.handed) :
            i < j => q.handed[i].to <= q.handed[j].from

\* The entries of the list are cut from the block.
CutAt(q, at) == \E j \in 1..Len(q.handed) : /\ q.handed[j].from = at
                                          /\ q.handed[j].to = at + LargeHeader
ListInv(q) ==
  /\ q.larges \in Seq(Entries)
  /\ \A i \in 1..Len(q.larges) : CutAt(q, q.larges[i].at)

\* Each large block that is not lost is in one entry.
HeapInv(q) ==
  /\ q.heap \subseteq Nat \ {NullPtr} /\ IsFiniteSet(q.heap)
  /\ q.leaked \subseteq q.heap
  /\ \A i \in 1..Len(q.larges) :
       q.larges[i].alloc # NullPtr =>
         /\ q.larges[i].alloc \in q.heap \ q.leaked
         /\ \A j \in 1..Len(q.larges) :
              q.larges[j].alloc = q.larges[i].alloc => j = i
  /\ \A id \in q.heap \ q.leaked :
       \E i \in 1..Len(q.larges) : q.larges[i].alloc = id

Ready(q) == /\ DOMAIN q = PoolMembers /\ q.status = "ready"
            /\ BlockInv(q) /\ ListInv(q) /\ HeapInv(q)

PoolInv == \/ pool.status = "undefined"
           \/ Ready(pool)
           \/ /\ pool.status = "destroyed"
              /\ BlockInv(pool) /\ ListInv(pool) /\ pool.heap = pool.leaked

\* Aligned addresses are multiples, at the address or behind it.
LEMMA AlignUp ==
  ASSUME NEW m \in Nat
  PROVE  /\ AlignPtr(m) \in Nat /\ m <= AlignPtr(m)
         /\ AlignPtr(m) % Alignment = 0
         /\ \A n \in Nat : n % Alignment = 0 /\ m <= n => AlignPtr(m) <= n
BY SMTT(30) DEF AlignPtr, Alignment

\* There is a number for a large block that is not in use.
LEMMA FreshBlock ==
  ASSUME PoolAssumption, NEW heap, IsFiniteSet(heap),
         Cardinality(heap) <= MaxLarge
  PROVE  \E n \in 1..(MaxLarge + 1) : n \notin heap
<1> SUFFICES ASSUME 1..(MaxLarge + 1) \subseteq heap PROVE FALSE
  OBVIOUS
<1>1. MaxLarge \in Nat
  BY DEF PoolAssumption
<1>2. Cardinality(1..(MaxLarge + 1)) = MaxLarge + 1
  <2>1. 1 \in Int /\ MaxLarge + 1 \in Int /\ ~(1 > MaxLarge + 1)
    BY <1>1
  <2>2. Cardinality(1..(MaxLarge + 1)) = (MaxLarge + 1) - 1 + 1
    BY <2>1, FS_Interval
  <2> QED BY <1>1, <2>2
<1>3. Cardinality(1..(MaxLarge + 1)) <= Cardinality(heap)
  BY FS_Subset
<1>4. Cardinality(heap) \in Nat
  BY FS_CardinalityType
<1> QED BY <1>1, <1>2, <1>3, <1>4

\* A piece of the block.
LEMMA SmallIsCut ==
  ASSUME NEW q, DOMAIN q = PoolMembers, q.status = "ready", BlockInv(q),
         ListInv(q), NEW size \in Nat, NEW align \in BOOLEAN,
         NEW block \in BOOLEAN, NEW r, r = Small(q, size, align, block)
  PROVE  \/ /\ r.ptr = NullPtr
            /\ r.pool = q \/ r.pool.status = "undefined"
         \/ /\ r.ptr \in Nat \ {NullPtr}
            /\ DOMAIN r.pool = PoolMembers /\ r.pool.status = "ready"
            /\ BlockInv(r.pool) /\ ListInv(r.pool)
            /\ r.pool.larges = q.larges /\ r.pool.heap = q.heap
            /\ r.pool.leaked = q.leaked
            /\ size = LargeHeader => CutAt(r.pool, r.ptr)
<1> DEFINE m == IF align THEN AlignPtr(q.last) ELSE q.last
           p == [from |-> m, to |-> m + size, align |-> align]
           n == Len(q.handed)
<1>1. CASE ~Fits(q, m, size)
  <2>1. r = [pool |-> IF block THEN [q EXCEPT !.status = "undefined"] ELSE q,
             ptr |-> NullPtr]
    BY <1>1 DEF Small
  <2>2. [q EXCEPT !.status = "undefined"].status = "undefined"
    BY DEF PoolMembers
  <2> QED BY <2>1, <2>2
<1>2. CASE Fits(q, m, size)
  <2>1. /\ q.size \in Nat /\ q.last \in Nat /\ q.handed \in Seq(Pieces)
        /\ PoolHeader <= q.size /\ PoolHeader <= q.last /\ n \in Nat
    BY DEF BlockInv
  <2>2. /\ m \in Nat /\ q.last <= m
        /\ align => m % Alignment = 0
        /\ q.size % Alignment = 0 => m <= q.size
    BY <2>1, AlignUp DEF BlockInv
  <2> HIDE DEF m
  <2>3. p \in Pieces /\ p.from = m /\ p.to = m + size /\ p.align = align
    BY <2>2 DEF Pieces
  <2> HIDE DEF p
  <2> DEFINE c == [q EXCEPT !.last = m + size, !.handed = Append(q.handed, p)]
  <2>4. r = [pool |-> c, ptr |-> m]
    BY <1>2 DEF Small, m, p
  <2>5. /\ DOMAIN c = PoolMembers /\ c.status = "ready" /\ c.size = q.size
        /\ c.last = m + size /\ c.handed = Append(q.handed, p)
        /\ c.larges = q.larges /\ c.heap = q.heap /\ c.leaked = q.leaked
    BY DEF PoolMembers
  <2> HIDE DEF c
  <2>6. /\ c.handed \in Seq(Pieces) /\ Len(c.handed) = n + 1
        /\ \A i \in 1..n : c.handed[i] = q.handed[i] /\ c.handed[i] \in Pieces
        /\ c.handed[n + 1] = p
    BY <2>1, <2>3, <2>5, AppendProperties
  <2>7. \A i \in 1..n :
          /\ PoolHeader <= q.handed[i].from /\ q.handed[i].to <= q.last
          /\ q.handed[i].align => q.handed[i].from % Alignment = 0
          /\ q.handed[i].to \in Nat
          /\ \A j \in 1..n : i < j => q.handed[i].to <= q.handed[j].from
    BY <2>6 DEF BlockInv, Pieces
  <2>8. BlockInv(c)
    <3>1. c.last \in Nat /\ PoolHeader <= c.last /\ q.last <= c.last
      BY <2>1, <2>2, <2>5 DEF PoolHeader
    <3>2. c.size % Alignment = 0 => c.last <= c.size
      BY <1>2, <2>1, <2>2, <2>5 DEF Fits
    <3>3. ASSUME NEW i \in 1..(n + 1)
          PROVE  /\ PoolHeader <= c.handed[i].from /\ c.handed[i].to <= c.last
                 /\ c.handed[i].align => c.handed[i].from % Alignment = 0
      <4>1. CASE i \in 1..n
        <5>1. c.handed[i] = q.handed[i]
          BY <2>6, <4>1
        <5>2. /\ PoolHeader <= q.handed[i].from /\ q.handed[i].to <= q.last
              /\ q.handed[i].align => q.handed[i].from % Alignment = 0
              /\ q.handed[i].to \in Nat
          BY <2>7, <4>1
        <5>3. q.handed[i].to <= c.last
          BY <2>1, <3>1, <5>2
        <5> QED BY <5>1, <5>2, <5>3
      <4>2. CASE i = n + 1
        BY <2>1, <2>2, <2>3, <2>5, <2>6, <4>2 DEF PoolHeader
      <4> QED BY <2>1, <4>1, <4>2
    <3>4. ASSUME NEW i \in 1..(n + 1), NEW j \in 1..(n + 1), i < j
          PROVE  c.handed[i].to <= c.handed[j].from
      <4>1. i \in 1..n
        BY <2>1, <3>4
      <4>2. CASE j \in 1..n
        BY <2>6, <2>7, <3>4, <4>1, <4>2
      <4>3. CASE j = n + 1
        <5>1. c.handed[i] = q.handed[i] /\ c.handed[j] = p
          BY <2>6, <4>1, <4>3
        <5>2. q.handed[i].to <= q.last /\ q.handed[i].to \in Nat
          BY <2>7, <4>1
        <5>3. q.handed[i].to <= m
          BY <2>1, <2>2, <5>2
        <5> QED BY <2>3, <5>1, <5>3
      <4> QED BY <2>1, <4>2, <4>3
    <3> QED BY <2>1, <2>5, <2>6, <3>1, <3>2, <3>3, <3>4 DEF BlockInv
  <2>9. \A at : CutAt(q, at) => CutAt(c, at)
    BY <2>1, <2>6 DEF CutAt
  <2>10. ListInv(c)
    BY <2>5, <2>9 DEF ListInv
  <2>11. size = LargeHeader => CutAt(c, m)
    BY <2>1, <2>3, <2>6 DEF CutAt
  <2>12. m # NullPtr
    BY <2>1, <2>2 DEF PoolHeader, NullPtr
  <2>13. r.pool = c /\ r.ptr = m
    BY <2>4
  <2> QED BY <2>2, <2>5, <2>8, <2>10, <2>11, <2>12, <2>13
<1> QED BY <1>1, <1>2

\* An entry is used for a new block.
LEMMA EntryFilled ==
  ASSUME NEW q, Ready(q), NEW id \in Nat \ {NullPtr}, id \notin q.heap,
         NEW i \in 1..Len(q.larges), q.larges[i].alloc = NullPtr,
         NEW c, DOMAIN c = PoolMembers, c.status = "ready", c.size = q.size,
         c.last = q.last, c.handed = q.handed, c.leaked = q.leaked,
         c.heap = q.heap \cup {id},
         c.larges = [q.larges EXCEPT ![i].alloc = id]
  PROVE  Ready(c)
<1> DEFINE n == Len(q.larges)
<1> USE DEF Ready
<1>1. q.larges \in Seq(Entries) /\ n \in Nat
  BY DEF ListInv
<1>2. \A j \in 1..n : q.larges[j] \in Entries
  BY <1>1
<1>3. /\ c.larges \in Seq(Entries) /\ Len(c.larges) = n
      /\ \A j \in 1..n : /\ c.larges[j].at = q.larges[j].at
                         /\ j # i => c.larges[j].alloc = q.larges[j].alloc
      /\ c.larges[i].alloc = id
  <2> DEFINE e == [q.larges[i] EXCEPT !.alloc = id]
  <2>1. e \in Entries /\ e.at = q.larges[i].at /\ e.alloc = id
    BY <1>2 DEF Entries
  <2> HIDE DEF e
  <2>2. c.larges = [q.larges EXCEPT ![i] = e]
    BY DEF e
  <2>3. /\ c.larges \in Seq(Entries) /\ Len(c.larges) = n
        /\ c.larges[i] = e
        /\ \A j \in 1..n : j # i => c.larges[j] = q.larges[j]
    BY <1>1, <2>1, <2>2, ExceptSeq
  <2> QED BY <2>1, <2>3
<1>4. BlockInv(c)
  BY DEF BlockInv
<1>5. ListInv(c)
  BY <1>3 DEF ListInv, CutAt
<1>6. HeapInv(c)
  <2>1. /\ c.heap \subseteq Nat \ {NullPtr} /\ IsFiniteSet(c.heap)
        /\ c.leaked \subseteq c.heap
    BY FS_AddElement DEF HeapInv
  <2>2. \A j \in 1..n : j # i => c.larges[j].alloc # id
    BY <1>3 DEF HeapInv
  <2>3. ASSUME NEW j \in 1..n, c.larges[j].alloc # NullPtr
        PROVE  /\ c.larges[j].alloc \in c.heap \ c.leaked
               /\ \A k \in 1..n : c.larges[k].alloc = c.larges[j].alloc => k = j
    <3>1. CASE j = i
      BY <1>3, <2>2, <3>1 DEF HeapInv
    <3>2. CASE j # i
      BY <1>3, <2>2, <2>3, <3>2 DEF HeapInv
    <3> QED BY <3>1, <3>2
  <2>4. ASSUME NEW b \in c.heap \ c.leaked
        PROVE  \E j \in 1..n : c.larges[j].alloc = b
    <3>1. CASE b = id
      BY <1>3, <3>1
    <3>2. CASE b # id
      <4>1. PICK j \in 1..n : q.larges[j].alloc = b
        BY <2>4, <3>2 DEF HeapInv
      <4>2. j # i
        BY <2>1, <2>4, <4>1
      <4> QED BY <1>3, <4>1, <4>2
    <3> QED BY <3>1, <3>2
  <2> QED BY <1>3, <2>1, <2>3, <2>4 DEF HeapInv
<1> QED BY <1>4, <1>5, <1>6

\* A new entry is put before the others.
LEMMA EntryAdded ==
  ASSUME NEW q, HeapInv(q), q.larges \in Seq(Entries),
         NEW id \in Nat \ {NullPtr}, id \notin q.heap,
         NEW at \in Nat,
         NEW c, BlockInv(c), CutAt(c, at),
         \A i \in 1..Len(q.larges) : CutAt(c, q.larges[i].at),
         c.leaked = q.leaked, c.heap = q.heap \cup {id},
         c.larges = <<[at |-> at, alloc |-> id]>> \o q.larges
  PROVE  ListInv(c) /\ HeapInv(c)
<1> DEFINE n == Len(q.larges)
           e == [at |-> at, alloc |-> id]
<1>1. n \in Nat /\ e \in Entries /\ e.at = at /\ e.alloc = id
  BY DEF Entries
<1> HIDE DEF e
<1>2. /\ c.larges \in Seq(Entries) /\ Len(c.larges) = n + 1 /\ c.larges[1] = e
      /\ \A i \in 2..(n + 1) : c.larges[i] = q.larges[i - 1]
  <2>1. c.larges = <<e>> \o q.larges /\ <<e>> \in Seq(Entries) /\ Len(<<e>>) = 1
        /\ <<e>>[1] = e
    BY <1>1 DEF e
  <2>2. /\ Len(c.larges) = 1 + n /\ c.larges \in Seq(Entries)
        /\ \A i \in 1..(1 + n) :
             c.larges[i] = IF i <= 1 THEN <<e>>[i] ELSE q.larges[i - 1]
    BY <2>1, ConcatProperties
  <2> QED BY <1>1, <2>1, <2>2
<1>3. \A i \in 2..(n + 1) : i - 1 \in 1..n
  BY <1>1
<1>4. ListInv(c)
  <2>1. ASSUME NEW i \in 1..(n + 1) PROVE CutAt(c, c.larges[i].at)
    <3>1. CASE i = 1
      BY <1>1, <1>2, <3>1
    <3>2. CASE i \in 2..(n + 1)
      BY <1>2, <1>3, <3>2
    <3> QED BY <1>1, <3>1, <3>2
  <2> QED BY <1>2, <2>1 DEF ListInv
<1>5. HeapInv(c)
  <2>1. /\ c.heap \subseteq Nat \ {NullPtr} /\ IsFiniteSet(c.heap)
        /\ c.leaked \subseteq c.heap
    BY FS_AddElement DEF HeapInv
  <2>2. \A i \in 2..(n + 1) : c.larges[i].alloc # id
    BY <1>2, <1>3 DEF HeapInv
  <2>3. ASSUME NEW i \in 1..(n + 1), c.larges[i].alloc # NullPtr
        PROVE  /\ c.larges[i].alloc \in c.heap \ c.leaked
               /\ \A j \in 1..(n + 1) :
                    c.larges[j].alloc = c.larges[i].alloc => j = i
    <3>1. CASE i = 1
      <4>1. \A j \in 1..(n + 1) : j # 1 => j \in 2..(n + 1)
        BY <1>1
      <4> QED BY <1>1, <1>2, <2>2, <3>1, <4>1 DEF HeapInv
    <3>2. CASE i \in 2..(n + 1)
      <4>1. q.larges[i - 1].alloc \in q.heap \ q.leaked
        BY <1>2, <1>3, <2>3, <3>2 DEF HeapInv
      <4>2. ASSUME NEW j \in 1..(n + 1), c.larges[j].alloc = c.larges[i].alloc
            PROVE  j = i
        <5>1. j \in 2..(n + 1)
          BY <1>1, <1>2, <2>2, <3>2, <4>2
        <5>2. j - 1 = i - 1
          <6>1. /\ i - 1 \in 1..n /\ j - 1 \in 1..n
                /\ c.larges[i] = q.larges[i - 1] /\ c.larges[j] = q.larges[j - 1]
            BY <1>2, <1>3, <3>2, <5>1
          <6>2. /\ q.larges[i - 1].alloc # NullPtr
                /\ q.larges[j - 1].alloc = q.larges[i - 1].alloc
            BY <2>3, <4>2, <6>1
          <6> QED BY <6>1, <6>2 DEF HeapInv
        <5> QED BY <3>2, <5>1, <5>2
      <4> QED BY <1>2, <3>2, <4>1, <4>2
    <3> QED BY <1>1, <3>1, <3>2
  <2>4. ASSUME NEW b \in c.heap \ c.leaked
        PROVE  \E i \in 1..(n + 1) : c.larges[i].alloc = b
    <3>1. CASE b = id
      BY <1>1, <1>2, <3>1
    <3>2. CASE b # id
      <4>1. PICK i \in 1..n : q.larges[i].alloc = b
        BY <2>4, <3>2 DEF HeapInv
      <4>2. i + 1 \in 2..(n + 1) /\ i + 1 \in 1..(n + 1) /\ (i + 1) - 1 = i
        BY <1>1
      <4> QED BY <1>2, <4>1, <4>2
    <3> QED BY <3>1, <3>2
  <2> QED BY <1>2, <2>1, <2>3, <2>4 DEF HeapInv
<1> QED BY <1>4, <1>5

\* What an allocation leaves behind.
Outcome(q, r) ==
  \/ r.ptr = NullPtr /\ r.pool.status = "undefined"
  \/ Ready(r.pool) /\ Cardinality(r.pool.heap) <= Cardinality(q.heap) + 1

\* A large block is linked through an entry of the list.
LEMMA LargeIsListed ==
  ASSUME PoolAssumption, NEW q, Ready(q), Cardinality(q.heap) <= MaxLarge,
         NEW large \in BOOLEAN, NEW block \in BOOLEAN,
         NEW r, r = Large(q, large, block)
  PROVE  Outcome(q, r)
<1> DEFINE id == CHOOSE n \in 1..(MaxLarge + 1) : n \notin q.heap
           h == [q EXCEPT !.heap = @ \cup {id}]
           entry == Small(h, LargeHeader, TRUE, block)
<1>1. IsFiniteSet(q.heap) /\ DOMAIN q = PoolMembers /\ q.status = "ready"
      /\ Cardinality(q.heap) \in Nat
  BY FS_CardinalityType DEF Ready, HeapInv
<1>2. id \in Nat \ {NullPtr} /\ id \notin q.heap
  <2>1. \E n \in 1..(MaxLarge + 1) : n \notin q.heap
    BY <1>1, FreshBlock
  <2>2. id \in 1..(MaxLarge + 1) /\ id \notin q.heap
    BY <2>1
  <2> QED BY <2>2 DEF NullPtr, PoolAssumption
<1>3. CASE ~large
  <2>1. r.pool = q
    BY <1>3 DEF Large
  <2> QED BY <1>1, <2>1 DEF Outcome
<1> HIDE DEF id
<1>4. /\ DOMAIN h = PoolMembers /\ h.status = "ready" /\ h.size = q.size
      /\ h.last = q.last /\ h.handed = q.handed /\ h.larges = q.larges
      /\ h.leaked = q.leaked /\ h.heap = q.heap \cup {id}
  BY <1>1 DEF PoolMembers
<1> HIDE DEF h
<1>5. IsFiniteSet(h.heap) /\ Cardinality(h.heap) = Cardinality(q.heap) + 1
  BY <1>1, <1>2, <1>4, FS_AddElement
<1>6. CASE large /\ Reusable(q) # {}
  <2> DEFINE i == CHOOSE i \in Reusable(q) : \A j \in Reusable(q) : i <= j
             c == [h EXCEPT !.larges[i].alloc = id]
  <2>1. i \in Reusable(q)
    <3>1. Reusable(q) \in SUBSET Nat
      BY DEF Reusable
    <3>2. \E k \in Reusable(q) : \A j \in Reusable(q) : k <= j
      BY <1>6, <3>1, Least
    <3> QED BY <3>2
  <2>2. r.pool = c
    BY <1>6 DEF Large, h, id
  <2> HIDE DEF i
  <2>3. i \in 1..Len(q.larges) /\ q.larges[i].alloc = NullPtr
    BY <2>1 DEF Reusable
  <2>4. /\ DOMAIN c = PoolMembers /\ c.status = "ready" /\ c.size = q.size
        /\ c.last = q.last /\ c.handed = q.handed /\ c.leaked = q.leaked
        /\ c.heap = q.heap \cup {id}
        /\ c.larges = [q.larges EXCEPT ![i].alloc = id]
    BY <1>4 DEF PoolMembers
  <2> HIDE DEF c
  <2>5. Ready(c)
    BY <1>2, <2>3, <2>4, EntryFilled
  <2> QED BY <1>1, <1>4, <1>5, <2>2, <2>4, <2>5 DEF Outcome
<1>7. BlockInv(h) /\ ListInv(h)
  BY <1>4 DEF Ready, BlockInv, ListInv, CutAt
<1>8. \/ /\ entry.ptr = NullPtr
         /\ entry.pool = h \/ entry.pool.status = "undefined"
      \/ /\ entry.ptr \in Nat \ {NullPtr}
         /\ DOMAIN entry.pool = PoolMembers /\ entry.pool.status = "ready"
         /\ BlockInv(entry.pool) /\ ListInv(entry.pool)
         /\ entry.pool.larges = h.larges /\ entry.pool.heap = h.heap
         /\ entry.pool.leaked = h.leaked
         /\ CutAt(entry.pool, entry.ptr)
  <2>1. LargeHeader \in Nat
    BY DEF LargeHeader
  <2> HIDE DEF entry
  <2>2. ASSUME NEW size, size = LargeHeader, NEW align, align = TRUE,
               NEW e, e = Small(h, size, align, block)
        PROVE  \/ /\ e.ptr = NullPtr
                  /\ e.pool = h \/ e.pool.status = "undefined"
               \/ /\ e.ptr \in Nat \ {NullPtr}
                  /\ DOMAIN e.pool = PoolMembers /\ e.pool.status = "ready"
                  /\ BlockInv(e.pool) /\ ListInv(e.pool)
                  /\ e.pool.larges = h.larges /\ e.pool.heap = h.heap
                  /\ e.pool.leaked = h.leaked
                  /\ size = LargeHeader => CutAt(e.pool, e.ptr)
    <3>1. /\ size \in Nat /\ align \in BOOLEAN /\ block \in BOOLEAN
          /\ DOMAIN h = PoolMembers /\ h.status = "ready"
          /\ BlockInv(h) /\ ListInv(h) /\ e = Small(h, size, align, block)
      BY <1>4, <1>7, <2>1, <2>2
    <3> QED BY <3>1, SmallIsCut
  <2>3. entry = Small(h, LargeHeader, TRUE, block)
    BY DEF entry
  <2> QED BY <2>2, <2>3
<1>9. CASE large /\ Reusable(q) = {} /\ entry.ptr = NullPtr
  <2> DEFINE c == [entry.pool EXCEPT !.leaked = @ \cup {id}]
  <2>1. r = [pool |-> c, ptr |-> NullPtr]
    BY <1>9 DEF Large, h, id
  <2> HIDE DEF entry
  <2>2. CASE entry.pool = h
    <3>1. /\ DOMAIN c = PoolMembers /\ c.status = "ready" /\ c.size = q.size
          /\ c.last = q.last /\ c.handed = q.handed /\ c.larges = q.larges
          /\ c.leaked = q.leaked \cup {id} /\ c.heap = q.heap \cup {id}
      BY <1>4, <2>2 DEF PoolMembers
    <3> HIDE DEF c
    <3>2. BlockInv(c) /\ ListInv(c)
      BY <3>1 DEF Ready, BlockInv, ListInv, CutAt
    <3>3. HeapInv(c)
      BY <1>2, <1>4, <1>5, <3>1 DEF Ready, HeapInv
    <3>4. Cardinality(c.heap) <= Cardinality(q.heap) + 1
      BY <1>1, <1>4, <1>5, <3>1
    <3> QED BY <2>1, <3>1, <3>2, <3>3, <3>4 DEF Outcome, Ready
  <2>3. CASE entry.pool.status = "undefined"
    <3>1. c.status = "undefined"
      BY <2>3
    <3> HIDE DEF c
    <3>2. r.ptr = NullPtr /\ r.pool = c
      BY <2>1
    <3> QED BY <3>1, <3>2 DEF Outcome
  <2> QED BY <1>8, <1>9, <2>2, <2>3
<1>10. CASE large /\ Reusable(q) = {} /\ entry.ptr # NullPtr
  <2> DEFINE x == <<[at |-> entry.ptr, alloc |-> id]>>
             c == [entry.pool EXCEPT !.larges = x \o @]
  <2>1. r.pool = c
    BY <1>10 DEF Large, h, id
  <2> HIDE DEF entry
  <2>2. /\ DOMAIN c = PoolMembers /\ c.status = "ready"
        /\ c.size = entry.pool.size /\ c.last = entry.pool.last
        /\ c.handed = entry.pool.handed /\ c.leaked = q.leaked
        /\ c.heap = q.heap \cup {id} /\ c.larges = x \o q.larges
        /\ BlockInv(entry.pool) /\ ListInv(entry.pool)
        /\ entry.pool.larges = q.larges
        /\ entry.ptr \in Nat /\ CutAt(entry.pool, entry.ptr)
    BY <1>4, <1>8, <1>10 DEF PoolMembers
  <2> HIDE DEF c
  <2>3. \A at : CutAt(entry.pool, at) => CutAt(c, at)
    BY <2>2 DEF CutAt
  <2>4. BlockInv(c) /\ CutAt(c, entry.ptr)
        /\ \A i \in 1..Len(q.larges) : CutAt(c, q.larges[i].at)
    BY <2>2, <2>3 DEF BlockInv, ListInv
  <2>5. HeapInv(q) /\ q.larges \in Seq(Entries)
    BY DEF Ready, ListInv
  <2>6. ListInv(c) /\ HeapInv(c)
    BY <1>2, <2>2, <2>4, <2>5, EntryAdded
  <2>7. Cardinality(c.heap) <= Cardinality(q.heap) + 1
    BY <1>1, <1>4, <1>5, <2>2
  <2> QED BY <2>1, <2>2, <2>4, <2>6, <2>7 DEF Outcome, Ready
<1> QED BY <1>3, <1>6, <1>9, <1>10

\* What ngx_palloc() leaves behind.
LEMMA PallocOutcome ==
  ASSUME PoolAssumption, NEW q, Ready(q), Cardinality(q.heap) <= MaxLarge,
         NEW size \in Nat, NEW align \in BOOLEAN, NEW large \in BOOLEAN,
         NEW block \in BOOLEAN, NEW r, r = Palloc(q, size, align, large, block)
  PROVE  Outcome(q, r)
<1>1. CASE size <= PoolMax(q)
  <2>1. r = Small(q, size, align, block)
    BY <1>1 DEF Palloc
  <2>2. Cardinality(q.heap) \in Nat
    BY FS_CardinalityType DEF Ready, HeapInv
  <2>3. \/ /\ r.ptr = NullPtr
           /\ r.pool = q \/ r.pool.status = "undefined"
        \/ /\ DOMAIN r.pool = PoolMembers /\ r.pool.status = "ready"
           /\ BlockInv(r.pool) /\ ListInv(r.pool)
           /\ r.pool.larges = q.larges /\ r.pool.heap = q.heap
           /\ r.pool.leaked = q.leaked
    BY <2>1, SmallIsCut DEF Ready
  <2>4. CASE r.pool = q
    BY <2>2, <2>4 DEF Outcome
  <2>5. CASE r.ptr = NullPtr /\ r.pool.status = "undefined"
    BY <2>5 DEF Outcome
  <2>6. CASE /\ DOMAIN r.pool = PoolMembers /\ r.pool.status = "ready"
             /\ BlockInv(r.pool) /\ ListInv(r.pool)
             /\ r.pool.larges = q.larges /\ r.pool.heap = q.heap
             /\ r.pool.leaked = q.leaked
    <3>1. HeapInv(r.pool)
      BY <2>6 DEF Ready, HeapInv
    <3>2. Cardinality(r.pool.heap) <= Cardinality(q.heap) + 1
      BY <2>2, <2>6
    <3> QED BY <2>6, <3>1, <3>2 DEF Outcome, Ready
  <2> QED BY <2>3, <2>4, <2>5, <2>6
<1>2. CASE ~(size <= PoolMax(q))
  <2>1. r = Large(q, large, block)
    BY <1>2 DEF Palloc
  <2> QED BY <2>1, LargeIsListed
<1> QED BY <1>1, <1>2

\* What ngx_pool_cleanup_add() leaves behind.
LEMMA CleanupOutcome ==
  ASSUME PoolAssumption, NEW q, Ready(q), Cardinality(q.heap) < MaxLarge,
         NEW size \in Nat, NEW large \in BOOLEAN, NEW block \in BOOLEAN,
         NEW p, p = CleanupAdd(q, size, large, block)
  PROVE  p.status = "undefined" \/ Ready(p)
<1> DEFINE c == Palloc(q, CleanupHeader, TRUE, large, block)
           data == Palloc(c.pool, size, TRUE, large, block)
           Listed(r) ==
             [r EXCEPT !.cleanup = <<[at |-> c.ptr, old |-> FALSE]>> \o @]
<1>1. p = IF c.ptr = NullPtr THEN c.pool
          ELSE IF size = 0 THEN Listed(c.pool)
          ELSE IF data.ptr = NullPtr THEN data.pool
          ELSE Listed(data.pool)
  BY DEF CleanupAdd
<1>2. Cardinality(q.heap) \in Nat /\ MaxLarge \in Nat
  BY FS_CardinalityType DEF Ready, HeapInv, PoolAssumption
<1>3. Outcome(q, c)
  <2>1. CleanupHeader \in Nat /\ TRUE \in BOOLEAN
        /\ Cardinality(q.heap) <= MaxLarge
    BY <1>2 DEF CleanupHeader
  <2> QED BY <2>1, PallocOutcome
<1>4. ASSUME NEW r, Ready(r) PROVE Ready(Listed(r))
  <2> DEFINE l == Listed(r)
  <2>1. /\ DOMAIN l = PoolMembers /\ l.status = "ready" /\ l.size = r.size
        /\ l.last = r.last /\ l.handed = r.handed /\ l.larges = r.larges
        /\ l.heap = r.heap /\ l.leaked = r.leaked
    BY <1>4 DEF Ready, PoolMembers
  <2> HIDE DEF l
  <2>2. Ready(l)
    BY <1>4, <2>1 DEF Ready, BlockInv, ListInv, HeapInv, CutAt
  <2> QED BY <2>2 DEF l
<1>5. CASE c.ptr # NullPtr /\ Ready(c.pool)
  <2>1. Outcome(c.pool, data)
    <3>1. Cardinality(c.pool.heap) <= Cardinality(q.heap) + 1
      BY <1>3, <1>5 DEF Outcome
    <3>2. IsFiniteSet(c.pool.heap)
      BY <1>5 DEF Ready, HeapInv
    <3>3. Cardinality(c.pool.heap) <= MaxLarge /\ TRUE \in BOOLEAN
      <4>1. Cardinality(c.pool.heap) \in Nat
        BY <3>2, FS_CardinalityType
      <4> HIDE DEF c
      <4> QED BY <1>2, <3>1, <4>1
    <3> HIDE DEF c
    <3> QED BY <1>5, <3>3, PallocOutcome
  <2> HIDE DEF c, data, Listed
  <2> QED BY <1>1, <1>4, <1>5, <2>1 DEF Outcome
<1> HIDE DEF c, data, Listed
<1> QED BY <1>1, <1>3, <1>5 DEF Outcome

\* Freeing empties the one entry of the block.
LEMMA EntryEmptied ==
  ASSUME NEW q, Ready(q), NEW id \in q.heap \ q.leaked,
         NEW c, c = Pfree(q, id)
  PROVE  Ready(c)
<1> DEFINE n == Len(q.larges)
           at == {i \in 1..n : q.larges[i].alloc = id}
           i == CHOOSE i \in at : \A j \in at : i <= j
<1> USE DEF Ready
<1>1. q.larges \in Seq(Entries) /\ n \in Nat
  BY DEF ListInv
<1>2. at # {}
  BY DEF HeapInv
<1>3. i \in at
  <2>1. at \in SUBSET Nat
    OBVIOUS
  <2> HIDE DEF at
  <2>2. \E k \in at : \A j \in at : k <= j
    BY <1>2, <2>1, Least
  <2> QED BY <2>2
<1>4. c = [q EXCEPT !.larges[i].alloc = NullPtr, !.heap = @ \ {id}]
  BY <1>2 DEF Pfree
<1> HIDE DEF i
<1>5. i \in 1..n /\ q.larges[i].alloc = id
  BY <1>3
<1>6. /\ DOMAIN c = PoolMembers /\ c.status = "ready" /\ c.size = q.size
      /\ c.last = q.last /\ c.handed = q.handed /\ c.leaked = q.leaked
      /\ c.heap = q.heap \ {id}
      /\ c.larges = [q.larges EXCEPT ![i].alloc = NullPtr]
  BY <1>4 DEF PoolMembers
<1>7. \A j \in 1..n : q.larges[j] \in Entries
  BY <1>1
<1>8. /\ c.larges \in Seq(Entries) /\ Len(c.larges) = n
      /\ \A j \in 1..n : /\ c.larges[j].at = q.larges[j].at
                         /\ j # i => c.larges[j].alloc = q.larges[j].alloc
      /\ c.larges[i].alloc = NullPtr
  <2> DEFINE e == [q.larges[i] EXCEPT !.alloc = NullPtr]
  <2>1. e \in Entries /\ e.at = q.larges[i].at /\ e.alloc = NullPtr
    BY <1>5, <1>7 DEF Entries, NullPtr
  <2> HIDE DEF e
  <2>2. c.larges = [q.larges EXCEPT ![i] = e]
    BY <1>6 DEF e
  <2>3. /\ c.larges \in Seq(Entries) /\ Len(c.larges) = n
        /\ c.larges[i] = e
        /\ \A j \in 1..n : j # i => c.larges[j] = q.larges[j]
    BY <1>1, <1>5, <2>1, <2>2, ExceptSeq
  <2> QED BY <2>1, <2>3
<1>9. BlockInv(c)
  BY <1>6 DEF BlockInv
<1>10. ListInv(c)
  BY <1>6, <1>8 DEF ListInv, CutAt
<1>11. HeapInv(c)
  <2>1. /\ c.heap \subseteq Nat \ {NullPtr} /\ IsFiniteSet(c.heap)
        /\ c.leaked \subseteq c.heap
    BY <1>6, FS_RemoveElement DEF HeapInv
  <2>2. ASSUME NEW j \in 1..n, c.larges[j].alloc # NullPtr
        PROVE  /\ c.larges[j].alloc \in c.heap \ c.leaked
               /\ \A k \in 1..n : c.larges[k].alloc = c.larges[j].alloc => k = j
    <3>1. j # i /\ c.larges[j].alloc = q.larges[j].alloc
      BY <1>8, <2>2
    <3>2. q.larges[j].alloc # id
      BY <1>5, <3>1, <2>1, <2>2 DEF HeapInv
    <3> QED BY <1>6, <1>8, <2>2, <3>1, <3>2 DEF HeapInv
  <2>3. ASSUME NEW b \in c.heap \ c.leaked
        PROVE  \E j \in 1..n : c.larges[j].alloc = b
    <3>1. b \in q.heap \ q.leaked /\ b # id
      BY <1>6
    <3>2. PICK j \in 1..n : q.larges[j].alloc = b
      BY <3>1 DEF HeapInv
    <3>3. j # i
      BY <1>5, <3>1, <3>2
    <3> QED BY <1>8, <3>2, <3>3
  <2> QED BY <1>8, <2>1, <2>2, <2>3 DEF HeapInv
<1> QED BY <1>6, <1>9, <1>10, <1>11

\* Freeing what is listed leaves what is lost.
LEMMA ListedFreed ==
  ASSUME NEW q, Ready(q)
  PROVE  q.heap \ {q.larges[i].alloc : i \in DOMAIN q.larges} = q.leaked
<1>1. DOMAIN q.larges = 1..Len(q.larges)
  BY DEF Ready, ListInv
<1>2. ASSUME NEW i \in 1..Len(q.larges), q.larges[i].alloc \in q.leaked
      PROVE  FALSE
  BY <1>2 DEF Ready, HeapInv
<1> QED BY <1>1, <1>2 DEF Ready, HeapInv

\* What ngx_reset_pool() leaves behind.
LEMMA PoolAfterReset ==
  ASSUME NEW q, Ready(q), NEW c, c = Reset(q)
  PROVE  Ready(c)
<1>1. /\ DOMAIN c = PoolMembers /\ c.status = "ready" /\ c.size = q.size
      /\ c.last = PoolHeader /\ c.handed = << >> /\ c.larges = << >>
      /\ c.leaked = q.leaked
      /\ c.heap = q.heap \ {q.larges[i].alloc : i \in DOMAIN q.larges}
  BY DEF Reset, Ready, PoolMembers
<1>2. c.heap = q.leaked
  BY <1>1, ListedFreed
<1>3. BlockInv(c)
  BY <1>1 DEF Ready, BlockInv, PoolHeader
<1>4. ListInv(c)
  BY <1>1 DEF ListInv
<1>5. HeapInv(c)
  <2>1. IsFiniteSet(q.leaked)
    BY FS_Subset DEF Ready, HeapInv
  <2>2. 1..Len(c.larges) = {}
    BY <1>1
  <2>3. q.leaked \subseteq Nat \ {NullPtr}
    BY DEF Ready, HeapInv
  <2>4. c.heap \ c.leaked = {} /\ c.leaked \subseteq c.heap
    BY <1>1, <1>2
  <2> QED BY <1>2, <2>1, <2>2, <2>3, <2>4 DEF HeapInv
<1> QED BY <1>1, <1>3, <1>4, <1>5 DEF Ready

\* What ngx_destroy_pool() leaves behind.
LEMMA PoolAfterDestroy ==
  ASSUME NEW q, Ready(q), NEW c, c = Destroy(q)
  PROVE  \/ c.status = "undefined"
         \/ /\ c.status = "destroyed"
            /\ BlockInv(c) /\ ListInv(c) /\ c.heap = c.leaked
<1>1. CASE \E i \in DOMAIN q.cleanup : Overwritten(q, q.cleanup[i])
  BY <1>1 DEF Destroy, Ready, PoolMembers
<1>2. CASE ~\E i \in DOMAIN q.cleanup : Overwritten(q, q.cleanup[i])
  <2>1. /\ c.status = "destroyed" /\ c.size = q.size /\ c.last = q.last
        /\ c.handed = q.handed /\ c.larges = q.larges /\ c.leaked = q.leaked
        /\ c.heap = q.heap \ {q.larges[i].alloc : i \in DOMAIN q.larges}
    BY <1>2 DEF Destroy, Ready, PoolMembers
  <2>2. c.heap = c.leaked
    BY <2>1, ListedFreed
  <2> QED BY <2>1, <2>2 DEF Ready, BlockInv, ListInv, CutAt
<1> QED BY <1>1, <1>2

\* A new pool has the invariant.
LEMMA PoolInvInit ==
  ASSUME PoolAssumption, PoolInit
  PROVE  PoolInv
<1>1. PICK n \in PoolSizes :
        pool = [status |-> "ready", size |-> n, last |-> PoolHeader,
                larges |-> << >>, cleanup |-> << >>, handed |-> << >>,
                heap |-> {}, leaked |-> {}]
  BY DEF PoolInit
<1>2. n \in Nat /\ PoolHeader <= n
  BY DEF PoolAssumption, PoolHeader, CleanupHeader
<1>3. BlockInv(pool)
  BY <1>1, <1>2 DEF BlockInv, PoolHeader
<1>4. ListInv(pool)
  BY <1>1 DEF ListInv
<1>5. HeapInv(pool)
  BY <1>1, FS_EmptySet DEF HeapInv
<1> QED BY <1>1, <1>3, <1>4, <1>5 DEF PoolInv, Ready, PoolMembers

\* Every operation of the pool keeps it.
LEMMA PoolInvNext ==
  ASSUME PoolAssumption, PoolInv, [PoolNext]_pool
  PROVE  PoolInv'
<1>1. CASE UNCHANGED pool
  <2>1. BlockInv(pool)' = BlockInv(pool)
    BY <1>1 DEF BlockInv
  <2>2. ListInv(pool)' = ListInv(pool)
    BY <1>1 DEF ListInv, CutAt
  <2>3. HeapInv(pool)' = HeapInv(pool)
    BY <1>1 DEF HeapInv
  <2> QED BY <1>1, <2>1, <2>2, <2>3 DEF PoolInv, Ready
<1>2. ASSUME Ready(pool') \/ pool'.status = "undefined" PROVE PoolInv'
  BY <1>2 DEF PoolInv, Ready, BlockInv, ListInv, HeapInv, CutAt
<1>3. ASSUME pool.status = "ready" PROVE Ready(pool)
  BY <1>3 DEF PoolInv
<1>4. AllocSizes \subseteq Nat
  BY DEF PoolAssumption
<1>5. ASSUME NEW size \in AllocSizes, NEW align \in BOOLEAN,
             NEW large \in BOOLEAN, NEW block \in BOOLEAN,
             NgxPalloc(size, align, large, block)
      PROVE  PoolInv'
  <2>1. Ready(pool) /\ Cardinality(pool.heap) < MaxLarge
    BY <1>3, <1>5 DEF NgxPalloc, Bounded
  <2>2. Cardinality(pool.heap) \in Nat /\ MaxLarge \in Nat
    BY <2>1, FS_CardinalityType DEF Ready, HeapInv, PoolAssumption
  <2>3. PICK r : r = Palloc(pool, size, align, large, block)
    OBVIOUS
  <2>4. Cardinality(pool.heap) <= MaxLarge /\ size \in Nat
    BY <1>4, <2>1, <2>2
  <2>5. Outcome(pool, r)
    BY <2>1, <2>3, <2>4, PallocOutcome
  <2>6. pool' = r.pool
    BY <1>5, <2>3 DEF NgxPalloc
  <2> QED BY <1>2, <2>5, <2>6 DEF Outcome
<1>6. ASSUME NEW size \in Nat, NEW large \in BOOLEAN, NEW block \in BOOLEAN,
             NgxPoolCleanupAdd(size, large, block)
      PROVE  PoolInv'
  <2>1. Ready(pool) /\ Cardinality(pool.heap) < MaxLarge
    BY <1>3, <1>6 DEF NgxPoolCleanupAdd, Bounded
  <2>2. pool' = CleanupAdd(pool, size, large, block)
    BY <1>6 DEF NgxPoolCleanupAdd
  <2> QED BY <1>2, <2>1, <2>2, CleanupOutcome
<1>7. ASSUME NEW id, NgxPfree(id) PROVE PoolInv'
  BY <1>2, <1>3, <1>7, EntryEmptied DEF NgxPfree
<1>8. CASE NgxResetPool
  BY <1>2, <1>3, <1>8, PoolAfterReset DEF NgxResetPool
<1>9. CASE NgxDestroyPool
  <2>1. Ready(pool) /\ pool' = Destroy(pool)
    BY <1>3, <1>9 DEF NgxDestroyPool
  <2>2. \/ pool'.status = "undefined"
        \/ /\ pool'.status = "destroyed"
           /\ BlockInv(pool') /\ ListInv(pool') /\ pool'.heap = pool'.leaked
    BY <2>1, PoolAfterDestroy
  <2> QED BY <2>2 DEF PoolInv, BlockInv, ListInv, CutAt
<1> QED BY <1>1, <1>4, <1>5, <1>6, <1>7, <1>8, <1>9 DEF PoolNext

\* AllocationsAreDisjoint: what the pool hands out from its block lies behind
\* the header, aligned, and apart from everything else handed out, the entries
\* of the list included, and each large block is in one entry until it is freed
\* (ngx_mem_pool.cpp:55-77, 80-127, 201-205).
THEOREM PoolKeepsApart == PoolSpec => []AllocationsAreDisjoint
<1> USE PoolAssumption
<1>1. PoolInit => PoolInv
  BY PoolInvInit
<1>2. PoolInv /\ [PoolNext]_pool => PoolInv'
  BY PoolInvNext
<1>3. PoolInv => AllocationsAreDisjoint
  <2> SUFFICES ASSUME PoolInv, pool.status # "undefined"
               PROVE  AllocationsAreDisjoint
    BY DEF AllocationsAreDisjoint
  <2>1. BlockInv(pool) /\ ListInv(pool)
    BY DEF PoolInv, Ready
  <2>2. /\ DOMAIN pool.handed = 1..Len(pool.handed)
        /\ DOMAIN pool.larges = 1..Len(pool.larges)
        /\ \A i \in 1..Len(pool.handed) : pool.handed[i] \in Pieces
    BY <2>1 DEF BlockInv, ListInv
  <2>3. ASSUME NEW i \in 1..Len(pool.handed)
        PROVE  /\ PoolHeader <= pool.handed[i].from
               /\ pool.size % Alignment = 0 => pool.handed[i].to <= pool.size
               /\ pool.handed[i].align => pool.handed[i].from % Alignment = 0
               /\ \A j \in 1..Len(pool.handed) :
                    i < j => pool.handed[i].to <= pool.handed[j].from
    <3>1. /\ pool.handed[i].to <= pool.last /\ pool.handed[i].to \in Nat
          /\ pool.last \in Nat /\ pool.size \in Nat
          /\ pool.size % Alignment = 0 => pool.last <= pool.size
      BY <2>1, <2>2 DEF BlockInv, Pieces
    <3>2. pool.size % Alignment = 0 => pool.handed[i].to <= pool.size
      BY <3>1
    <3> QED BY <2>1, <3>2 DEF BlockInv
  <2>4. \A i \in 1..Len(pool.larges) :
          \E j \in 1..Len(pool.handed) :
            /\ pool.handed[j].from = pool.larges[i].at
            /\ pool.handed[j].to = pool.larges[i].at + LargeHeader
    BY <2>1 DEF ListInv, CutAt
  <2>5. /\ pool.leaked \subseteq pool.heap
        /\ IF pool.status = "destroyed" THEN pool.heap = pool.leaked
           ELSE \A id \in pool.heap \ pool.leaked :
                  Cardinality({i \in DOMAIN pool.larges :
                                 pool.larges[i].alloc = id}) = 1
    <3>1. CASE Ready(pool)
      <4>1. ASSUME NEW id \in pool.heap \ pool.leaked
            PROVE  Cardinality({i \in DOMAIN pool.larges :
                                  pool.larges[i].alloc = id}) = 1
        <5>1. PICK i \in 1..Len(pool.larges) : pool.larges[i].alloc = id
          BY <3>1 DEF Ready, HeapInv
        <5>2. \A j \in 1..Len(pool.larges) : pool.larges[j].alloc = id => j = i
          BY <3>1, <5>1 DEF Ready, HeapInv
        <5>3. {j \in DOMAIN pool.larges : pool.larges[j].alloc = id} = {i}
          BY <2>2, <5>1, <5>2
        <5> QED BY <5>3, FS_Singleton
      <4>2. pool.status # "destroyed" /\ pool.leaked \subseteq pool.heap
        BY <3>1 DEF Ready, HeapInv
      <4> QED BY <4>1, <4>2
    <3>2. CASE pool.status = "destroyed"
      BY <3>2 DEF PoolInv, Ready
    <3> QED BY <3>1, <3>2 DEF PoolInv
  <2> QED BY <2>2, <2>3, <2>4, <2>5 DEF AllocationsAreDisjoint
<1> QED BY <1>1, <1>2, <1>3, PTL DEF PoolSpec

-----------------------------------------------------------------------------
(* The parts together.                                                     *)

\* A behaviour of the library is one of each part, in which all but one rest.
LEMMA SpecIsOfEach == Spec => BufferSpec /\ PoolSpec /\ LoggerSpec
<1>1. Init => BufferInit /\ PoolInit /\ LoggerInit
  BY DEF Init
<1>2. [Next]_libraryVars =>
        [BufferNext]_bufferVars /\ [PoolNext]_pool /\ [LoggerNext]_loggerVars
  BY DEF Next, libraryVars, bufferVars, loggerVars
<1> QED BY <1>1, <1>2, PTL DEF Spec, BufferSpec, PoolSpec, LoggerSpec

\* In a behaviour of the library the buffer, the pool and the logger are right.
THEOREM PartsAreRight ==
  Spec => [](BufferIsFifo /\ AllocationsAreDisjoint /\ LogInOrder)
BY SpecIsOfEach, BufferIsQueue, PoolKeepsApart, LoggerKeepsOrder, PTL

-----------------------------------------------------------------------------
(* Loops.                                                                  *)
\* A loop has a state after each number of rounds.
Loops(V, v, G) ==
  \E f \in [Nat -> V] :
    \A k \in Nat : f[k] = IF k = 0 THEN v ELSE G[<<f[k - 1], k>>]

\* A loop is determined by where it begins and by its round.
LEMMA Iterates ==
  ASSUME NEW V, NEW v \in V, NEW G \in [V \X Nat -> V]
  PROVE  Loops(V, v, G)
<1> DEFINE B == [x \in [Nat -> V] \X Nat |->
                   IF x[2] = 0 THEN v ELSE G[<<x[1][x[2] - 1], x[2]>>]]
           r == [k \in Nat |-> k]
<1>1. ASSUME NEW f \in [Nat -> V], NEW k \in Nat
      PROVE  /\ B[<<f, k>>] = IF k = 0 THEN v ELSE G[<<f[k - 1], k>>]
             /\ B[<<f, k>>] \in V
  <2>1. <<f, k>> \in [Nat -> V] \X Nat
    OBVIOUS
  <2>2. k # 0 => k - 1 \in Nat
    OBVIOUS
  <2>3. B[<<f, k>>] = IF k = 0 THEN v ELSE G[<<f[k - 1], k>>]
    BY <2>1
  <2> HIDE DEF B
  <2> QED BY <2>2, <2>3
<1> HIDE DEF B
<1>2. LooksDown(Nat, V, r, B)
  <2>1. ASSUME NEW k \in Nat PROVE r[k] \in Nat
    OBVIOUS
  <2>2. ASSUME NEW f \in [Nat -> V], NEW k \in Nat PROVE B[<<f, k>>] \in V
    BY <1>1
  <2>3. ASSUME NEW f \in [Nat -> V], NEW g \in [Nat -> V], NEW k \in Nat,
               \A y \in Nat : r[y] < r[k] => f[y] = g[y]
        PROVE  B[<<f, k>>] = B[<<g, k>>]
    <3>1. k # 0 => k - 1 \in Nat /\ k - 1 < k
      OBVIOUS
    <3>2. k # 0 => f[k - 1] = g[k - 1]
      BY <2>3, <3>1
    <3> QED BY <1>1, <3>2
  <2> QED BY <2>1, <2>2, <2>3 DEF LooksDown
<1>3. Defines(Nat, V, B)
  BY <1>2, RecursionDefines
<1> QED BY <1>1, <1>3 DEF Defines, Loops

\* What each round keeps is so after all of them.
LEMMA Stays ==
  ASSUME NEW V, NEW f, f[0] \in V, \A k \in Nat : f[k] \in V => f[k + 1] \in V
  PROVE  \A k \in Nat : f[k] \in V
<1> DEFINE T == {k \in Nat : f[k] \notin V}
<1>1. CASE T = {}
  BY <1>1
<1>2. CASE T # {}
  <2>1. PICK n \in T : \A l \in T : n <= l
    BY <1>2, Least
  <2>2. n # 0 /\ n - 1 \in Nat /\ n - 1 \notin T /\ (n - 1) + 1 = n
    BY <2>1
  <2> QED BY <2>1, <2>2
<1> QED BY <1>1, <1>2

-----------------------------------------------------------------------------
(* BigInt.                                                                 *)
Sums == [digits : Seq(Nat), flag : BOOLEAN]

\* A digit is a number.
LEMMA DigitIs ==
  ASSUME NEW s \in Seq(Nat), NEW k \in Nat \ {0}
  PROVE  Digit(s, k) \in Int
<1>1. Len(s) \in Nat
  OBVIOUS
<1>2. k <= Len(s) => s[Len(s) + 1 - k] \in Nat
  <2>1. k <= Len(s) => Len(s) + 1 - k \in 1..Len(s)
    BY <1>1
  <2> QED BY <2>1, ElementOfSeq
<1> QED BY <1>2 DEF Digit, Zero

\* One more digit in front.
LEMMA InFront ==
  ASSUME NEW s \in Seq(Nat), NEW d \in Nat
  PROVE  /\ <<d>> \o s \in Seq(Nat) /\ Len(<<d>> \o s) = Len(s) + 1
         /\ (<<d>> \o s)[1] = d
         /\ \A i \in 1..Len(s) : (<<d>> \o s)[i + 1] = s[i]
<1>1. <<d>> \in Seq(Nat) /\ Len(<<d>>) = 1 /\ <<d>>[1] = d
  OBVIOUS
<1>2. Len(s) \in Nat
  OBVIOUS
<1> QED BY <1>1, <1>2

\* Adding one place gives a sum of digits again.
LEMMA AddPlaceIs ==
  ASSUME NEW l \in Seq(Nat), NEW r \in Seq(Nat), NEW sum \in Sums,
         NEW k \in Nat \ {0}
  PROVE  AddPlace(l, r, sum, k) \in Sums
<1>1. Digit(l, k) \in Int /\ Digit(r, k) \in Int
  BY DigitIs
<1> DEFINE ret == Digit(l, k) + Digit(r, k) + IF sum.flag THEN 1 ELSE 0
<1>2. ret \in Int
  BY <1>1
<1>3. AddPlace(l, r, sum, k) =
        [digits |-> <<Zero + (ret % 10)>> \o sum.digits, flag |-> ret >= 10]
  BY DEF AddPlace
<1> HIDE DEF ret
<1>4. Zero + (ret % 10) \in Nat
  BY <1>2 DEF Zero
<1>5. sum.digits \in Seq(Nat)
  BY DEF Sums
<1>6. <<Zero + (ret % 10)>> \o sum.digits \in Seq(Nat)
  BY <1>4, <1>5, InFront
<1>7. (ret >= 10) \in BOOLEAN
  OBVIOUS
<1> QED BY <1>3, <1>6, <1>7 DEF Sums

\* So is a sum of no places.
LEMMA NoneIs == None \in Sums
<1>1. << >> \in Seq(Nat)
  OBVIOUS
<1> QED BY <1>1 DEF None, Sums

\* The places of a sum, from the last one on.
LEMMA PlusDef ==
  ASSUME NEW l \in Seq(Nat), NEW r \in Seq(Nat)
  PROVE  \E sum \in [Nat -> Sums] :
           /\ sum[0] = None
           /\ \A k \in Nat : sum[k + 1] = AddPlace(l, r, sum[k], k + 1)
           /\ Plus(l, r) = (IF sum[Places(l, r)].flag THEN <<Zero + 1>> ELSE << >>)
                             \o sum[Places(l, r)].digits
<1> DEFINE G == [x \in Sums \X Nat |->
                   IF x[2] = 0 THEN None ELSE AddPlace(l, r, x[1], x[2])]
           sum == CHOOSE f : f = [k \in Nat |->
                    IF k = 0 THEN None ELSE AddPlace(l, r, f[k - 1], k)]
<1>1. Plus(l, r) = (IF sum[Places(l, r)].flag THEN <<Zero + 1>> ELSE << >>)
                     \o sum[Places(l, r)].digits
  BY DEF Plus
<1>2. ASSUME NEW s \in Sums, NEW k \in Nat
      PROVE  /\ G[<<s, k>>] = IF k = 0 THEN None ELSE AddPlace(l, r, s, k)
             /\ G[<<s, k>>] \in Sums
  <2>1. G[<<s, k>>] = IF k = 0 THEN None ELSE AddPlace(l, r, s, k)
    OBVIOUS
  <2> HIDE DEF G
  <2> QED BY <2>1, AddPlaceIs, NoneIs
<1>3. G \in [Sums \X Nat -> Sums]
  <2>1. \A x \in Sums \X Nat : x[1] \in Sums /\ x[2] \in Nat /\ x = <<x[1], x[2]>>
    OBVIOUS
  <2>2. G = [x \in Sums \X Nat |-> G[x]]
    OBVIOUS
  <2> HIDE DEF G
  <2>3. \A x \in Sums \X Nat : G[x] \in Sums
    BY <1>2, <2>1
  <2> QED BY <2>2, <2>3
<1> HIDE DEF G
<1>4. PICK f \in [Nat -> Sums] :
        \A k \in Nat : f[k] = IF k = 0 THEN None ELSE G[<<f[k - 1], k>>]
  <2>1. Loops(Sums, None, G)
    BY <1>3, NoneIs, Iterates
  <2> QED BY <2>1 DEF Loops
<1>5. \A k \in Nat : k # 0 => k - 1 \in Nat
  OBVIOUS
<1>6. f = [k \in Nat |-> IF k = 0 THEN None ELSE AddPlace(l, r, f[k - 1], k)]
  <2>1. ASSUME NEW k \in Nat
        PROVE  f[k] = IF k = 0 THEN None ELSE AddPlace(l, r, f[k - 1], k)
    BY <1>2, <1>4, <1>5
  <2> QED BY <2>1
<1>7. sum = [k \in Nat |-> IF k = 0 THEN None ELSE AddPlace(l, r, sum[k - 1], k)]
  BY <1>6
<1> HIDE DEF sum
<1>8. ASSUME NEW k \in Nat
      PROVE  sum[k] = IF k = 0 THEN None ELSE AddPlace(l, r, sum[k - 1], k)
  BY <1>7
<1>9. sum[0] = None
  BY <1>8
<1>10. \A k \in Nat : sum[k + 1] = AddPlace(l, r, sum[k], k + 1)
  <2> TAKE k \in Nat
  <2>1. k + 1 \in Nat /\ k + 1 # 0 /\ (k + 1) - 1 = k
    OBVIOUS
  <2>2. sum[k + 1] = AddPlace(l, r, sum[(k + 1) - 1], k + 1)
    BY <1>8, <2>1
  <2> QED BY <2>1, <2>2
<1>11. sum \in [Nat -> Sums]
  <2>1. sum[0] \in Sums
    BY <1>9, NoneIs
  <2>2. ASSUME NEW k \in Nat, sum[k] \in Sums PROVE sum[k + 1] \in Sums
    <3>1. k + 1 \in Nat \ {0}
      OBVIOUS
    <3> QED BY <1>10, <2>2, <3>1, AddPlaceIs
  <2> QED BY <1>7, <2>1, <2>2, Stays
<1> QED BY <1>1, <1>9, <1>10, <1>11

\* A decimal number: its last digit, and before it the tenth of the number.
LEMMA DecimalDef ==
  /\ Decimal \in [Nat -> Seq(Nat)]
  /\ \A n \in Nat : Decimal[n] = (IF n < 10 THEN << >> ELSE Decimal[n \div 10])
                                   \o <<Zero + (n % 10)>>
<1> DEFINE V == Seq(Nat)
           Body(f, n) == (IF n < 10 THEN << >> ELSE f[n \div 10])
                           \o <<Zero + (n % 10)>>
           B == [x \in [Nat -> V] \X Nat |-> Body(x[1], x[2])]
           r == [k \in Nat |-> k]
<1>1. ASSUME NEW f \in [Nat -> V], NEW n \in Nat
      PROVE  B[<<f, n>>] = Body(f, n)
  <2>1. <<f, n>> \in [Nat -> V] \X Nat /\ <<f, n>>[1] = f /\ <<f, n>>[2] = n
    OBVIOUS
  <2> HIDE DEF Body
  <2> QED BY <2>1
<1>2. ASSUME NEW n \in Nat PROVE n \div 10 \in Nat /\ (~(n < 10) => n \div 10 < n)
  OBVIOUS
<1>3. ASSUME NEW f \in [Nat -> V], NEW n \in Nat PROVE Body(f, n) \in V
  <2>1. Zero + (n % 10) \in Nat
    BY DEF Zero
  <2>2. f[n \div 10] \in Seq(Nat)
    BY <1>2
  <2> DEFINE s == IF n < 10 THEN << >> ELSE f[n \div 10]
  <2>3. s \in Seq(Nat)
    BY <2>2
  <2> HIDE DEF s
  <2>4. s \o <<Zero + (n % 10)>> \in Seq(Nat)
    BY <2>1, <2>3
  <2> QED BY <2>4 DEF s
<1> HIDE DEF B
<1>4. LooksDown(Nat, V, r, B)
  <2>1. ASSUME NEW k \in Nat PROVE r[k] \in Nat
    OBVIOUS
  <2>2. ASSUME NEW f \in [Nat -> V], NEW k \in Nat PROVE B[<<f, k>>] \in V
    BY <1>1, <1>3
  <2>3. ASSUME NEW f \in [Nat -> V], NEW g \in [Nat -> V], NEW k \in Nat,
               \A y \in Nat : r[y] < r[k] => f[y] = g[y]
        PROVE  B[<<f, k>>] = B[<<g, k>>]
    <3>1. ~(k < 10) => f[k \div 10] = g[k \div 10]
      BY <1>2, <2>3
    <3>2. Body(f, k) = Body(g, k)
      BY <3>1
    <3> HIDE DEF Body
    <3> QED BY <1>1, <3>2
  <2> QED BY <2>1, <2>2, <2>3 DEF LooksDown
<1>5. Defines(Nat, V, B)
  <2>1. << >> \in V
    OBVIOUS
  <2> HIDE DEF V, r
  <2> QED BY <1>4, <2>1, RecursionDefines
<1>6. PICK f \in [Nat -> V] : \A n \in Nat : f[n] = B[<<f, n>>]
  BY <1>5 DEF Defines
<1>7. f = [n \in Nat |-> Body(f, n)]
  <2>1. \A n \in Nat : f[n] = Body(f, n)
    BY <1>1, <1>6
  <2> HIDE DEF Body
  <2> QED BY <2>1
<1>8. Decimal = [n \in Nat |-> Body(Decimal, n)]
  <2>1. \E g : g = [n \in Nat |-> Body(g, n)]
    BY <1>7
  <2> QED BY <2>1 DEF Decimal
<1>9. ASSUME NEW n \in Nat PROVE Decimal[n] = Body(Decimal, n)
  <2> HIDE DEF Body
  <2> QED BY <1>8
<1>10. \A n \in Nat : Decimal[n] \in V
  <2> DEFINE T == {n \in Nat : Decimal[n] \notin V}
  <2>1. CASE T = {}
    BY <2>1
  <2>2. CASE T # {}
    <3>1. PICK n \in T : \A m \in T : n <= m
      BY <2>2, Least
    <3> DEFINE d == n \div 10
    <3>2. n \in Nat /\ Decimal[n] \notin V
      BY <3>1
    <3>3. ~(n < 10) => d \in Nat /\ d < n
      BY <1>2, <3>2
    <3> DEFINE s == IF n < 10 THEN << >> ELSE Decimal[d]
    <3>4. s \in Seq(Nat)
      <4>1. << >> \in Seq(Nat)
        OBVIOUS
      <4>2. ~(n < 10) => Decimal[d] \in Seq(Nat)
        <5> HIDE DEF d
        <5> QED BY <3>1, <3>2, <3>3
      <4> QED BY <4>1, <4>2
    <3>5. Decimal[n] = s \o <<Zero + (n % 10)>>
      BY <1>9, <3>2
    <3>6. Zero + (n % 10) \in Nat
      BY <3>2 DEF Zero
    <3> HIDE DEF s
    <3>7. s \o <<Zero + (n % 10)>> \in Seq(Nat)
      BY <3>4, <3>6
    <3> QED BY <3>2, <3>5, <3>7
  <2> QED BY <2>1, <2>2
<1> QED BY <1>8, <1>9, <1>10

\* A decimal number by its digits, from the right.
LEMMA DecimalIs ==
  ASSUME NEW n \in Nat
  PROVE  /\ Decimal[n] \in Seq(Nat) /\ Len(Decimal[n]) \in Nat \ {0}
         /\ Len(Decimal[n]) = IF n < 10 THEN 1 ELSE Len(Decimal[n \div 10]) + 1
         /\ Digit(Decimal[n], 1) = n % 10
         /\ \A k \in Nat \ {0} :
              Digit(Decimal[n], k + 1) = Digit(Decimal[n \div 10], k)
<1> DEFINE d == n \div 10
           e == Zero + (n % 10)
           s == IF n < 10 THEN << >> ELSE Decimal[d]
<1>1. d \in Nat /\ e \in Nat /\ e - Zero = n % 10 /\ (n < 10 => d = 0)
  BY DEF Zero
<1>2. Decimal[n] = s \o <<e>> /\ Decimal[d] \in Seq(Nat)
  BY <1>1, DecimalDef
<1>3. Decimal[0] = <<Zero>>
  <2>1. Decimal[0] = << >> \o <<Zero + (0 % 10)>>
    <3>1. 0 \in Nat /\ 0 < 10
      OBVIOUS
    <3> QED BY <3>1, DecimalDef, Zenon
  <2>2. Zero + (0 % 10) = Zero /\ Zero \in Nat
    BY DEF Zero
  <2>3. << >> \o <<Zero>> = <<Zero>>
    BY <2>2
  <2> QED BY <2>1, <2>2, <2>3
<1>4. s \in Seq(Nat) /\ (n < 10 => s = << >>) /\ (~(n < 10) => s = Decimal[d])
  BY <1>2
<1> HIDE DEF d, e, s
<1>5. Len(s) \in Nat /\ (n < 10 => Len(s) = 0)
  BY <1>4
<1>6. /\ s \o <<e>> \in Seq(Nat) /\ Len(s \o <<e>>) = Len(s) + 1
      /\ (s \o <<e>>)[Len(s) + 1] = e
      /\ \A i \in 1..Len(s) : (s \o <<e>>)[i] = s[i]
  BY <1>1, <1>4, <1>5
<1>7. Digit(Decimal[n], 1) = n % 10
  <2>1. 1 <= Len(s) + 1 /\ (Len(s) + 1) + 1 - 1 = Len(s) + 1
    BY <1>5
  <2> QED BY <1>1, <1>2, <1>6, <2>1 DEF Digit
<1>8. ASSUME NEW k \in Nat \ {0}
      PROVE  Digit(Decimal[n], k + 1) = Digit(Decimal[d], k)
  <2>1. Digit(Decimal[n], k + 1) = Digit(s, k)
    <3>1. CASE k <= Len(s)
      <4>1. /\ k + 1 <= Len(s) + 1 /\ (Len(s) + 1) + 1 - (k + 1) = Len(s) + 1 - k
            /\ Len(s) + 1 - k \in 1..Len(s)
        BY <1>5, <3>1
      <4> QED BY <1>2, <1>6, <3>1, <4>1 DEF Digit
    <3>2. CASE ~(k <= Len(s))
      <4>1. ~(k + 1 <= Len(s) + 1)
        BY <1>5, <3>2
      <4> QED BY <1>2, <1>6, <3>2, <4>1 DEF Digit
    <3> QED BY <3>1, <3>2
  <2>2. CASE n < 10
    <3>1. Digit(s, k) = 0
      <4>1. ~(k <= Len(s))
        BY <1>5, <2>2
      <4> QED BY <4>1 DEF Digit
    <3>2. Digit(<<Zero>>, k) = 0
      <4>1. Len(<<Zero>>) = 1 /\ <<Zero>>[1] = Zero /\ Zero - Zero = 0
        BY DEF Zero
      <4>2. k <= 1 => 1 + 1 - k = 1
        OBVIOUS
      <4> QED BY <4>1, <4>2 DEF Digit
    <3> QED BY <1>1, <1>3, <2>1, <2>2, <3>1, <3>2
  <2>3. CASE ~(n < 10)
    BY <1>4, <2>1, <2>3
  <2> QED BY <2>2, <2>3
<1>9. Len(s) + 1 \in Nat \ {0}
  BY <1>5
<1>10. Len(Decimal[n]) = IF n < 10 THEN 1 ELSE Len(Decimal[d]) + 1
  <2>1. n < 10 => Len(s) + 1 = 1
    BY <1>5
  <2> QED BY <1>2, <1>4, <1>6, <2>1
<1> QED BY <1>2, <1>6, <1>7, <1>8, <1>9, <1>10 DEF d

\* What is left of n without its last k digits.
Cut[k \in Nat] ==
  [n \in Nat |-> IF k = 0 THEN n ELSE Cut[k - 1][n \div 10]]

\* A number without its last k digits.
LEMMA CutDef ==
  /\ \A k \in Nat, n \in Nat : Cut[k][n] \in Nat
  /\ \A n \in Nat : Cut[0][n] = n
  /\ \A k \in Nat, n \in Nat : Cut[k + 1][n] = Cut[k][n \div 10]
<1> DEFINE V == [Nat -> Nat]
           v == [n \in Nat |-> n]
           Shifted(f) == [n \in Nat |-> f[n \div 10]]
           G == [x \in V \X Nat |-> Shifted(x[1])]
           Body(f, k) == [n \in Nat |-> IF k = 0 THEN n ELSE f[k - 1][n \div 10]]
<1>1. \A n \in Nat : n \div 10 \in Nat
  OBVIOUS
<1>2. ASSUME NEW f \in V, NEW k \in Nat
      PROVE  G[<<f, k>>] = Shifted(f) /\ Shifted(f) \in V
  <2>1. Shifted(f) \in V
    BY <1>1
  <2>2. <<f, k>> \in V \X Nat /\ <<f, k>>[1] = f
    OBVIOUS
  <2> HIDE DEF Shifted, V
  <2> QED BY <2>1, <2>2
<1>3. G \in [V \X Nat -> V]
  <2>1. \A x \in V \X Nat : Shifted(x[1]) \in V
    <3>1. \A x \in V \X Nat : x[1] \in V
      OBVIOUS
    <3>2. \A f \in V : Shifted(f) \in V
      BY <1>1
    <3> HIDE DEF Shifted, V
    <3> QED BY <3>1, <3>2
  <2> HIDE DEF Shifted, V
  <2> QED BY <2>1
<1> HIDE DEF G
<1>4. v \in V
  OBVIOUS
<1>5. Loops(V, v, G)
  <2> HIDE DEF V, v
  <2> QED BY <1>3, <1>4, Iterates
<1>6. PICK f \in [Nat -> V] :
        \A k \in Nat : f[k] = IF k = 0 THEN v ELSE G[<<f[k - 1], k>>]
  <2> HIDE DEF V, v
  <2> QED BY <1>5 DEF Loops
<1>7. f = [k \in Nat |-> Body(f, k)]
  <2>1. ASSUME NEW k \in Nat PROVE f[k] = Body(f, k)
    <3>1. CASE k = 0
      BY <1>6, <3>1
    <3>2. CASE k # 0
      <4>1. k - 1 \in Nat
        BY <3>2
      <4>2. f[k - 1] \in V
        BY <4>1
      <4>3. f[k] = G[<<f[k - 1], k>>]
        BY <1>6, <3>2
      <4> HIDE DEF V
      <4>4. f[k] = Shifted(f[k - 1])
        BY <1>2, <4>2, <4>3
      <4> QED BY <3>2, <4>4
    <3> QED BY <3>1, <3>2
  <2> HIDE DEF Body
  <2> QED BY <2>1
<1>8. Cut = [k \in Nat |-> Body(Cut, k)]
  <2>1. \E g : g = [k \in Nat |-> Body(g, k)]
    BY <1>7
  <2> QED BY <2>1 DEF Cut
<1>9. \A k \in Nat : Cut[k] = Body(Cut, k)
  <2> HIDE DEF Body
  <2> QED BY <1>8
<1>10. ASSUME NEW k \in Nat, NEW n \in Nat
       PROVE  Cut[k][n] = IF k = 0 THEN n ELSE Cut[k - 1][n \div 10]
  BY <1>9
<1>11. \A k \in Nat, n \in Nat : Cut[k + 1][n] = Cut[k][n \div 10]
  <2> TAKE k \in Nat, n \in Nat
  <2>1. k + 1 \in Nat /\ k + 1 # 0 /\ (k + 1) - 1 = k
    OBVIOUS
  <2> QED BY <1>10, <2>1
<1>12. \A k \in Nat : Cut[k] \in V
  <2>1. Cut[0] = v
    BY <1>9
  <2>2. ASSUME NEW k \in Nat, Cut[k] \in V PROVE Cut[k + 1] \in V
    <3>1. k + 1 \in Nat /\ k + 1 # 0 /\ (k + 1) - 1 = k
      OBVIOUS
    <3>2. Cut[k + 1] = [n \in Nat |-> Cut[k][n \div 10]]
      BY <1>9, <3>1
    <3> QED BY <1>1, <2>2, <3>2
  <2>3. Cut[0] \in V
    BY <1>4, <2>1
  <2> HIDE DEF V
  <2> QED BY <2>2, <2>3, Stays
<1> QED BY <1>10, <1>11, <1>12

\* The tenth of a cut number is the number cut once more.
LEMMA CutOnce ==
  ASSUME NEW k \in Nat, NEW n \in Nat
  PROVE  Cut[k + 1][n] = Cut[k][n] \div 10
<1> DEFINE T == {j \in Nat : \E m \in Nat : Cut[j + 1][m] # Cut[j][m] \div 10}
<1>1. CASE T = {}
  BY <1>1
<1>2. CASE T # {}
  <2>1. PICK j \in T : \A l \in T : j <= l
    BY <1>2, Least
  <2>2. PICK m \in Nat : Cut[j + 1][m] # Cut[j][m] \div 10
    BY <2>1
  <2>3. j \in Nat /\ m \div 10 \in Nat
    BY <2>1
  <2>4. Cut[j + 1][m] = Cut[j][m \div 10]
    BY <2>3, CutDef
  <2>5. j # 0
    <3>1. ASSUME j = 0 PROVE FALSE
      <4>1. Cut[0][m \div 10] = m \div 10 /\ Cut[0][m] = m
        BY <2>3, CutDef
      <4> QED BY <2>2, <2>4, <3>1, <4>1
    <3> QED BY <3>1
  <2>6. j - 1 \in Nat /\ j - 1 \notin T /\ (j - 1) + 1 = j
    BY <2>1, <2>3, <2>5
  <2>7. Cut[j][m \div 10] = Cut[j - 1][m \div 10] \div 10
    BY <2>3, <2>6
  <2>8. Cut[j][m] = Cut[j - 1][m \div 10]
    BY <2>3, <2>6, CutDef
  <2> QED BY <2>2, <2>4, <2>7, <2>8
<1> QED BY <1>1, <1>2

\* Numbers keep their order when digits are cut off.
LEMMA CutKeepsOrder ==
  ASSUME NEW k \in Nat, NEW m \in Nat, NEW n \in Nat, m <= n
  PROVE  Cut[k][m] <= Cut[k][n]
<1> DEFINE T == {j \in Nat : ~(Cut[j][m] <= Cut[j][n])}
<1>1. CASE T = {}
  BY <1>1
<1>2. CASE T # {}
  <2>1. PICK j \in T : \A l \in T : j <= l
    BY <1>2, Least
  <2>2. j # 0
    <3>1. Cut[0][m] = m /\ Cut[0][n] = n
      BY CutDef
    <3> QED BY <2>1, <3>1
  <2>3. j - 1 \in Nat /\ j - 1 \notin T /\ (j - 1) + 1 = j
    BY <2>1, <2>2
  <2>4. /\ Cut[j - 1][m] <= Cut[j - 1][n]
        /\ Cut[j - 1][m] \in Nat /\ Cut[j - 1][n] \in Nat
    BY <2>3, CutDef
  <2>5. Cut[j][m] = Cut[j - 1][m] \div 10 /\ Cut[j][n] = Cut[j - 1][n] \div 10
    BY <2>3, CutOnce
  <2> QED BY <2>1, <2>4, <2>5
<1> QED BY <1>1, <1>2

\* Nothing is left of nothing.
LEMMA CutOfNothing ==
  ASSUME NEW k \in Nat
  PROVE  Cut[k][0] = 0
<1>1. Cut[0][0] \in {0}
  BY CutDef
<1>2. ASSUME NEW j \in Nat PROVE Cut[j + 1][0] = Cut[j][0]
  BY CutDef
<1> DEFINE f == [j \in Nat |-> Cut[j][0]]
           V == {0}
<1>3. f[0] \in V
  BY <1>1
<1>4. \A j \in Nat : f[j] \in V => f[j + 1] \in V
  BY <1>2
<1>5. \A j \in Nat : f[j] \in V
  <2> HIDE DEF f, V
  <2> QED BY <1>3, <1>4, Stays
<1> QED BY <1>5

\* The places of a number from the right, and how many there are.
LEMMA DigitOfDecimal ==
  ASSUME NEW k \in Nat, NEW n \in Nat
  PROVE  Digit(Decimal[n], k + 1) = Cut[k][n] % 10
<1> DEFINE T == {j \in Nat : \E m \in Nat :
                   Digit(Decimal[m], j + 1) # Cut[j][m] % 10}
<1>1. CASE T = {}
  BY <1>1
<1>2. CASE T # {}
  <2>1. PICK j \in T : \A l \in T : j <= l
    BY <1>2, Least
  <2>2. PICK m \in Nat : Digit(Decimal[m], j + 1) # Cut[j][m] % 10
    BY <2>1
  <2>3. j \in Nat /\ m \div 10 \in Nat
    BY <2>1
  <2>4. j # 0
    <3>1. Digit(Decimal[m], 1) = m % 10 /\ Cut[0][m] = m /\ 0 + 1 = 1
      <4>1. Digit(Decimal[m], 1) = m % 10
        BY DecimalIs
      <4> QED BY <4>1, CutDef
    <3> QED BY <2>2, <3>1
  <2>5. j - 1 \in Nat /\ j - 1 \notin T /\ (j - 1) + 1 = j /\ j \in Nat \ {0}
    BY <2>1, <2>3, <2>4
  <2>6. Digit(Decimal[m \div 10], j) = Cut[j - 1][m \div 10] % 10
    BY <2>3, <2>5
  <2>7. Digit(Decimal[m], j + 1) = Digit(Decimal[m \div 10], j)
    BY <2>5, DecimalIs
  <2>8. Cut[j][m] = Cut[j - 1][m \div 10]
    BY <2>5, CutDef
  <2> QED BY <2>2, <2>6, <2>7, <2>8
<1> QED BY <1>1, <1>2

\* A number has k digits at most when nothing is left without them.
LEMMA LengthOfDecimal ==
  ASSUME NEW k \in Nat \ {0}, NEW n \in Nat
  PROVE  Len(Decimal[n]) <= k <=> Cut[k][n] = 0
<1> DEFINE T == {j \in Nat \ {0} : \E m \in Nat :
                   ~(Len(Decimal[m]) <= j <=> Cut[j][m] = 0)}
<1>1. CASE T = {}
  BY <1>1
<1>2. CASE T # {}
  <2>1. PICK j \in T : \A l \in T : j <= l
    BY <1>2, Least
  <2>2. PICK m \in Nat : ~(Len(Decimal[m]) <= j <=> Cut[j][m] = 0)
    BY <2>1
  <2>3. j \in Nat \ {0} /\ m \div 10 \in Nat
    BY <2>1
  <2> DEFINE d == m \div 10
  <2>4. /\ Len(Decimal[m]) \in Nat \ {0} /\ Len(Decimal[d]) \in Nat \ {0}
        /\ Len(Decimal[m]) = IF m < 10 THEN 1 ELSE Len(Decimal[d]) + 1
    BY <2>3, DecimalIs
  <2>5. m < 10 <=> d = 0
    OBVIOUS
  <2>6. j - 1 \in Nat /\ (j - 1) + 1 = j
    BY <2>3
  <2>7. Cut[j][m] = Cut[j - 1][d]
    BY <2>6, CutDef
  <2>8. d \in Nat
    BY <2>3
  <2> HIDE DEF d
  <2>9. CASE m < 10
    <3>1. Cut[j - 1][d] = 0
      BY <2>5, <2>6, <2>9, CutOfNothing
    <3>2. Len(Decimal[m]) <= j
      BY <2>3, <2>4, <2>9
    <3> QED BY <2>2, <2>7, <3>1, <3>2
  <2>10. CASE ~(m < 10) /\ j = 1
    <3>1. Cut[j - 1][d] = d
      <4>1. j - 1 = 0
        BY <2>10
      <4> QED BY <2>8, <4>1, CutDef
    <3>2. ~(Len(Decimal[m]) <= j)
      BY <2>4, <2>10
    <3> QED BY <2>2, <2>5, <2>7, <2>10, <3>1, <3>2
  <2>11. CASE ~(m < 10) /\ j # 1
    <3>1. j - 1 \in Nat \ {0} /\ j - 1 \notin T
      BY <2>1, <2>3, <2>11
    <3>2. Len(Decimal[d]) <= j - 1 <=> Cut[j - 1][d] = 0
      BY <2>8, <3>1
    <3>3. Len(Decimal[m]) <= j <=> Len(Decimal[d]) <= j - 1
      BY <2>3, <2>4, <2>11
    <3> QED BY <2>2, <2>7, <3>2, <3>3
  <2> QED BY <2>9, <2>10, <2>11
<1> QED BY <1>1, <1>2

\* The digits of a number, written from the right, k of them.
Written(s, n, k) ==
  /\ s \in Seq(Nat) /\ Len(s) = k
  /\ \A i \in 1..k : s[i] = Zero + Digit(Decimal[n], k + 1 - i)

\* The next digit in front.
LEMMA WrittenOn ==
  ASSUME NEW n \in Nat, NEW k \in Nat, NEW s, Written(s, n, k),
         NEW d \in Nat, d = Zero + (Cut[k][n] % 10)
  PROVE  Written(<<d>> \o s, n, k + 1)
<1>1. s \in Seq(Nat) /\ Len(s) = k
  BY DEF Written
<1>2. /\ <<d>> \o s \in Seq(Nat) /\ Len(<<d>> \o s) = k + 1
      /\ (<<d>> \o s)[1] = d
      /\ \A i \in 1..k : (<<d>> \o s)[i + 1] = s[i]
  BY <1>1, InFront
<1>3. ASSUME NEW i \in 1..(k + 1)
      PROVE  (<<d>> \o s)[i] = Zero + Digit(Decimal[n], (k + 1) + 1 - i)
  <2>1. CASE i = 1
    <3>1. (k + 1) + 1 - i = k + 1
      BY <2>1
    <3> QED BY <1>2, <2>1, <3>1, DigitOfDecimal
  <2>2. CASE i # 1
    <3>1. i - 1 \in 1..k /\ (i - 1) + 1 = i /\ k + 1 - (i - 1) = (k + 1) + 1 - i
      BY <2>2
    <3>2. s[i - 1] = Zero + Digit(Decimal[n], k + 1 - (i - 1))
      BY <3>1 DEF Written
    <3> QED BY <1>2, <3>1, <3>2
  <2> QED BY <2>1, <2>2
<1> QED BY <1>2, <1>3 DEF Written

\* All digits of a number are the number.
LEMMA AllWritten ==
  ASSUME NEW n \in Nat, NEW s, Written(s, n, Len(Decimal[n]))
  PROVE  s = Decimal[n]
<1> DEFINE L == Len(Decimal[n])
<1>1. Decimal[n] \in Seq(Nat) /\ L \in Nat
  BY DecimalIs
<1>2. ASSUME NEW i \in 1..L PROVE s[i] = Decimal[n][i]
  <2>1. /\ L + 1 - i <= L /\ L + 1 - (L + 1 - i) = i
    BY <1>1
  <2>2. Digit(Decimal[n], L + 1 - i) = Decimal[n][i] - Zero
    BY <2>1 DEF Digit
  <2>3. Decimal[n][i] \in Nat
    BY <1>1, ElementOfSeq
  <2> HIDE DEF L
  <2>4. s[i] = Zero + (Decimal[n][i] - Zero)
    BY <2>2 DEF Written, L
  <2>5. Zero \in Nat
    BY DEF Zero
  <2> QED BY <2>3, <2>4, <2>5
<1>3. s \in Seq(Nat) /\ Len(s) = L
  BY DEF Written
<1> HIDE DEF L
<1>4. Len(Decimal[n]) = L
  BY DEF L
<1> QED BY <1>1, <1>2, <1>3, <1>4, SeqEqual

\* BigInt's sum of two numbers is the sum of the numbers.
THEOREM SumIsRight ==
  ASSUME NEW l \in Nat, NEW r \in Nat
  PROVE  Plus(Decimal[l], Decimal[r]) = Decimal[l + r]
<1> DEFINE a == Decimal[l]
           b == Decimal[r]
           n == l + r
           L == Places(a, b)
           Carry(s) == IF s.flag THEN 1 ELSE 0
<1>1. a \in Seq(Nat) /\ b \in Seq(Nat)
  BY DecimalIs
<1>2. /\ Len(a) \in Nat \ {0} /\ Len(b) \in Nat \ {0} /\ L \in Nat \ {0}
      /\ Len(a) <= L /\ Len(b) <= L /\ (L = Len(a) \/ L = Len(b))
  <2>1. Len(a) \in Nat \ {0} /\ Len(b) \in Nat \ {0}
    BY DecimalIs
  <2> QED BY <2>1 DEF Places
<1>3. PICK sum \in [Nat -> Sums] :
        /\ sum[0] = None
        /\ \A k \in Nat : sum[k + 1] = AddPlace(a, b, sum[k], k + 1)
        /\ Plus(a, b) = (IF sum[L].flag THEN <<Zero + 1>> ELSE << >>)
                          \o sum[L].digits
  BY <1>1, PlusDef
<1> DEFINE Right(k) == /\ Cut[k][n] = Cut[k][l] + Cut[k][r] + Carry(sum[k])
                       /\ Written(sum[k].digits, n, k)
           V == {k \in Nat : Right(k)}
           f == [k \in Nat |-> k]
<1>4. n \in Nat
  OBVIOUS
<1>5. Right(0)
  <2>1. Cut[0][n] = n /\ Cut[0][l] = l /\ Cut[0][r] = r
    BY <1>4, CutDef
  <2>2. sum[0].digits = << >> /\ Carry(sum[0]) = 0
    BY <1>3 DEF None
  <2>3. Written(<< >>, n, 0)
    BY DEF Written
  <2> QED BY <2>1, <2>2, <2>3
<1> HIDE DEF a, b, n, L
<1>6. ASSUME NEW k \in Nat, Right(k) PROVE Right(k + 1)
  <2> DEFINE x == Cut[k][l]
             y == Cut[k][r]
             c == Carry(sum[k])
             z == Cut[k][n]
             ret == (x % 10) + (y % 10) + c
  <2>1. x \in Nat /\ y \in Nat /\ z \in Nat /\ c \in 0..1 /\ z = x + y + c
    BY <1>4, <1>6, CutDef
  <2>2. Digit(a, k + 1) = x % 10 /\ Digit(b, k + 1) = y % 10
    BY DigitOfDecimal DEF a, b
  <2>3. sum[k + 1] = [digits |-> <<Zero + (ret % 10)>> \o sum[k].digits,
                      flag |-> ret >= 10]
    BY <1>3, <2>2 DEF AddPlace
  <2>4. sum[k + 1].digits = <<Zero + (ret % 10)>> \o sum[k].digits
    BY <2>3
  <2>5. Carry(sum[k + 1]) = IF ret >= 10 THEN 1 ELSE 0
    <3>1. sum[k + 1].flag = (ret >= 10)
      BY <2>3
    <3> HIDE DEF ret
    <3> QED BY <3>1
  <2>6. /\ Cut[k + 1][l] = x \div 10 /\ Cut[k + 1][r] = y \div 10
        /\ Cut[k + 1][n] = z \div 10
    BY <1>4, CutOnce
  <2> HIDE DEF x, y, z, c
  <2>7. /\ ret % 10 = z % 10
        /\ z \div 10 = (x \div 10) + (y \div 10)
                         + IF ret >= 10 THEN 1 ELSE 0
    BY <2>1
  <2>8. Zero + (ret % 10) \in Nat /\ Zero + (ret % 10) = Zero + (z % 10)
    BY <2>1, <2>7 DEF Zero
  <2>9. Written(<<Zero + (ret % 10)>> \o sum[k].digits, n, k + 1)
    <3>1. Written(sum[k].digits, n, k)
      BY <1>6
    <3> HIDE DEF ret, Right
    <3> QED BY <1>4, <2>8, <3>1, WrittenOn DEF z
  <2> QED BY <2>4, <2>5, <2>6, <2>7, <2>9
<1>7. Right(L)
  <2>1. f[0] \in V
    BY <1>5
  <2>2. \A k \in Nat : f[k] \in V => f[k + 1] \in V
    BY <1>6
  <2>3. \A k \in Nat : f[k] \in V
    <3> HIDE DEF V, f
    <3> QED BY <2>1, <2>2, Stays
  <2>4. f[L] \in V
    BY <1>2, <2>3
  <2> QED BY <1>2, <2>4
<1> DEFINE s == sum[L].digits
           c == Carry(sum[L])
<1>8. Cut[L][n] = c /\ c \in 0..1 /\ (sum[L].flag <=> c = 1)
  <2>1. Cut[L][l] = 0 /\ Cut[L][r] = 0
    BY <1>2, LengthOfDecimal DEF a, b
  <2>2. sum[L].flag \in BOOLEAN
    BY <1>2 DEF Sums
  <2> QED BY <1>7, <2>1, <2>2
<1>9. Written(s, n, L)
  BY <1>7
<1>10. Len(Decimal[n]) \in Nat \ {0}
  BY <1>4, DecimalIs
<1>11. CASE c = 1
  <2>1. ~(Len(Decimal[n]) <= L)
    BY <1>2, <1>4, <1>8, <1>11, LengthOfDecimal
  <2>2. L \in Nat /\ L + 1 \in Nat \ {0} /\ 1 \div 10 = 0
    BY <1>2
  <2>3. Cut[L + 1][n] = 0
    <3>1. Cut[L + 1][n] = Cut[L][n] \div 10
      BY <1>4, <2>2, CutOnce
    <3> QED BY <1>8, <1>11, <2>2, <3>1
  <2>4. Len(Decimal[n]) <= L + 1
    BY <1>4, <2>2, <2>3, LengthOfDecimal
  <2>5. Len(Decimal[n]) = L + 1
    BY <1>2, <1>10, <2>1, <2>4
  <2>6. Zero + 1 \in Nat /\ Zero + 1 = Zero + (Cut[L][n] % 10)
    BY <1>8, <1>11 DEF Zero
  <2> HIDE DEF s
  <2>7. Written(<<Zero + 1>> \o s, n, L + 1)
    BY <1>2, <1>4, <1>9, <2>6, WrittenOn
  <2>8. Plus(a, b) = <<Zero + 1>> \o s
    BY <1>3, <1>8, <1>11 DEF s
  <2> QED BY <1>4, <2>5, <2>7, <2>8, AllWritten DEF a, b, n
<1>12. CASE c = 0
  <2>1. Len(Decimal[n]) <= L
    BY <1>2, <1>4, <1>8, <1>12, LengthOfDecimal
  <2>2. ASSUME L # 1 PROVE ~(Len(Decimal[n]) <= L - 1)
    <3>1. L - 1 \in Nat \ {0} /\ (~(Len(a) <= L - 1) \/ ~(Len(b) <= L - 1))
      BY <1>2, <2>2
    <3>2. Cut[L - 1][l] # 0 \/ Cut[L - 1][r] # 0
      BY <3>1, LengthOfDecimal DEF a, b
    <3>3. l <= n /\ r <= n
      BY DEF n
    <3>4. Cut[L - 1][l] <= Cut[L - 1][n] /\ Cut[L - 1][r] <= Cut[L - 1][n]
      BY <1>4, <3>1, <3>3, CutKeepsOrder
    <3>5. /\ Cut[L - 1][l] \in Nat /\ Cut[L - 1][r] \in Nat
          /\ Cut[L - 1][n] \in Nat
      BY <1>4, <3>1, CutDef
    <3>6. Cut[L - 1][n] # 0
      BY <3>2, <3>4, <3>5
    <3> QED BY <1>4, <3>1, <3>6, LengthOfDecimal
  <2>3. Len(Decimal[n]) = L
    BY <1>2, <1>10, <2>1, <2>2
  <2>4. Plus(a, b) = << >> \o s
    <3>1. ~sum[L].flag
      BY <1>8, <1>12
    <3> QED BY <1>3, <3>1
  <2>5. s \in Seq(Nat)
    BY <1>9 DEF Written
  <2> HIDE DEF s
  <2>6. << >> \o s = s
    BY <2>5
  <2> QED BY <1>4, <1>9, <2>3, <2>4, <2>6, AllWritten DEF a, b, n
<1> QED BY <1>8, <1>11, <1>12

\* Subtracting one place gives a sum of digits again.
LEMMA SubtractPlaceIs ==
  ASSUME NEW max \in Seq(Nat), NEW min \in Seq(Nat), NEW rest \in Sums,
         NEW k \in Nat \ {0}
  PROVE  SubtractPlace(max, min, rest, k) \in Sums
<1>1. Digit(max, k) \in Int /\ Digit(min, k) \in Int
  BY DigitIs
<1> DEFINE ret == Digit(max, k) - Digit(min, k) - IF rest.flag THEN 1 ELSE 0
<1>2. ret \in Int
  BY <1>1
<1>3. SubtractPlace(max, min, rest, k) =
        [digits |-> <<Zero + (ret % 10)>> \o rest.digits, flag |-> ret < 0]
  BY DEF SubtractPlace
<1> HIDE DEF ret
<1>4. Zero + (ret % 10) \in Nat
  BY <1>2 DEF Zero
<1>5. rest.digits \in Seq(Nat)
  BY DEF Sums
<1>6. <<Zero + (ret % 10)>> \o rest.digits \in Seq(Nat)
  BY <1>4, <1>5, InFront
<1>7. (ret < 0) \in BOOLEAN
  OBVIOUS
<1> QED BY <1>3, <1>6, <1>7 DEF Sums

\* The places of a difference, from the last one on.
IsSubtracted(l, r, max, min) ==
  \E rest \in [Nat -> Sums] :
    /\ rest[0] = None
    /\ \A k \in Nat : rest[k + 1] = SubtractPlace(max, min, rest[k], k + 1)
    /\ l # r => Difference(l, r) =
                  NoLeadingZeros(rest[Len(max)].digits)
                    \o (IF Below(l, r) THEN <<Minus>> ELSE << >>)

\* The difference of two numbers is computed from its last place on.
LEMMA DifferenceDef ==
  ASSUME NEW l \in Seq(Nat), NEW r \in Seq(Nat),
         NEW max, max = IF Below(l, r) THEN r ELSE l,
         NEW min, min = IF Below(l, r) THEN l ELSE r
  PROVE  IsSubtracted(l, r, max, min)
<1> DEFINE G == [x \in Sums \X Nat |->
                   IF x[2] = 0 THEN None ELSE SubtractPlace(max, min, x[1], x[2])]
           rest == CHOOSE f : f = [k \in Nat |->
                     IF k = 0 THEN None ELSE SubtractPlace(max, min, f[k - 1], k)]
<1>1. l # r => Difference(l, r) =
                 NoLeadingZeros(rest[Len(max)].digits)
                   \o (IF Below(l, r) THEN <<Minus>> ELSE << >>)
  BY DEF Difference
<1>a. max \in Seq(Nat) /\ min \in Seq(Nat)
  OBVIOUS
<1>2. ASSUME NEW s \in Sums, NEW k \in Nat
      PROVE  /\ G[<<s, k>>] = IF k = 0 THEN None
                              ELSE SubtractPlace(max, min, s, k)
             /\ G[<<s, k>>] \in Sums
  <2>1. G[<<s, k>>] = IF k = 0 THEN None ELSE SubtractPlace(max, min, s, k)
    OBVIOUS
  <2> HIDE DEF G
  <2> QED BY <1>a, <2>1, SubtractPlaceIs, NoneIs
<1>3. G \in [Sums \X Nat -> Sums]
  <2>1. \A x \in Sums \X Nat : x[1] \in Sums /\ x[2] \in Nat /\ x = <<x[1], x[2]>>
    OBVIOUS
  <2>2. G = [x \in Sums \X Nat |-> G[x]]
    OBVIOUS
  <2> HIDE DEF G
  <2>3. \A x \in Sums \X Nat : G[x] \in Sums
    BY <1>2, <2>1
  <2> QED BY <2>2, <2>3
<1> HIDE DEF G
<1>4. PICK f \in [Nat -> Sums] :
        \A k \in Nat : f[k] = IF k = 0 THEN None ELSE G[<<f[k - 1], k>>]
  <2>1. Loops(Sums, None, G)
    BY <1>3, NoneIs, Iterates
  <2> QED BY <2>1 DEF Loops
<1>5. \A k \in Nat : k # 0 => k - 1 \in Nat
  OBVIOUS
<1>6. f = [k \in Nat |->
             IF k = 0 THEN None ELSE SubtractPlace(max, min, f[k - 1], k)]
  <2>1. ASSUME NEW k \in Nat
        PROVE  f[k] = IF k = 0 THEN None
                      ELSE SubtractPlace(max, min, f[k - 1], k)
    BY <1>2, <1>4, <1>5
  <2> QED BY <2>1
<1>7. rest = [k \in Nat |->
                IF k = 0 THEN None ELSE SubtractPlace(max, min, rest[k - 1], k)]
  BY <1>6
<1> HIDE DEF rest
<1>8. ASSUME NEW k \in Nat
      PROVE  rest[k] = IF k = 0 THEN None
                       ELSE SubtractPlace(max, min, rest[k - 1], k)
  BY <1>7
<1>9. rest[0] = None
  BY <1>8
<1>10. \A k \in Nat : rest[k + 1] = SubtractPlace(max, min, rest[k], k + 1)
  <2> TAKE k \in Nat
  <2>1. k + 1 \in Nat /\ k + 1 # 0 /\ (k + 1) - 1 = k
    OBVIOUS
  <2>2. rest[k + 1] = SubtractPlace(max, min, rest[(k + 1) - 1], k + 1)
    BY <1>8, <2>1
  <2> QED BY <2>1, <2>2
<1>11. rest \in [Nat -> Sums]
  <2>1. rest[0] \in Sums
    BY <1>9, NoneIs
  <2>2. ASSUME NEW k \in Nat, rest[k] \in Sums PROVE rest[k + 1] \in Sums
    <3>1. k + 1 \in Nat \ {0}
      OBVIOUS
    <3>2. SubtractPlace(max, min, rest[k], k + 1) \in Sums
      BY <1>a, <2>2, <3>1, SubtractPlaceIs
    <3> QED BY <1>10, <3>2
  <2> QED BY <1>7, <2>1, <2>2, Stays
<1> QED BY <1>1, <1>9, <1>10, <1>11 DEF IsSubtracted

\* A place of a decimal number.
LEMMA PlaceOfDecimal ==
  ASSUME NEW n \in Nat, NEW i \in 1..Len(Decimal[n])
  PROVE  /\ Decimal[n][i] \in Nat
         /\ Decimal[n][i] = Zero + (Cut[Len(Decimal[n]) - i][n] % 10)
<1> DEFINE s == Decimal[n]
           j == Len(s) - i
<1>1. s \in Seq(Nat) /\ Len(s) \in Nat
  BY DecimalIs
<1>2. s[i] \in Nat
  BY <1>1, ElementOfSeq
<1>3. j \in Nat /\ j + 1 <= Len(s) /\ Len(s) + 1 - (j + 1) = i
  BY <1>1
<1>4. Digit(s, j + 1) = Cut[j][n] % 10
  BY <1>3, DigitOfDecimal
<1>5. Digit(s, j + 1) = s[i] - Zero
  BY <1>3 DEF Digit
<1>6. Cut[j][n] \in Nat /\ Zero \in Nat
  BY <1>3, CutDef DEF Zero
<1> HIDE DEF s, j
<1>7. s[i] = Zero + (Cut[j][n] % 10)
  BY <1>2, <1>4, <1>5, <1>6
<1> QED BY <1>2, <1>7 DEF s, j

\* Numbers of the same length that begin with the same digits.
LEMMA SameBeginning ==
  ASSUME NEW m \in Nat, NEW n \in Nat, Len(Decimal[m]) = Len(Decimal[n]),
         NEW i \in 0..Len(Decimal[m]),
         \A j \in 1..i : Decimal[m][j] = Decimal[n][j]
  PROVE  Cut[Len(Decimal[m]) - i][m] = Cut[Len(Decimal[m]) - i][n]
<1> DEFINE L == Len(Decimal[m])
           T == {j \in 0..i : Cut[L - j][m] # Cut[L - j][n]}
<1>1. CASE T = {}
  <2>1. L \in Nat /\ i \in 0..i
    <3>1. L \in Nat
      BY DecimalIs
    <3> HIDE DEF L
    <3>2. i \in 0..L
      BY DEF L
    <3> QED BY <3>1, <3>2
  <2>2. i \notin T
    BY <1>1
  <2> HIDE DEF L
  <2>3. Cut[L - i][m] = Cut[L - i][n]
    BY <2>1, <2>2
  <2> QED BY <2>3 DEF L
<1>2. CASE T # {}
  <2>1. L \in Nat \ {0} /\ Len(Decimal[n]) = L /\ i \in Nat /\ i <= L
    BY DecimalIs
  <2>2. PICK j \in T : \A k \in T : j <= k
    <3>1. T \in SUBSET Nat
      BY <2>1
    <3> HIDE DEF T
    <3> QED BY <1>2, <3>1, Least
  <2>3. j \in 0..i /\ Cut[L - j][m] # Cut[L - j][n]
    BY <2>2
  <2>4. Cut[L][m] = 0 /\ Cut[L][n] = 0
    <3>1. Len(Decimal[m]) <= L /\ Len(Decimal[n]) <= L
      BY <2>1
    <3> QED BY <2>1, <3>1, LengthOfDecimal
  <2>5. j # 0
    <3>1. j = 0 => L - j = L
      BY <2>1
    <3> QED BY <2>3, <2>4, <3>1
  <2>6. /\ j - 1 \in 0..i /\ j - 1 < j /\ j \in 1..i /\ L - j \in Nat
        /\ L - (j - 1) = (L - j) + 1 /\ j \in 1..L
    BY <2>1, <2>3, <2>5
  <2>7. Cut[(L - j) + 1][m] = Cut[(L - j) + 1][n]
    <3>1. j - 1 \notin T
      <4>1. ~(j <= j - 1)
        BY <2>6
      <4> HIDE DEF T
      <4> QED BY <2>2, <4>1
    <3>2. Cut[L - (j - 1)][m] = Cut[L - (j - 1)][n]
      BY <2>6, <3>1
    <3> QED BY <2>6, <3>2
  <2> DEFINE x == Cut[L - j][m]
             y == Cut[L - j][n]
  <2>8. x \div 10 = y \div 10
    BY <2>6, <2>7, CutOnce
  <2>9. Zero + (x % 10) = Zero + (y % 10)
    <3>1. Decimal[m][j] = Zero + (x % 10)
      BY <2>6, PlaceOfDecimal
    <3>2. Decimal[n][j] = Zero + (y % 10)
      BY <2>1, <2>6, PlaceOfDecimal
    <3>3. Decimal[m][j] = Decimal[n][j]
      BY <2>6
    <3> QED BY <3>1, <3>2, <3>3
  <2>10. x \in Nat /\ y \in Nat /\ Zero \in Nat
    BY <2>6, CutDef DEF Zero
  <2>11. x # y
    BY <2>3
  <2> HIDE DEF x, y
  <2>12. (x % 10) = (y % 10)
    BY <2>9, <2>10
  <2> QED BY <2>8, <2>10, <2>11, <2>12
<1> QED BY <1>1, <1>2

\* Different numbers are written differently.
LEMMA DecimalIsInjective ==
  ASSUME NEW m \in Nat, NEW n \in Nat, Decimal[m] = Decimal[n]
  PROVE  m = n
<1> DEFINE L == Len(Decimal[m])
<1>1. L \in Nat /\ L \in 0..L /\ L - L = 0 /\ Len(Decimal[n]) = L
  BY DecimalIs
<1>2. Cut[L - L][m] = Cut[L - L][n]
  BY <1>1, SameBeginning
<1> QED BY <1>1, <1>2, CutDef

\* The order of numbers of the same length that first differ at one place.
LEMMA FirstDifference ==
  ASSUME NEW m \in Nat, NEW n \in Nat, Len(Decimal[m]) = Len(Decimal[n]),
         NEW i \in 1..Len(Decimal[m]), Decimal[m][i] < Decimal[n][i],
         \A j \in 1..(i - 1) : Decimal[m][j] = Decimal[n][j]
  PROVE  m < n
<1> DEFINE L == Len(Decimal[m])
           x == Cut[L - i][m]
           y == Cut[L - i][n]
<1>1. L \in Nat /\ Len(Decimal[n]) = L
  BY DecimalIs
<1>2. i - 1 \in 0..L /\ L - i \in Nat /\ L - (i - 1) = (L - i) + 1
  BY <1>1
<1>3. Cut[(L - i) + 1][m] = Cut[(L - i) + 1][n]
  <2>1. Cut[L - (i - 1)][m] = Cut[L - (i - 1)][n]
    BY <1>1, <1>2, SameBeginning
  <2> QED BY <1>2, <2>1
<1>4. x \div 10 = y \div 10
  BY <1>2, <1>3, CutOnce
<1>5. Decimal[m][i] = Zero + (x % 10) /\ Decimal[n][i] = Zero + (y % 10)
  BY <1>1, PlaceOfDecimal
<1>6. x \in Nat /\ y \in Nat /\ Zero \in Nat
  BY <1>2, CutDef DEF Zero
<1>7. n <= m => y <= x
  BY <1>2, CutKeepsOrder
<1> HIDE DEF x, y
<1>8. (x % 10) < (y % 10)
  BY <1>5, <1>6
<1>9. x < y
  BY <1>4, <1>6, <1>8
<1> QED BY <1>6, <1>7, <1>9

\* The number with fewer digits is the smaller one.
LEMMA ShorterIsLess ==
  ASSUME NEW m \in Nat, NEW n \in Nat, Len(Decimal[m]) < Len(Decimal[n])
  PROVE  m < n
<1> DEFINE L == Len(Decimal[m])
<1>1. L \in Nat \ {0} /\ Len(Decimal[n]) \in Nat
  BY DecimalIs
<1>2. Cut[L][m] = 0
  BY <1>1, LengthOfDecimal
<1>3. Cut[L][n] # 0
  BY <1>1, LengthOfDecimal
<1>4. n <= m => Cut[L][n] <= Cut[L][m]
  BY <1>1, CutKeepsOrder
<1>5. Cut[L][n] \in Nat
  BY <1>1, CutDef
<1> QED BY <1>2, <1>3, <1>4, <1>5

\* The order of the characters is the order of the numbers.
LEMMA BelowIsLess ==
  ASSUME NEW m \in Nat, NEW n \in Nat
  PROVE  Below(Decimal[m], Decimal[n]) <=> m < n
<1> DEFINE s == Decimal[m]
           t == Decimal[n]
<1>1. /\ s \in Seq(Nat) /\ t \in Seq(Nat) /\ Len(s) \in Nat /\ Len(t) \in Nat
  BY DecimalIs
<1>2. ASSUME Below(s, t) PROVE m < n
  <2>1. CASE Len(s) < Len(t)
    BY <2>1, ShorterIsLess
  <2>2. CASE /\ Len(s) = Len(t)
             /\ \E i \in 1..Len(s) : /\ s[i] < t[i]
                                     /\ \A j \in 1..(i - 1) : s[j] = t[j]
    BY <2>2, FirstDifference
  <2> QED BY <1>2, <2>1, <2>2 DEF Below
<1>3. ASSUME m < n PROVE Below(s, t)
  <2>1. ~(n < m) /\ m # n
    BY <1>3
  <2>2. ~(Len(t) < Len(s))
    BY <2>1, ShorterIsLess
  <2>3. CASE Len(s) < Len(t)
    BY <2>3 DEF Below
  <2>4. CASE Len(s) = Len(t)
    <3> DEFINE T == {i \in 1..Len(s) : s[i] # t[i]}
    <3>1. T # {}
      <4>1. s # t
        BY <2>1, DecimalIsInjective
      <4> HIDE DEF s, t
      <4>2. ~(\A i \in 1..Len(s) : s[i] = t[i])
        BY <1>1, <2>4, <4>1, SeqEqual
      <4> QED BY <4>2
    <3>2. PICK i \in T : \A j \in T : i <= j
      <4>1. T \in SUBSET Nat
        BY <1>1
      <4> HIDE DEF T
      <4> QED BY <3>1, <4>1, Least
    <3>3. i \in 1..Len(s) /\ i \in 1..Len(t) /\ s[i] # t[i]
      BY <2>4, <3>2
    <3>4. \A j \in 1..(i - 1) : s[j] = t[j]
      <4>1. ASSUME NEW j \in 1..(i - 1) PROVE j \in 1..Len(s) /\ ~(i <= j)
        BY <1>1, <3>3
      <4> QED BY <3>2, <4>1
    <3>5. s[i] \in Nat /\ t[i] \in Nat
      BY <3>3, PlaceOfDecimal
    <3>6. ~(t[i] < s[i])
      <4>1. \A j \in 1..(i - 1) : t[j] = s[j]
        BY <3>4
      <4> QED BY <2>1, <2>4, <3>3, <4>1, FirstDifference
    <3>7. s[i] < t[i]
      BY <3>3, <3>5, <3>6
    <3> QED BY <2>4, <3>3, <3>4, <3>7 DEF Below
  <2> QED BY <1>1, <2>2, <2>3, <2>4
<1> QED BY <1>2, <1>3

\* Without its leading zeros a number is as it is written.
LEMMA ZerosDropped ==
  ASSUME NEW n \in Nat \ {0}, NEW L \in Nat, Len(Decimal[n]) <= L,
         NEW s, Written(s, n, L)
  PROVE  NoLeadingZeros(s) = Decimal[n]
<1> DEFINE M == Len(Decimal[n])
           a == (L - M) + 1
           kept == {i \in DOMAIN s : s[i] # Zero}
           t == SubSeq(s, a, L)
<1>1. M \in Nat \ {0} /\ n \in Nat
  BY DecimalIs
<1>2. s \in Seq(Nat) /\ Len(s) = L /\ DOMAIN s = 1..L
  BY DEF Written
<1>3. a \in 1..L /\ a \in Nat /\ L - a + 1 = M /\ L + 1 - a = (M - 1) + 1
  BY <1>1
<1>4. \A i \in 1..L : s[i] = Zero + Digit(Decimal[n], L + 1 - i)
  BY DEF Written
<1> HIDE DEF a
<1>5. s[a] # Zero
  <2> DEFINE x == Cut[M - 1][n]
             y == Cut[(M - 1) + 1][n]
  <2>1. M - 1 \in Nat /\ (M - 1) + 1 = M /\ ~(M <= M - 1)
    BY <1>1
  <2>2. x \in Nat /\ y = x \div 10
    BY <1>1, <2>1, CutDef, CutOnce
  <2>3. y = 0
    BY <1>1, <2>1, LengthOfDecimal
  <2>4. x # 0
    <3>1. CASE M = 1
      <4>1. M - 1 = 0
        BY <3>1
      <4>2. x = n
        BY <1>1, <4>1, CutDef
      <4> QED BY <4>2
    <3>2. CASE M # 1
      <4>1. M - 1 \in Nat \ {0}
        BY <1>1, <3>2
      <4> QED BY <1>1, <2>1, <4>1, LengthOfDecimal
    <3> QED BY <3>1, <3>2
  <2>5. s[a] = Zero + (x % 10)
    BY <1>1, <1>3, <1>4, <2>1, DigitOfDecimal
  <2> HIDE DEF x, y
  <2>6. x % 10 # 0
    BY <2>2, <2>3, <2>4
  <2>7. x % 10 \in Nat
    BY <2>2
  <2> QED BY <2>5, <2>6, <2>7 DEF Zero
<1>6. ASSUME NEW i \in 1..L, s[i] # Zero PROVE a <= i
  <2> SUFFICES ASSUME ~(a <= i) PROVE FALSE
    OBVIOUS
  <2>1. ~(L + 1 - i <= M)
    BY <1>1, <1>3 DEF a
  <2>2. Digit(Decimal[n], L + 1 - i) = 0
    BY <2>1 DEF Digit
  <2>3. s[i] = Zero + 0
    BY <1>4, <2>2
  <2> QED BY <1>6, <2>3 DEF Zero
<1>7. kept # {} /\ a \in kept /\ \A j \in kept : a <= j
  BY <1>2, <1>3, <1>5, <1>6
<1>8. (CHOOSE i \in kept : \A j \in kept : i <= j) = a
  <2>1. kept \subseteq Nat
    BY <1>2
  <2> HIDE DEF kept
  <2> DEFINE b == CHOOSE i \in kept : \A j \in kept : i <= j
  <2>2. b \in kept /\ \A j \in kept : b <= j
    BY <1>7
  <2> HIDE DEF b
  <2>3. b <= a /\ a <= b /\ b \in Nat
    BY <1>7, <2>1, <2>2
  <2>4. b = a
    BY <1>3, <2>3
  <2> QED BY <2>4 DEF b
<1>9. NoLeadingZeros(s) = t
  BY <1>2, <1>7, <1>8 DEF NoLeadingZeros
<1>10. Written(t, n, M)
  <2>1. \A i \in a..L : s[i] \in Nat
    <3>1. \A i \in a..L : i \in 1..L
      BY <1>3
    <3> QED BY <1>2, <3>1, ElementOfSeq
  <2>2. a \in Int /\ L \in Int /\ a <= L
    BY <1>3
  <2>3. /\ t \in Seq(Nat) /\ Len(t) = M
        /\ \A i \in 1..M : t[i] = s[a + i - 1]
    BY <1>3, <2>1, <2>2, SubSeqProperties
  <2>4. ASSUME NEW i \in 1..M
        PROVE  t[i] = Zero + Digit(Decimal[n], M + 1 - i)
    <3>1. a + i - 1 \in 1..L /\ L + 1 - (a + i - 1) = M + 1 - i
      BY <1>1, <1>3 DEF a
    <3> HIDE DEF t, M
    <3> QED BY <1>4, <2>3, <3>1
  <2> HIDE DEF t
  <2> QED BY <2>3, <2>4 DEF Written
<1> QED BY <1>1, <1>9, <1>10, AllWritten

\* BigInt's difference of two numbers is their distance, and the sign of a
\* negative one is its last character.
THEOREM DifferenceIsRight ==
  ASSUME NEW l \in Nat, NEW r \in Nat
  PROVE  Difference(Decimal[l], Decimal[r]) =
           IF l < r THEN Append(Decimal[r - l], Minus) ELSE Decimal[l - r]
<1> DEFINE a == Decimal[l]
           b == Decimal[r]
           minor == Below(a, b)
           max == IF minor THEN b ELSE a
           min == IF minor THEN a ELSE b
           p == IF l < r THEN r ELSE l
           q == IF l < r THEN l ELSE r
           n == p - q
           L == Len(max)
           Borrow(s) == IF s.flag THEN 1 ELSE 0
<1>1. a \in Seq(Nat) /\ b \in Seq(Nat)
  BY DecimalIs
<1>2. minor <=> l < r
  BY BelowIsLess
<1>3. max = Decimal[p] /\ min = Decimal[q] /\ p \in Nat /\ q \in Nat /\ n \in Nat
  BY <1>2
<1>4. CASE l = r
  <2>1. a = b /\ ~(l < r) /\ l - r = 0
    BY <1>4
  <2>2. Difference(a, b) = <<Zero>>
    BY <2>1 DEF Difference
  <2>3. Decimal[0] = <<Zero>>
    <3>1. 0 \in Nat /\ 0 < 10
      OBVIOUS
    <3>2. Decimal[0] = << >> \o <<Zero + (0 % 10)>>
      BY <3>1, DecimalDef, Zenon
    <3>3. Zero + (0 % 10) = Zero /\ Zero \in Nat
      BY DEF Zero
    <3>4. << >> \o <<Zero>> = <<Zero>>
      BY <3>3
    <3> QED BY <3>2, <3>3, <3>4
  <2> QED BY <2>1, <2>2, <2>3
<1>5. CASE l # r
  <2>1. a # b
    BY <1>5, DecimalIsInjective
  <2>2. PICK rest \in [Nat -> Sums] :
          /\ rest[0] = None
          /\ \A k \in Nat : rest[k + 1] = SubtractPlace(max, min, rest[k], k + 1)
          /\ Difference(a, b) =
               NoLeadingZeros(rest[L].digits)
                 \o (IF minor THEN <<Minus>> ELSE << >>)
    <3>1. /\ max = IF Below(a, b) THEN b ELSE a
          /\ min = IF Below(a, b) THEN a ELSE b
      OBVIOUS
    <3> HIDE DEF a, b, max, min
    <3>2. IsSubtracted(a, b, max, min)
      BY <1>1, <3>1, DifferenceDef
    <3> QED BY <2>1, <3>2 DEF IsSubtracted
  <2>3. n \in Nat \ {0} /\ n <= p
    BY <1>5
  <2> HIDE DEF minor, max, min, p, q, n
  <2> DEFINE Right(k) == /\ Cut[k][p] = Cut[k][n] + Cut[k][q] + Borrow(rest[k])
                         /\ Written(rest[k].digits, n, k)
             V == {k \in Nat : Right(k)}
             f == [k \in Nat |-> k]
  <2>4. Right(0)
    <3>1. Cut[0][n] = n /\ Cut[0][p] = p /\ Cut[0][q] = q
      BY <1>3, CutDef
    <3>2. rest[0].digits = << >> /\ Borrow(rest[0]) = 0
      BY <2>2 DEF None
    <3>3. Written(<< >>, n, 0)
      BY DEF Written
    <3>4. p = n + q + 0
      BY <1>3 DEF n
    <3> QED BY <3>1, <3>2, <3>3, <3>4
  <2>5. ASSUME NEW k \in Nat, Right(k) PROVE Right(k + 1)
    <3> DEFINE x == Cut[k][p]
               y == Cut[k][q]
               c == Borrow(rest[k])
               z == Cut[k][n]
               ret == (x % 10) - (y % 10) - c
    <3>1. x \in Nat /\ y \in Nat /\ z \in Nat /\ c \in 0..1 /\ x = z + y + c
      BY <1>3, <2>5, CutDef
    <3>2. Digit(max, k + 1) = x % 10 /\ Digit(min, k + 1) = y % 10
      BY <1>3, DigitOfDecimal
    <3>3. rest[k + 1] = [digits |-> <<Zero + (ret % 10)>> \o rest[k].digits,
                         flag |-> ret < 0]
      BY <2>2, <3>2 DEF SubtractPlace
    <3>4. rest[k + 1].digits = <<Zero + (ret % 10)>> \o rest[k].digits
      BY <3>3
    <3>5. Borrow(rest[k + 1]) = IF ret < 0 THEN 1 ELSE 0
      <4>1. rest[k + 1].flag = (ret < 0)
        BY <3>3
      <4> HIDE DEF ret
      <4> QED BY <4>1
    <3>6. /\ Cut[k + 1][p] = x \div 10 /\ Cut[k + 1][q] = y \div 10
          /\ Cut[k + 1][n] = z \div 10
      BY <1>3, CutOnce
    <3> HIDE DEF x, y, z, c
    <3>7. /\ ret % 10 = z % 10
          /\ x \div 10 = (z \div 10) + (y \div 10) + IF ret < 0 THEN 1 ELSE 0
      BY <3>1
    <3>8. Zero + (ret % 10) \in Nat /\ Zero + (ret % 10) = Zero + (z % 10)
      BY <3>1, <3>7 DEF Zero
    <3>9. Written(<<Zero + (ret % 10)>> \o rest[k].digits, n, k + 1)
      <4>1. Written(rest[k].digits, n, k)
        BY <2>5
      <4> HIDE DEF ret, Right
      <4> QED BY <1>3, <3>8, <4>1, WrittenOn DEF z
    <3> QED BY <3>4, <3>5, <3>6, <3>7, <3>9
  <2>6. L \in Nat
    BY <1>3, DecimalIs
  <2>7. Right(L)
    <3>1. f[0] \in V
      BY <2>4
    <3>2. \A k \in Nat : f[k] \in V => f[k + 1] \in V
      BY <2>5
    <3>3. \A k \in Nat : f[k] \in V
      <4> HIDE DEF V, f
      <4> QED BY <3>1, <3>2, Stays
    <3>4. f[L] \in V
      BY <2>6, <3>3
    <3> QED BY <2>6, <3>4
  <2>8. Len(Decimal[n]) <= L
    <3>1. ~(p < n) /\ Len(Decimal[n]) \in Nat /\ L = Len(Decimal[p])
      <4>1. ~(p < n)
        BY <1>3, <2>3
      <4>2. Len(Decimal[n]) \in Nat
        BY <1>3, DecimalIs
      <4> QED BY <1>3, <4>1, <4>2
    <3>2. ~(Len(Decimal[p]) < Len(Decimal[n]))
      BY <1>3, <3>1, ShorterIsLess
    <3> QED BY <2>6, <3>1, <3>2
  <2>9. NoLeadingZeros(rest[L].digits) = Decimal[n]
    <3>1. Written(rest[L].digits, n, L)
      BY <2>7
    <3> QED BY <2>3, <2>6, <2>8, <3>1, ZerosDropped
  <2>10. Decimal[n] \in Seq(Nat)
    BY <1>3, DecimalIs
  <2>11. CASE l < r
    <3>1. Difference(a, b) = Decimal[n] \o <<Minus>> /\ n = r - l
      BY <1>2, <2>2, <2>9, <2>11 DEF n, p, q
    <3>2. Minus \in Nat
      BY DEF Minus
    <3>3. Decimal[n] \o <<Minus>> = Append(Decimal[n], Minus)
      BY <2>10, <3>2, AppendIsConcat
    <3> QED BY <2>11, <3>1, <3>3
  <2>12. CASE ~(l < r)
    <3>1. Difference(a, b) = Decimal[n] \o << >> /\ n = l - r
      BY <1>2, <2>2, <2>9, <2>12 DEF n, p, q
    <3>2. Decimal[n] \o << >> = Decimal[n]
      BY <2>10
    <3> QED BY <2>12, <3>1, <3>2
  <2> QED BY <2>11, <2>12
<1> QED BY <1>4, <1>5

-----------------------------------------------------------------------------
(* The K most frequent values.                                             *)
\* The heaps after some of the values: one at least, each made from one before.
HeapsAfter(counts) ==
  \E after \in [Nat -> SUBSET (SUBSET Nat)] :
    /\ after[0] = {{}} /\ Heaps(counts) = after[Len(counts)]
    /\ \A i \in Nat :
         after[i + 1] = UNION {Insert(counts, heap, i + 1) : heap \in after[i]}

\* The heaps are made from one value after the other.
LEMMA HeapsDef ==
  ASSUME NEW counts \in Seq(Nat)
  PROVE  HeapsAfter(counts)
<1> DEFINE V == SUBSET (SUBSET Nat)
           Body(S, i) == UNION {Insert(counts, heap, i) : heap \in S}
           G == [x \in V \X Nat |->
                   IF x[2] = 0 THEN {{}} ELSE Body(x[1], x[2])]
           after == CHOOSE f : f = [i \in Nat |->
                      IF i = 0 THEN {{}} ELSE Body(f[i - 1], i)]
<1>1. Heaps(counts) = after[Len(counts)]
  BY DEF Heaps
<1>2. ASSUME NEW S \in V, NEW i \in Nat PROVE Body(S, i) \in V
  <2>1. ASSUME NEW heap \in S, NEW h \in Insert(counts, heap, i)
        PROVE  h \in SUBSET Nat
    BY <2>1 DEF Insert, Tops
  <2> QED BY <2>1
<1>3. {{}} \in V
  OBVIOUS
<1> HIDE DEF Body
<1>4. ASSUME NEW S \in V, NEW i \in Nat
      PROVE  /\ G[<<S, i>>] = IF i = 0 THEN {{}} ELSE Body(S, i)
             /\ G[<<S, i>>] \in V
  <2>1. <<S, i>> \in V \X Nat /\ <<S, i>>[1] = S /\ <<S, i>>[2] = i
    OBVIOUS
  <2> HIDE DEF V
  <2>2. G[<<S, i>>] = IF i = 0 THEN {{}} ELSE Body(S, i)
    BY <2>1
  <2> HIDE DEF G
  <2> QED BY <1>2, <1>3, <2>2
<1>5. G \in [V \X Nat -> V]
  <2>1. \A x \in V \X Nat : x[1] \in V /\ x[2] \in Nat /\ x = <<x[1], x[2]>>
    OBVIOUS
  <2>2. G = [x \in V \X Nat |-> G[x]]
    OBVIOUS
  <2> HIDE DEF G, V
  <2>3. \A x \in V \X Nat : G[x] \in V
    BY <1>4, <2>1
  <2> QED BY <2>2, <2>3
<1> HIDE DEF G, V
<1>6. Loops(V, {{}}, G)
  BY <1>3, <1>5, Iterates
<1>7. PICK f \in [Nat -> V] :
        \A i \in Nat : f[i] = IF i = 0 THEN {{}} ELSE G[<<f[i - 1], i>>]
  BY <1>6 DEF Loops
<1>8. \A i \in Nat : i # 0 => i - 1 \in Nat
  OBVIOUS
<1>9. f = [i \in Nat |-> IF i = 0 THEN {{}} ELSE Body(f[i - 1], i)]
  <2>1. \A i \in Nat : f[i] = IF i = 0 THEN {{}} ELSE Body(f[i - 1], i)
    BY <1>4, <1>7, <1>8
  <2> QED BY <2>1
<1>10. after = [i \in Nat |-> IF i = 0 THEN {{}} ELSE Body(after[i - 1], i)]
  BY <1>9
<1> HIDE DEF after
<1>11. ASSUME NEW i \in Nat
       PROVE  after[i] = IF i = 0 THEN {{}} ELSE Body(after[i - 1], i)
  BY <1>10
<1>12. after[0] = {{}}
  BY <1>11
<1>13. \A i \in Nat : after[i + 1] = Body(after[i], i + 1)
  <2> TAKE i \in Nat
  <2>1. i + 1 \in Nat /\ i + 1 # 0 /\ (i + 1) - 1 = i
    OBVIOUS
  <2>2. after[i + 1] = Body(after[(i + 1) - 1], i + 1)
    BY <1>11, <2>1
  <2> QED BY <2>1, <2>2
<1>14. after \in [Nat -> V]
  <2>1. after[0] \in V
    BY <1>3, <1>12
  <2>2. ASSUME NEW i \in Nat, after[i] \in V PROVE after[i + 1] \in V
    <3>1. i + 1 \in Nat
      OBVIOUS
    <3> QED BY <1>2, <1>13, <2>2, <3>1
  <2> QED BY <1>10, <2>1, <2>2, Stays
<1>15. \A i \in Nat :
         after[i + 1] = UNION {Insert(counts, heap, i + 1) : heap \in after[i]}
  BY <1>13 DEF Body
<1> QED BY <1>1, <1>12, <1>14, <1>15 DEF HeapsAfter, V

\* The heap holds K of the first n values, or all of them, and none that occurs
\* less often than one it dropped.
Kept(counts, heap, n) ==
  /\ heap \subseteq 1..n
  /\ Cardinality(heap) = IF n < K THEN n ELSE K
  /\ \A i \in heap, j \in (1..n) \ heap : counts[i] >= counts[j]

\* One more value leaves the most frequent ones on every heap.
LEMMA InsertKeeps ==
  ASSUME K \in Nat \ {0}, NEW counts \in Seq(Nat), NEW n \in Nat,
         n + 1 <= Len(counts), NEW heap, Kept(counts, heap, n)
  PROVE  /\ Insert(counts, heap, n + 1) # {}
         /\ \A h \in Insert(counts, heap, n + 1) : Kept(counts, h, n + 1)
<1>1. /\ IsFiniteSet(1..n) /\ Cardinality(1..n) = n
  <2>1. 1 \in Int /\ n \in Int /\ (1 > n <=> n = 0) /\ n - 1 + 1 = n
    OBVIOUS
  <2>2. Cardinality(1..n) = IF 1 > n THEN 0 ELSE n - 1 + 1
    BY <2>1, FS_Interval
  <2>3. IsFiniteSet(1..n)
    BY <2>1, FS_Interval
  <2> QED BY <2>1, <2>2, <2>3
<1>2. IsFiniteSet(heap) /\ heap \subseteq 1..n
  BY <1>1, FS_Subset DEF Kept
<1>3. n + 1 \notin heap
  BY <1>2
<1>4. /\ IsFiniteSet(heap \cup {n + 1})
      /\ Cardinality(heap \cup {n + 1}) = Cardinality(heap) + 1
  BY <1>2, <1>3, FS_AddElement
<1>5. \A i \in 1..(n + 1) : counts[i] \in Nat
  <2>1. \A i \in 1..(n + 1) : i \in 1..Len(counts)
    OBVIOUS
  <2> QED BY <2>1, ElementOfSeq
<1>6. CASE n + 1 <= K
  <2>1. Cardinality(heap) = n
    BY <1>6 DEF Kept
  <2>2. heap = 1..n
    BY <1>1, <1>2, <2>1, FS_Subset
  <2>3. heap \cup {n + 1} = 1..(n + 1)
    BY <2>2
  <2>4. Cardinality(heap \cup {n + 1}) = IF n + 1 < K THEN n + 1 ELSE K
    BY <1>4, <1>6, <2>1
  <2>5. Insert(counts, heap, n + 1) = {heap \cup {n + 1}}
    BY <1>6 DEF Insert
  <2>6. Kept(counts, heap \cup {n + 1}, n + 1)
    BY <2>3, <2>4 DEF Kept
  <2> QED BY <2>5, <2>6
<1>7. CASE ~(n + 1 <= K)
  <2>1. Cardinality(heap) = K /\ ~(n + 1 < K) /\ ~(n < K)
    BY <1>7 DEF Kept
  <2>2. Tops(counts, heap) # {}
    <3> DEFINE T == {counts[i] : i \in heap}
    <3>1. heap # {}
      BY <2>1, FS_EmptySet
    <3>2. T \in SUBSET Nat
      BY <1>2, <1>5
    <3>3. T # {}
      BY <3>1
    <3>4. PICK m \in T : \A x \in T : m <= x
      <4> HIDE DEF T
      <4> QED BY <3>2, <3>3, Least
    <3>5. PICK i \in heap : m = counts[i]
      BY <3>4
    <3>6. i \in Tops(counts, heap)
      BY <3>4, <3>5 DEF Tops
    <3> QED BY <3>6
  <2>3. Insert(counts, heap, n + 1) =
          {IF counts[n + 1] > counts[top] THEN (heap \ {top}) \cup {n + 1}
           ELSE heap : top \in Tops(counts, heap)}
    BY <1>7 DEF Insert
  <2>4. ASSUME NEW top \in Tops(counts, heap),
               NEW h, h = IF counts[n + 1] > counts[top]
                          THEN (heap \ {top}) \cup {n + 1} ELSE heap
        PROVE  Kept(counts, h, n + 1)
    <3>1. /\ top \in heap /\ top \in 1..n
          /\ \A j \in heap : counts[top] <= counts[j]
      BY <1>2 DEF Tops
    <3>2. /\ \A i \in 1..n : counts[i] \in Nat
          /\ counts[n + 1] \in Nat /\ counts[top] \in Nat
      BY <1>5, <3>1
    <3>3. \A i \in heap, j \in (1..n) \ heap : counts[i] >= counts[j]
      BY DEF Kept
    <3>4. \A j \in 1..(n + 1) : j \in 1..n \/ j = n + 1
      OBVIOUS
    <3>5. CASE counts[n + 1] > counts[top]
      <4>1. h = (heap \ {top}) \cup {n + 1}
        BY <2>4, <3>5
      <4>2. Cardinality(h) = K
        <5>1. /\ IsFiniteSet(heap \ {top})
              /\ Cardinality(heap \ {top}) = Cardinality(heap) - 1
          BY <1>2, <3>1, FS_RemoveElement
        <5>2. n + 1 \notin heap \ {top}
          BY <1>3
        <5>3. Cardinality(h) = Cardinality(heap \ {top}) + 1
          BY <4>1, <5>1, <5>2, FS_AddElement
        <5> QED BY <2>1, <5>1, <5>3
      <4>3. h \subseteq 1..(n + 1)
        <5>1. n + 1 \in 1..(n + 1) /\ \A i \in 1..n : i \in 1..(n + 1)
          OBVIOUS
        <5> QED BY <1>2, <4>1, <5>1
      <4>4. ASSUME NEW i \in h, NEW j \in (1..(n + 1)) \ h
            PROVE  counts[i] >= counts[j]
        <5>1. j \in 1..n /\ (j = top \/ j \notin heap)
          BY <3>4, <4>1
        <5>2. counts[j] \in Nat /\ counts[top] >= counts[j]
          BY <3>1, <3>2, <3>3, <5>1
        <5>3. i \in 1..(n + 1) /\ (i = n + 1 \/ i \in heap)
          BY <4>1, <4>3
        <5>4. counts[i] \in Nat /\ counts[top] <= counts[i]
          BY <1>5, <3>1, <3>2, <3>5, <5>3
        <5> QED BY <3>2, <5>2, <5>4
      <4> QED BY <2>1, <4>2, <4>3, <4>4 DEF Kept
    <3>6. CASE ~(counts[n + 1] > counts[top])
      <4>1. h = heap
        BY <2>4, <3>6
      <4>2. h \subseteq 1..(n + 1)
        BY <1>2, <4>1
      <4>3. ASSUME NEW i \in h, NEW j \in (1..(n + 1)) \ h
            PROVE  counts[i] >= counts[j]
        <5>1. CASE j = n + 1
          <6>1. counts[i] \in Nat /\ counts[top] <= counts[i]
            BY <1>2, <3>1, <3>2, <4>1
          <6> QED BY <3>2, <3>6, <5>1, <6>1
        <5>2. CASE j # n + 1
          BY <3>3, <3>4, <4>1, <5>2
        <5> QED BY <5>1, <5>2
      <4> QED BY <2>1, <4>1, <4>2, <4>3 DEF Kept
    <3> QED BY <3>5, <3>6
  <2> QED BY <2>2, <2>3, <2>4
<1> QED BY <1>6, <1>7

\* The heap ends with K of the values, or all of them, and none of those occurs
\* less often than one it dropped, whichever of equal ones were on top.
THEOREM TopIsRight ==
  ASSUME K \in Nat \ {0}, NEW counts \in Seq(Nat)
  PROVE  TopIsKept(counts) /\ Heaps(counts) # {}
<1> DEFINE n == Len(counts)
           V == SUBSET (SUBSET Nat)
           Good(S, i) == S # {} /\ \A heap \in S : Kept(counts, heap, i)
<1>1. n \in Nat /\ DOMAIN counts = 1..n
  OBVIOUS
<1>2. PICK after \in [Nat -> V] :
        /\ after[0] = {{}} /\ Heaps(counts) = after[n]
        /\ \A i \in Nat :
             after[i + 1] = UNION {Insert(counts, heap, i + 1) : heap \in after[i]}
  BY HeapsDef DEF HeapsAfter
<1> HIDE DEF n
<1> DEFINE W == {i \in Nat : i <= n => Good(after[i], i)}
           f == [i \in Nat |-> i]
<1>3. f[0] \in W
  <2>1. Kept(counts, {}, 0)
    <3>1. Cardinality({}) = 0
      BY FS_EmptySet
    <3> QED BY <3>1 DEF Kept
  <2> QED BY <1>2, <2>1
<1>4. ASSUME NEW i \in Nat, i + 1 <= n, Good(after[i], i)
      PROVE  Good(after[i + 1], i + 1)
  <2>1. \A heap \in after[i] :
          /\ Insert(counts, heap, i + 1) # {}
          /\ \A h \in Insert(counts, heap, i + 1) : Kept(counts, h, i + 1)
    BY <1>4, InsertKeeps DEF n
  <2>2. after[i + 1] = UNION {Insert(counts, heap, i + 1) : heap \in after[i]}
    BY <1>2
  <2> QED BY <1>4, <2>1, <2>2
<1>5. \A i \in Nat : f[i] \in W => f[i + 1] \in W
  <2> HIDE DEF Good
  <2>1. \A i \in Nat : i + 1 \in Nat /\ (i + 1 <= n => i <= n)
    BY <1>1
  <2> QED BY <1>4, <2>1
<1>6. \A i \in Nat : f[i] \in W
  <2> HIDE DEF W, f
  <2> QED BY <1>3, <1>5, Stays
<1>7. Good(Heaps(counts), n)
  <2> HIDE DEF Good
  <2>1. f[n] = n /\ n <= n /\ f[n] \in W
    BY <1>1, <1>6
  <2> QED BY <1>2, <2>1
<1> QED BY <1>1, <1>7 DEF TopIsKept, Kept, n

-----------------------------------------------------------------------------
(* Mazes: cells and the ways between them.                                 *)
\* The cell next to a cell.
LEMMA GoIs ==
  ASSUME NEW c \in Int \X Int
  PROVE  /\ Go(c, "RIGHT") = <<c[1], c[2] + 1>>
         /\ Go(c, "LEFT") = <<c[1], c[2] - 1>>
         /\ Go(c, "UP") = <<c[1] - 1, c[2]>>
         /\ Go(c, "DOWN") = <<c[1] + 1, c[2]>>
         /\ c = <<c[1], c[2]>> /\ c[1] \in Int /\ c[2] \in Int
BY DEF Go

\* A way leads to another cell, and its opposite back.
LEMMA GoThere ==
  ASSUME NEW c \in Int \X Int, NEW way \in Ways
  PROVE  /\ Go(c, way) \in Int \X Int
         /\ Opposite[way] \in Ways
         /\ Go(Go(c, way), Opposite[way]) = c
         /\ Go(c, way) # c
         /\ \A v \in Ways : Go(c, v) = Go(c, way) => v = way
<1>1. /\ Go(c, "RIGHT") = <<c[1], c[2] + 1>>
      /\ Go(c, "LEFT") = <<c[1], c[2] - 1>>
      /\ Go(c, "UP") = <<c[1] - 1, c[2]>>
      /\ Go(c, "DOWN") = <<c[1] + 1, c[2]>>
      /\ c = <<c[1], c[2]>> /\ c[1] \in Int /\ c[2] \in Int
  BY GoIs
<1> DEFINE d == Go(c, way)
<1>2. d \in Int \X Int
  BY <1>1 DEF Ways
<1>3. /\ Go(d, "RIGHT") = <<d[1], d[2] + 1>>
      /\ Go(d, "LEFT") = <<d[1], d[2] - 1>>
      /\ Go(d, "UP") = <<d[1] - 1, d[2]>>
      /\ Go(d, "DOWN") = <<d[1] + 1, d[2]>>
  BY <1>2, GoIs
<1>4. /\ way = "RIGHT" => Opposite[way] = "LEFT"
      /\ way = "LEFT" => Opposite[way] = "RIGHT"
      /\ way = "UP" => Opposite[way] = "DOWN"
      /\ way = "DOWN" => Opposite[way] = "UP"
  BY DEF Opposite
<1>5. /\ way = "RIGHT" => d[1] = c[1] /\ d[2] = c[2] + 1
      /\ way = "LEFT" => d[1] = c[1] /\ d[2] = c[2] - 1
      /\ way = "UP" => d[1] = c[1] - 1 /\ d[2] = c[2]
      /\ way = "DOWN" => d[1] = c[1] + 1 /\ d[2] = c[2]
  BY <1>1
<1> HIDE DEF d
<1>6. Go(d, Opposite[way]) = c
  <2>1. CASE way = "RIGHT"
    BY <1>1, <1>3, <1>4, <1>5, <2>1
  <2>2. CASE way = "LEFT"
    BY <1>1, <1>3, <1>4, <1>5, <2>2
  <2>3. CASE way = "UP"
    BY <1>1, <1>3, <1>4, <1>5, <2>3
  <2>4. CASE way = "DOWN"
    BY <1>1, <1>3, <1>4, <1>5, <2>4
  <2> QED BY <2>1, <2>2, <2>3, <2>4 DEF Ways
<1>7. d # c
  BY <1>1, <1>5 DEF Ways
<1>8. ASSUME NEW v \in Ways, Go(c, v) = d PROVE v = way
  <2>1. /\ v = "RIGHT" => d[1] = c[1] /\ d[2] = c[2] + 1
        /\ v = "LEFT" => d[1] = c[1] /\ d[2] = c[2] - 1
        /\ v = "UP" => d[1] = c[1] - 1 /\ d[2] = c[2]
        /\ v = "DOWN" => d[1] = c[1] + 1 /\ d[2] = c[2]
    BY <1>1, <1>8
  <2> QED BY <1>1, <1>5, <2>1 DEF Ways
<1>9. Opposite[way] \in Ways
  BY <1>4 DEF Ways
<1> QED BY <1>2, <1>6, <1>7, <1>8, <1>9 DEF d

\* A cell is a pair of numbers.
LEMMA CellsArePairs ==
  ASSUME NEW n \in Nat, NEW c \in Cells(n)
  PROVE  c \in Int \X Int
BY DEF Cells

\* Cells are next to each other in both directions.
LEMMA NearBothWays ==
  ASSUME NEW c \in Int \X Int, NEW d
  PROVE  Near(c, d) => d \in Int \X Int /\ Near(d, c) /\ c # d
<1> SUFFICES ASSUME NEW way \in Ways, Go(c, way) = d
             PROVE  d \in Int \X Int /\ Near(d, c) /\ c # d
  BY DEF Near
<1> QED BY GoThere DEF Near

\* Cells next to each other are of different colours.
Colour(c) == (c[1] + c[2]) % 2

\* A step changes the colour.
LEMMA NearDiffers ==
  ASSUME NEW c \in Int \X Int, NEW d, Near(c, d)
  PROVE  Colour(d) = 1 - Colour(c)
<1>1. PICK way \in Ways : Go(c, way) = d
  BY DEF Near
<1>2. /\ Go(c, "RIGHT") = <<c[1], c[2] + 1>>
      /\ Go(c, "LEFT") = <<c[1], c[2] - 1>>
      /\ Go(c, "UP") = <<c[1] - 1, c[2]>>
      /\ Go(c, "DOWN") = <<c[1] + 1, c[2]>>
      /\ c[1] \in Int /\ c[2] \in Int
  BY GoIs
<1> DEFINE s == c[1] + c[2]
           t == d[1] + d[2]
<1>3. s \in Int
  BY <1>2
<1>4. t = s + 1 \/ t = s - 1
  <2>1. CASE way = "RIGHT" \/ way = "DOWN"
    BY <1>1, <1>2, <2>1
  <2>2. CASE way = "LEFT" \/ way = "UP"
    BY <1>1, <1>2, <2>2
  <2> QED BY <2>1, <2>2 DEF Ways
<1> HIDE DEF s, t
<1>5. t % 2 = 1 - (s % 2)
  BY <1>3, <1>4
<1> QED BY <1>5 DEF Colour, s, t

-----------------------------------------------------------------------------
(* Doors between free cells.                                               *)

Leads(state, x, y) == \E way \in Ways : way \in state[x] /\ Go(x, way) = y

\* A door is open from both sides or from none.
Doors(n, free, state) ==
  /\ state \in [Cells(n) -> SUBSET Ways]
  /\ \A x \in Cells(n) : \A way \in state[x] :
       /\ x \in free /\ Go(x, way) \in free
       /\ Opposite[way] \in state[Go(x, way)]

\* At first all doors between free cells next to each other are open.
LEMMA AllDoors ==
  ASSUME NEW n \in Nat, NEW free \in SUBSET Cells(n)
  PROVE  /\ Doors(n, free, NodeStates(n, free))
         /\ \A x \in free, y \in free :
              Near(x, y) => Leads(NodeStates(n, free), x, y)
<1> DEFINE state == NodeStates(n, free)
<1>1. state = [c \in Cells(n) |-> IF c \notin free THEN {}
                                  ELSE {way \in Ways : Go(c, way) \in free}]
  BY DEF NodeStates
<1> HIDE DEF state
<1>2. state \in [Cells(n) -> SUBSET Ways]
  BY <1>1
<1>3. ASSUME NEW x \in Cells(n), NEW way \in state[x]
      PROVE  /\ x \in free /\ Go(x, way) \in free
             /\ Opposite[way] \in state[Go(x, way)]
  <2>1. x \in free /\ way \in Ways /\ Go(x, way) \in free
    BY <1>1
  <2>2. /\ Opposite[way] \in Ways /\ Go(Go(x, way), Opposite[way]) = x
    BY <2>1, CellsArePairs, GoThere
  <2>3. Go(x, way) \in Cells(n)
    BY <2>1
  <2> QED BY <1>1, <2>1, <2>2, <2>3
<1>4. ASSUME NEW x \in free, NEW y \in free, Near(x, y)
      PROVE  Leads(state, x, y)
  BY <1>1, <1>4 DEF Near, Leads
<1> QED BY <1>2, <1>3, <1>4 DEF Doors, state

\* An open door leads from a free cell to a free cell next to it.
LEMMA DoorsAre ==
  ASSUME NEW n \in Nat, NEW free \in SUBSET Cells(n), NEW state,
         Doors(n, free, state)
  PROVE  /\ state \in [Cells(n) -> SUBSET Ways]
         /\ \A x \in Cells(n) : \A y :
              Leads(state, x, y) =>
                x \in free /\ y \in free /\ Near(x, y) /\ Leads(state, y, x)
         /\ \A x \in Cells(n) : state[x] = {} <=> \A y \in free : ~Leads(state, x, y)
<1>1. state \in [Cells(n) -> SUBSET Ways]
  BY DEF Doors
<1>2. ASSUME NEW x \in Cells(n), NEW y, Leads(state, x, y)
      PROVE  x \in free /\ y \in free /\ Near(x, y) /\ Leads(state, y, x)
  <2>1. PICK way \in Ways : way \in state[x] /\ Go(x, way) = y
    BY <1>2 DEF Leads
  <2>2. x \in free /\ y \in free /\ Opposite[way] \in state[y]
    BY <2>1 DEF Doors
  <2>3. Opposite[way] \in Ways /\ Go(y, Opposite[way]) = x
    BY <2>1, CellsArePairs, GoThere
  <2> QED BY <2>1, <2>2, <2>3 DEF Near, Leads
<1>3. ASSUME NEW x \in Cells(n)
      PROVE  state[x] = {} <=> \A y \in free : ~Leads(state, x, y)
  <2>1. ASSUME state[x] = {}, NEW y \in free PROVE ~Leads(state, x, y)
    BY <2>1 DEF Leads
  <2>2. ASSUME state[x] # {} PROVE \E y \in free : Leads(state, x, y)
    <3>1. PICK way \in state[x] : TRUE
      BY <2>2
    <3>2. way \in Ways /\ Go(x, way) \in free
      BY <1>1 DEF Doors
    <3> QED BY <3>2 DEF Leads
  <2> QED BY <2>1, <2>2
<1> QED BY <1>1, <1>2, <1>3

\* A door that is closed is closed from both sides, and no other one is.
Shut(n, free, state, c, way, d, after) ==
  /\ Doors(n, free, after)
  /\ c \in free /\ d \in free /\ Near(c, d) /\ c # d
  /\ Leads(state, c, d)
  /\ way \notin after[c]
  /\ \A x \in Cells(n) : after[x] \subseteq state[x]
  /\ \A x \in Cells(n), y \in Cells(n) :
       Leads(after, x, y) <=> /\ Leads(state, x, y)
                              /\ ~(x = c /\ y = d) /\ ~(x = d /\ y = c)

\* Closing a way closes its door, from both sides.
LEMMA OneClosed ==
  ASSUME NEW n \in Nat, NEW free \in SUBSET Cells(n), NEW state,
         Doors(n, free, state), NEW c \in Cells(n), NEW way \in state[c],
         NEW d, d = Go(c, way), NEW after, after = Closed(state, c, way)
  PROVE  Shut(n, free, state, c, way, d, after)
<1>1. state \in [Cells(n) -> SUBSET Ways]
  BY DEF Doors
<1>2. way \in Ways /\ c \in free /\ d \in free /\ Opposite[way] \in state[d]
  BY <1>1 DEF Doors
<1>3. d \in Cells(n) /\ c \in Int \X Int /\ d \in Int \X Int
  BY <1>2, CellsArePairs
<1>4. /\ Opposite[way] \in Ways /\ Go(d, Opposite[way]) = c /\ d # c
      /\ \A v \in Ways : Go(c, v) = d => v = way
  BY <1>2, <1>3, GoThere
<1>5. \A v \in Ways : Go(d, v) = c => v = Opposite[way]
  BY <1>3, <1>4, GoThere
<1>6. \A x \in Cells(n) :
        after[x] = IF x = c THEN state[x] \ {way}
                   ELSE IF x = d THEN state[x] \ {Opposite[way]} ELSE state[x]
  <2>1. after = [state EXCEPT ![c] = @ \ {way}, ![d] = @ \ {Opposite[way]}]
    BY DEF Closed
  <2> QED BY <1>1, <1>3, <1>4, <2>1
<1>7. after \in [Cells(n) -> SUBSET Ways]
  <2>1. after = [state EXCEPT ![c] = @ \ {way}, ![d] = @ \ {Opposite[way]}]
    BY DEF Closed
  <2> QED BY <1>1, <1>3, <2>1
<1>8. \A x \in Cells(n) : after[x] \subseteq state[x]
  BY <1>6
<1>9. ASSUME NEW x \in Cells(n), NEW v \in Ways
      PROVE  v \in after[x] <=> /\ v \in state[x]
                                /\ ~(x = c /\ Go(x, v) = d)
                                /\ ~(x = d /\ Go(x, v) = c)
  <2>1. CASE x = c
    BY <1>2, <1>4, <1>6, <2>1
  <2>2. CASE x = d
    BY <1>3, <1>4, <1>5, <1>6, <2>2
  <2>3. CASE x # c /\ x # d
    BY <1>6, <2>3
  <2> QED BY <2>1, <2>2, <2>3
<1>10. ASSUME NEW x \in Cells(n), NEW y \in Cells(n)
       PROVE  Leads(after, x, y) <=> /\ Leads(state, x, y)
                                     /\ ~(x = c /\ y = d) /\ ~(x = d /\ y = c)
  BY <1>9 DEF Leads
<1>11. ASSUME NEW x \in Cells(n), NEW v \in after[x]
       PROVE  /\ x \in free /\ Go(x, v) \in free
              /\ Opposite[v] \in after[Go(x, v)]
  <2>1. v \in Ways /\ v \in state[x] /\ x \in Int \X Int
    BY <1>7, <1>8, CellsArePairs
  <2>2. x \in free /\ Go(x, v) \in free /\ Opposite[v] \in state[Go(x, v)]
    BY <2>1 DEF Doors
  <2>3. Opposite[v] \in Ways /\ Go(Go(x, v), Opposite[v]) = x
    BY <2>1, GoThere
  <2>4. Go(x, v) \in Cells(n)
    BY <2>2
  <2> QED BY <1>9, <2>1, <2>2, <2>3, <2>4
<1>12. Doors(n, free, after)
  BY <1>7, <1>11 DEF Doors
<1>13. Near(c, d) /\ Leads(state, c, d) /\ way \notin after[c]
  BY <1>2, <1>6 DEF Near, Leads
<1> QED BY <1>2, <1>4, <1>8, <1>10, <1>12, <1>13 DEF Shut

\* The cells within a distance of the start, and one step further.
LEMMA WithinDef ==
  ASSUME NEW free
  PROVE  /\ Within(free, 0) = {Start} \cap free
         /\ \A k \in Nat : /\ Within(free, k) \subseteq free
                           /\ Within(free, k + 1) = Spread(free, Within(free, k))
<1> DEFINE V == SUBSET free
           v == {Start} \cap free
           G == [x \in V \X Nat |-> Spread(free, x[1])]
           reached == CHOOSE f : f = [i \in Nat |->
                        IF i = 0 THEN {Start} \cap free
                        ELSE Spread(free, f[i - 1])]
<1>1. \A k \in Nat : Within(free, k) = reached[k]
  BY DEF Within
<1>2. ASSUME NEW W \in V PROVE Spread(free, W) \in V
  BY DEF Spread
<1>3. ASSUME NEW W \in V, NEW i \in Nat
      PROVE  G[<<W, i>>] = Spread(free, W) /\ G[<<W, i>>] \in V
  <2>1. <<W, i>> \in V \X Nat /\ <<W, i>>[1] = W
    OBVIOUS
  <2> HIDE DEF V
  <2>2. G[<<W, i>>] = Spread(free, W)
    BY <2>1
  <2> HIDE DEF G
  <2> QED BY <1>2, <2>2
<1>4. v \in V
  OBVIOUS
<1>5. Loops(V, v, G)
  <2>1. \A x \in V \X Nat : x[1] \in V
    OBVIOUS
  <2> HIDE DEF V, v
  <2>2. G \in [V \X Nat -> V]
    BY <1>2, <2>1
  <2> HIDE DEF G
  <2> QED BY <1>4, <2>2, Iterates
<1>6. PICK f \in [Nat -> V] :
        \A i \in Nat : f[i] = IF i = 0 THEN v ELSE G[<<f[i - 1], i>>]
  <2> HIDE DEF V, v, G
  <2> QED BY <1>5 DEF Loops
<1>7. \A i \in Nat : i # 0 => i - 1 \in Nat
  OBVIOUS
<1>8. f = [i \in Nat |-> IF i = 0 THEN v ELSE Spread(free, f[i - 1])]
  <2>1. \A i \in Nat : f[i] = IF i = 0 THEN v ELSE Spread(free, f[i - 1])
    <3> HIDE DEF V, v, G
    <3> QED BY <1>3, <1>6, <1>7
  <2> HIDE DEF v
  <2> QED BY <2>1
<1>9. reached = [i \in Nat |-> IF i = 0 THEN v ELSE Spread(free, reached[i - 1])]
  BY <1>8
<1> HIDE DEF reached
<1>10. ASSUME NEW i \in Nat
       PROVE  reached[i] = IF i = 0 THEN v ELSE Spread(free, reached[i - 1])
  <2> HIDE DEF v
  <2> QED BY <1>9
<1>11. reached[0] = v
  BY <1>10
<1>12. \A i \in Nat : reached[i + 1] = Spread(free, reached[i])
  <2> TAKE i \in Nat
  <2>1. i + 1 \in Nat /\ i + 1 # 0 /\ (i + 1) - 1 = i
    OBVIOUS
  <2>2. reached[i + 1] = Spread(free, reached[(i + 1) - 1])
    BY <1>10, <2>1
  <2> QED BY <2>1, <2>2
<1>13. \A i \in Nat : reached[i] \in V
  <2>1. reached[0] \in V
    BY <1>4, <1>11
  <2>2. \A i \in Nat : reached[i] \in V => reached[i + 1] \in V
    BY <1>2, <1>12
  <2> HIDE DEF V
  <2> QED BY <2>1, <2>2, Stays
<1>14. \A k \in Nat : k + 1 \in Nat
  OBVIOUS
<1>15. Within(free, 0) = v
  BY <1>1, <1>11
<1>16. \A k \in Nat : Within(free, k) \subseteq free
  BY <1>1, <1>13
<1>17. \A k \in Nat : Within(free, k + 1) = Spread(free, Within(free, k))
  BY <1>1, <1>12, <1>14
<1> QED BY <1>15, <1>16, <1>17

\* The cells within one step more.
LEMMA Further ==
  ASSUME NEW free, NEW k \in Nat, NEW c
  PROVE  c \in Within(free, k + 1) <=>
           \/ c \in Within(free, k)
           \/ c \in free /\ \E d \in Within(free, k) : Near(c, d)
<1>1. Within(free, k + 1) = Spread(free, Within(free, k))
  BY WithinDef
<1> QED BY <1>1 DEF Spread

\* What is within some steps is within more.
LEMMA WithinGrows ==
  ASSUME NEW free, NEW i \in Nat, NEW j \in Nat, i <= j
  PROVE  Within(free, i) \subseteq Within(free, j)
<1> DEFINE f == [m \in Nat |-> m]
           V == {m \in Nat : Within(free, i) \subseteq Within(free, i + m)}
<1>1. f[0] \in V
  <2>1. i + 0 = i
    OBVIOUS
  <2> QED BY <2>1
<1>2. ASSUME NEW m \in Nat, f[m] \in V PROVE f[m + 1] \in V
  <2>1. m + 1 \in Nat /\ i + m \in Nat /\ i + (m + 1) = (i + m) + 1
    OBVIOUS
  <2>2. Within(free, i) \subseteq Within(free, i + m)
    BY <1>2
  <2>3. Within(free, i + m) \subseteq Within(free, (i + m) + 1)
    BY <2>1, Further
  <2> QED BY <2>1, <2>2, <2>3
<1>3. \A m \in Nat : f[m] \in V
  <2> HIDE DEF f, V
  <2> QED BY <1>1, <1>2, Stays
<1>4. j - i \in Nat /\ i + (j - i) = j
  OBVIOUS
<1>5. f[j - i] \in V
  BY <1>3, <1>4
<1> QED BY <1>4, <1>5

-----------------------------------------------------------------------------
(* How many doors there are.                                               *)

Open(n, state) == {p \in Cells(n) \X Ways : p[2] \in state[p[1]]}

\* There are n * n cells.
LEMMA CellsAreFinite ==
  ASSUME NEW n \in Nat
  PROVE  IsFiniteSet(Cells(n)) /\ Cardinality(Cells(n)) = n * n
<1>1. IsFiniteSet(0..(n - 1)) /\ Cardinality(0..(n - 1)) = n
  <2>1. 0 \in Int /\ n - 1 \in Int
    OBVIOUS
  <2>2. /\ IsFiniteSet(0..(n - 1))
        /\ Cardinality(0..(n - 1)) = IF 0 > n - 1 THEN 0 ELSE (n - 1) - 0 + 1
    BY <2>1, FS_Interval
  <2> QED BY <2>2
<1> QED BY <1>1, FS_Product DEF Cells

\* There are at most four ways from each.
LEMMA DoorsAreFinite ==
  ASSUME NEW n \in Nat, NEW state
  PROVE  /\ IsFiniteSet(Open(n, state)) /\ Cardinality(Open(n, state)) \in Nat
         /\ Cardinality(Open(n, state)) <= 4 * (n * n)
<1>1. IsFiniteSet(Ways) /\ Cardinality(Ways) = 4
  <2> DEFINE A == {"RIGHT"}
             B == A \cup {"LEFT"}
             C == B \cup {"UP"}
  <2>1. IsFiniteSet(A) /\ Cardinality(A) = 1
    BY FS_Singleton
  <2>2. IsFiniteSet(B) /\ Cardinality(B) = 2
    <3>1. "LEFT" \notin A
      OBVIOUS
    <3> HIDE DEF A
    <3> QED BY <2>1, <3>1, FS_AddElement
  <2>3. IsFiniteSet(C) /\ Cardinality(C) = 3
    <3>1. "UP" \notin B
      OBVIOUS
    <3> HIDE DEF B
    <3> QED BY <2>2, <3>1, FS_AddElement
  <2>4. "DOWN" \notin C /\ Ways = C \cup {"DOWN"}
    BY DEF Ways
  <2> HIDE DEF C
  <2> QED BY <2>3, <2>4, FS_AddElement
<1>2. IsFiniteSet(Cells(n)) /\ Cardinality(Cells(n)) = n * n
  BY CellsAreFinite
<1> DEFINE D == Cells(n) \X Ways
           N == n * n
<1>3. IsFiniteSet(D) /\ Cardinality(D) = N * 4
  BY <1>1, <1>2, FS_Product
<1>4. Open(n, state) \subseteq D
  BY DEF Open
<1>5. N \in Nat
  OBVIOUS
<1> HIDE DEF D, N
<1>6. /\ IsFiniteSet(Open(n, state))
      /\ Cardinality(Open(n, state)) <= Cardinality(D)
  BY <1>3, <1>4, FS_Subset
<1>7. Cardinality(Open(n, state)) \in Nat
  BY <1>6, FS_CardinalityType
<1>8. Cardinality(Open(n, state)) <= 4 * N
  BY <1>3, <1>5, <1>6, <1>7
<1> QED BY <1>6, <1>7, <1>8 DEF N

\* One that is closed is one less.
LEMMA OneLess ==
  ASSUME NEW n \in Nat, NEW state \in [Cells(n) -> SUBSET Ways],
         NEW after \in [Cells(n) -> SUBSET Ways],
         \A x \in Cells(n) : after[x] \subseteq state[x],
         NEW c \in Cells(n), NEW way \in state[c], way \notin after[c]
  PROVE  Cardinality(Open(n, after)) + 1 <= Cardinality(Open(n, state))
<1> DEFINE S == Open(n, state)
           p == <<c, way>>
           T == S \ {p}
<1>1. p \in S
  BY DEF Open
<1>2. Open(n, after) \subseteq T
  <2>1. ASSUME NEW q \in Open(n, after) PROVE q \in T
    <3>1. q \in Cells(n) \X Ways /\ q[2] \in after[q[1]]
      BY DEF Open
    <3>2. q \in S
      BY <3>1 DEF Open
    <3>3. q # p
      BY <3>1
    <3> QED BY <3>2, <3>3
  <2> QED BY <2>1
<1>3. IsFiniteSet(S) /\ Cardinality(S) \in Nat /\ Cardinality(Open(n, after)) \in Nat
  BY DoorsAreFinite
<1> HIDE DEF S, p
<1>4. IsFiniteSet(T) /\ Cardinality(T) = Cardinality(S) - 1
  BY <1>1, <1>3, FS_RemoveElement
<1>5. Cardinality(Open(n, after)) <= Cardinality(T)
  <2> HIDE DEF T
  <2> QED BY <1>2, <1>4, FS_Subset
<1>6. Cardinality(Open(n, after)) + 1 <= Cardinality(S)
  BY <1>3, <1>4, <1>5
<1> QED BY <1>6 DEF S

-----------------------------------------------------------------------------
(* The depth first search.                                                 *)

DepthStates(n, free) ==
  [state : {f \in [Cells(n) -> SUBSET Ways] : Doors(n, free, f)},
   stack : Seq(free)]

DepthStart(n, free) ==
  [state |-> NodeStates(n, free),
   stack |-> IF Start \in free THEN <<Start>> ELSE << >>]

\* A search ends without a way or at the goal; before that a round gives up a
\* cell or takes a door.
AtEnd(stack) == stack[Len(stack)]
Ended(n, s) == s.stack = << >> \/ AtEnd(s.stack) = Goal(n)
DepthMoves(s, t) ==
  \/ /\ s.state[AtEnd(s.stack)] = {} /\ t.state = s.state
     /\ t.stack = SubSeq(s.stack, 1, Len(s.stack) - 1)
  \/ \E way \in s.state[AtEnd(s.stack)] :
       /\ t.state = Closed(s.state, AtEnd(s.stack), way)
       /\ t.stack = Append(s.stack, Go(AtEnd(s.stack), way))

\* A round does nothing at the end of the search, and else one move.
LEMMA DepthRoundIs ==
  ASSUME NEW n \in Nat, NEW free \in SUBSET Cells(n),
         NEW s \in DepthStates(n, free), NEW t, t = DepthRound(n, s)
  PROVE  /\ Ended(n, s) => t = s
         /\ ~Ended(n, s) => DepthMoves(s, t)
         /\ t \in DepthStates(n, free)
<1> DEFINE c == AtEnd(s.stack)
           way == FirstOf(s.state[c])
<1>1. /\ s.state \in [Cells(n) -> SUBSET Ways] /\ Doors(n, free, s.state)
      /\ s.stack \in Seq(free)
      /\ s = [state |-> s.state, stack |-> s.stack]
  BY DEF DepthStates
<1>2. t = IF Ended(n, s) THEN s
          ELSE IF s.state[c] = {} THEN [s EXCEPT !.stack = Front(@)]
          ELSE [state |-> Closed(s.state, c, way),
                stack |-> Append(s.stack, Go(c, way))]
  BY DEF DepthRound, Last, Ended, AtEnd
<1> HIDE DEF c, way
<1>3. CASE Ended(n, s)
  BY <1>2, <1>3
<1>4. ASSUME ~Ended(n, s)
      PROVE  c \in free /\ c \in Cells(n) /\ Len(s.stack) \in Nat \ {0}
  <2>1. s.stack # << >>
    BY <1>4 DEF Ended
  <2>2. Len(s.stack) \in Nat \ {0} /\ Len(s.stack) \in 1..Len(s.stack)
    BY <1>1, <2>1, EmptySeq
  <2> QED BY <1>1, <2>2, ElementOfSeq DEF c, AtEnd
<1>5. CASE ~Ended(n, s) /\ s.state[c] = {}
  <2> DEFINE u == SubSeq(s.stack, 1, Len(s.stack) - 1)
  <2>1. t = [state |-> s.state, stack |-> u]
    <3>1. t = [s EXCEPT !.stack = u]
      BY <1>2, <1>5 DEF Front
    <3> HIDE DEF u
    <3> QED BY <1>1, <3>1
  <2>2. u \in Seq(free)
    <3>1. Len(s.stack) \in Nat \ {0}
      BY <1>4, <1>5
    <3>2. \A i \in 1..(Len(s.stack) - 1) : s.stack[i] \in free
      <4>1. \A i \in 1..(Len(s.stack) - 1) : i \in 1..Len(s.stack)
        BY <3>1
      <4> QED BY <1>1, <4>1, ElementOfSeq
    <3> QED BY <3>1, <3>2, SubSeqProperties
  <2> HIDE DEF u
  <2>3. t.state = s.state /\ t.stack = u
    BY <2>1
  <2>4. t \in DepthStates(n, free)
    BY <1>1, <2>1, <2>2 DEF DepthStates
  <2> QED BY <1>5, <2>3, <2>4 DEF c, u, DepthMoves
<1>6. CASE ~Ended(n, s) /\ s.state[c] # {}
  <2>1. way \in s.state[c]
    <3>1. s.state[c] \subseteq Ways
      BY <1>1, <1>4, <1>6
    <3> QED BY <1>6, <3>1 DEF way, FirstOf, Ways
  <2>2. t.state = Closed(s.state, c, way) /\ t.stack = Append(s.stack, Go(c, way))
    BY <1>2, <1>6
  <2>3. Doors(n, free, Closed(s.state, c, way)) /\ Go(c, way) \in free
    <3>1. c \in Cells(n) /\ Doors(n, free, s.state)
      BY <1>1, <1>4, <1>6
    <3> DEFINE d == Go(c, way)
               after == Closed(s.state, c, way)
    <3>2. d = Go(c, way) /\ after = Closed(s.state, c, way)
      OBVIOUS
    <3> HIDE DEF d, after
    <3>3. Shut(n, free, s.state, c, way, d, after)
      BY <2>1, <3>1, <3>2, OneClosed
    <3> QED BY <3>2, <3>3 DEF Shut
  <2>4. Append(s.stack, Go(c, way)) \in Seq(free)
    BY <1>1, <2>3, AppendProperties
  <2>5. Closed(s.state, c, way) \in [Cells(n) -> SUBSET Ways]
    BY <2>3 DEF Doors
  <2>6. t \in DepthStates(n, free)
    BY <1>2, <1>6, <2>3, <2>4, <2>5 DEF DepthStates
  <2> QED BY <1>6, <2>1, <2>2, <2>6 DEF c, DepthMoves
<1> QED BY <1>3, <1>5, <1>6

\* The rounds of a depth first search.
DepthRuns(n, free) ==
  \E run \in [Nat -> DepthStates(n, free)] :
    /\ run[0] = DepthStart(n, free)
    /\ \A k \in Nat : run[k + 1] = DepthRound(n, run[k])
    /\ DepthFirst(n, free) = run[2 * Rounds(n)].stack

\* The search begins in one of its states.
LEMMA DepthBegins ==
  ASSUME NEW n \in Nat, NEW free \in SUBSET Cells(n)
  PROVE  DepthStart(n, free) \in DepthStates(n, free)
<1>1. Doors(n, free, NodeStates(n, free))
  BY AllDoors
<1>2. NodeStates(n, free) \in [Cells(n) -> SUBSET Ways]
  BY <1>1 DEF Doors
<1>3. (IF Start \in free THEN <<Start>> ELSE << >>) \in Seq(free)
  OBVIOUS
<1> QED BY <1>1, <1>2, <1>3 DEF DepthStart, DepthStates

\* The states of a depth first search.
LEMMA DepthFirstDef ==
  ASSUME NEW n \in Nat, NEW free \in SUBSET Cells(n)
  PROVE  DepthRuns(n, free)
<1> DEFINE V == DepthStates(n, free)
           v == DepthStart(n, free)
           G == [x \in V \X Nat |-> DepthRound(n, x[1])]
           run == CHOOSE f : f = [k \in Nat |->
                    IF k = 0
                    THEN [state |-> NodeStates(n, free),
                          stack |-> IF Start \in free THEN <<Start>> ELSE << >>]
                    ELSE DepthRound(n, f[k - 1])]
<1>1. DepthFirst(n, free) = run[2 * Rounds(n)].stack
  BY DEF DepthFirst
<1>2. run = CHOOSE f : f = [k \in Nat |->
              IF k = 0 THEN v ELSE DepthRound(n, f[k - 1])]
  BY DEF DepthStart
<1> HIDE DEF run, v, V
<1>3. v \in V
  BY DepthBegins DEF v, V
<1>4. ASSUME NEW s \in V PROVE DepthRound(n, s) \in V
  BY DepthRoundIs DEF V
<1>5. \A s \in V, k \in Nat : G[<<s, k>>] = DepthRound(n, s)
  <2>1. \A s \in V, k \in Nat : <<s, k>> \in V \X Nat /\ <<s, k>>[1] = s
    OBVIOUS
  <2> QED BY <2>1
<1>6. Loops(V, v, G)
  <2>1. \A x \in V \X Nat : x[1] \in V
    OBVIOUS
  <2>2. G \in [V \X Nat -> V]
    BY <1>4, <2>1
  <2> HIDE DEF G
  <2> QED BY <1>3, <2>2, Iterates
<1> HIDE DEF G
<1>7. PICK f \in [Nat -> V] :
        \A k \in Nat : f[k] = IF k = 0 THEN v ELSE G[<<f[k - 1], k>>]
  BY <1>6 DEF Loops
<1>8. \A k \in Nat : k # 0 => k - 1 \in Nat
  OBVIOUS
<1>9. f = [k \in Nat |-> IF k = 0 THEN v ELSE DepthRound(n, f[k - 1])]
  <2>1. \A k \in Nat : f[k] = IF k = 0 THEN v ELSE DepthRound(n, f[k - 1])
    BY <1>5, <1>7, <1>8
  <2> QED BY <2>1
<1>10. run = [k \in Nat |-> IF k = 0 THEN v ELSE DepthRound(n, run[k - 1])]
  BY <1>2, <1>9
<1>11. ASSUME NEW k \in Nat
       PROVE  run[k] = IF k = 0 THEN v ELSE DepthRound(n, run[k - 1])
  BY <1>10
<1>12. run[0] = v
  BY <1>11
<1>13. \A k \in Nat : run[k + 1] = DepthRound(n, run[k])
  <2> TAKE k \in Nat
  <2>1. k + 1 \in Nat /\ k + 1 # 0 /\ (k + 1) - 1 = k
    OBVIOUS
  <2>2. run[k + 1] = DepthRound(n, run[(k + 1) - 1])
    BY <1>11, <2>1
  <2> QED BY <2>1, <2>2
<1>14. run \in [Nat -> V]
  <2>1. run[0] \in V
    BY <1>3, <1>12
  <2>2. \A k \in Nat : run[k] \in V => run[k + 1] \in V
    BY <1>4, <1>13
  <2> QED BY <1>10, <2>1, <2>2, Stays
<1> QED BY <1>1, <1>12, <1>13, <1>14 DEF DepthRuns, V, v

On(stack) == {stack[i] : i \in 1..Len(stack)}

\* A cell that will be, or has been, left by all its doors.
Handled(free, state, cells, x) ==
  x \in cells \/ \A y \in free : ~Leads(state, x, y)

\* The stack is a way from the start, and the search leaves no door behind.
StackLeads(stack) ==
  /\ stack # << >> => stack[1] = Start
  /\ \A i \in 2..Len(stack) : Near(stack[i - 1], stack[i])
NothingMissed(free, state, cells) ==
  /\ Start \in free => Handled(free, state, cells, Start)
  /\ \A x \in free, y \in free :
       Near(x, y) /\ ~Leads(state, x, y) => Handled(free, state, cells, x)
GoalIsLast(n, free, s) ==
  \A y \in free :
    Goal(n) \in free /\ Near(Goal(n), y) /\ ~Leads(s.state, Goal(n), y) =>
      s.stack # << >> /\ AtEnd(s.stack) = Goal(n)
DepthInv(n, free, s) ==
  /\ StackLeads(s.stack)
  /\ NothingMissed(free, s.state, On(s.stack))
  /\ GoalIsLast(n, free, s)

\* Each round takes a door or gives up a cell.
Doable(n, s) == Len(s.stack) + 2 * Cardinality(Open(n, s.state))

\* A round that goes back keeps the invariant and is one less to do.
LEMMA PopKeeps ==
  ASSUME NEW n \in Nat, NEW free \in SUBSET Cells(n),
         NEW s \in DepthStates(n, free), DepthInv(n, free, s), ~Ended(n, s),
         NEW t \in DepthStates(n, free), s.state[AtEnd(s.stack)] = {},
         t.state = s.state, t.stack = SubSeq(s.stack, 1, Len(s.stack) - 1)
  PROVE  DepthInv(n, free, t) /\ Doable(n, t) + 1 <= Doable(n, s)
<1> DEFINE a == s.stack
           b == t.stack
           L == Len(a)
           c == AtEnd(a)
<1>1. /\ a \in Seq(free) /\ b \in Seq(free) /\ Doors(n, free, s.state)
  BY DEF DepthStates
<1>2. a # << >> /\ c # Goal(n)
  BY DEF Ended, AtEnd
<1>3. L \in Nat \ {0}
  BY <1>1, <1>2, EmptySeq
<1>4. Len(b) = L - 1 /\ \A i \in 1..(L - 1) : b[i] = a[i]
  <2>1. \A i \in 1..(L - 1) : a[i] \in free
    <3>1. \A i \in 1..(L - 1) : i \in 1..L
      BY <1>3
    <3> QED BY <1>1, <3>1, ElementOfSeq
  <2>2. 1 \in Int /\ L - 1 \in Int
    BY <1>3
  <2>3. /\ Len(b) = IF 1 <= L - 1 THEN (L - 1) - 1 + 1 ELSE 0
        /\ \A i \in 1..((L - 1) - 1 + 1) : b[i] = a[1 + i - 1]
    BY <2>1, <2>2, SubSeqProperties
  <2> HIDE DEF a, b, L
  <2>4. (L - 1) - 1 + 1 = L - 1 /\ \A i \in 1..(L - 1) : 1 + i - 1 = i
    BY <1>3
  <2> QED BY <1>3, <2>3, <2>4
<1>5. StackLeads(a) /\ NothingMissed(free, s.state, On(a)) /\ GoalIsLast(n, free, s)
  BY DEF DepthInv
<1>6. On(a) \subseteq On(b) \cup {c}
  <2>1. \A i \in 1..L : i \in 1..Len(b) \/ i = L
    BY <1>3, <1>4
  <2> QED BY <1>4, <2>1 DEF On, AtEnd
<1>7. \A y \in free : ~Leads(s.state, c, y)
  BY DEF Leads
<1> HIDE DEF a, b, L, c
<1>8. StackLeads(b)
  <2>1. ASSUME b # << >> PROVE b[1] = Start
    <3>1. Len(b) # 0
      BY <1>1, <2>1, EmptySeq
    <3>2. 1 \in 1..(L - 1)
      BY <1>3, <1>4, <3>1
    <3> QED BY <1>2, <1>4, <1>5, <3>2 DEF StackLeads
  <2>2. ASSUME NEW i \in 2..Len(b) PROVE Near(b[i - 1], b[i])
    <3>1. i \in 1..(L - 1) /\ i - 1 \in 1..(L - 1) /\ i \in 2..Len(a)
      BY <1>3, <1>4 DEF L
    <3> QED BY <1>4, <1>5, <3>1 DEF StackLeads
  <2> QED BY <2>1, <2>2 DEF StackLeads
<1>9. NothingMissed(free, t.state, On(b))
  BY <1>5, <1>6, <1>7 DEF NothingMissed, Handled
<1>10. GoalIsLast(n, free, t)
  BY <1>2, <1>5 DEF GoalIsLast, a, c
<1>11. Doable(n, t) + 1 <= Doable(n, s)
  <2>1. Cardinality(Open(n, s.state)) \in Nat
    BY DoorsAreFinite
  <2> QED BY <1>3, <1>4, <2>1 DEF Doable, a, b, L
<1> QED BY <1>8, <1>9, <1>10, <1>11 DEF DepthInv, a, b

\* So does a round that takes a way.
LEMMA PushKeeps ==
  ASSUME NEW n \in Nat, NEW free \in SUBSET Cells(n),
         NEW s \in DepthStates(n, free), DepthInv(n, free, s), ~Ended(n, s),
         NEW t \in DepthStates(n, free), NEW way \in s.state[AtEnd(s.stack)],
         t.state = Closed(s.state, AtEnd(s.stack), way),
         t.stack = Append(s.stack, Go(AtEnd(s.stack), way))
  PROVE  DepthInv(n, free, t) /\ Doable(n, t) + 1 <= Doable(n, s)
<1> DEFINE a == s.stack
           b == t.stack
           L == Len(a)
           c == AtEnd(a)
           d == Go(c, way)
<1>1. /\ a \in Seq(free) /\ b \in Seq(free)
      /\ s.state \in [Cells(n) -> SUBSET Ways] /\ Doors(n, free, s.state)
      /\ t.state \in [Cells(n) -> SUBSET Ways]
  BY DEF DepthStates
<1>2. a # << >> /\ c # Goal(n)
  BY DEF Ended, AtEnd
<1>3. L \in Nat \ {0}
  BY <1>1, <1>2, EmptySeq
<1>4. c \in free /\ c \in Cells(n)
  <2>1. L \in 1..L
    BY <1>3
  <2> QED BY <1>1, <2>1, ElementOfSeq DEF AtEnd
<1> HIDE DEF d
<1>5. Shut(n, free, s.state, c, way, d, t.state)
  <2>1. way \in s.state[c] /\ t.state = Closed(s.state, c, way) /\ d = Go(c, way)
    BY DEF d
  <2> HIDE DEF c
  <2> QED BY <1>1, <1>4, <2>1, OneClosed
<1>6. /\ Len(b) = L + 1 /\ b[L + 1] = d
      /\ \A i \in 1..L : b[i] = a[i]
  <2>1. b = Append(a, d)
    BY DEF d
  <2>2. d \in free
    BY <1>5 DEF Shut
  <2> QED BY <1>1, <2>1, <2>2, AppendProperties
<1>7. StackLeads(a) /\ NothingMissed(free, s.state, On(a)) /\ GoalIsLast(n, free, s)
  BY DEF DepthInv
<1>8. On(a) \subseteq On(b) /\ d \in On(b) /\ c \in On(b)
  <2>1. L + 1 \in 1..Len(b) /\ L \in 1..L /\ \A i \in 1..L : i \in 1..Len(b)
    BY <1>3, <1>6
  <2> QED BY <1>6, <2>1 DEF On, AtEnd
<1>9. a[L] = c
  BY DEF AtEnd
<1> HIDE DEF a, b, L, c
<1>10. StackLeads(b)
  <2>1. b[1] = Start
    <3>1. 1 \in 1..L
      BY <1>3
    <3> QED BY <1>2, <1>6, <1>7, <3>1 DEF StackLeads
  <2>2. ASSUME NEW i \in 2..Len(b) PROVE Near(b[i - 1], b[i])
    <3>1. CASE i = L + 1
      <4>1. i - 1 = L /\ L \in 1..L
        BY <1>3, <3>1
      <4> QED BY <1>5, <1>6, <1>9, <3>1, <4>1 DEF Shut
    <3>2. CASE i # L + 1
      <4>1. i \in 1..L /\ i - 1 \in 1..L /\ i \in 2..Len(a)
        BY <1>3, <1>6, <3>2 DEF L
      <4> QED BY <1>6, <1>7, <4>1 DEF StackLeads
    <3> QED BY <3>1, <3>2
  <2> QED BY <2>1, <2>2 DEF StackLeads
<1>11. \A x \in free, y \in free :
         Leads(t.state, x, y) <=> /\ Leads(s.state, x, y)
                                  /\ ~(x = c /\ y = d) /\ ~(x = d /\ y = c)
  BY <1>5 DEF Shut
<1>12. NothingMissed(free, t.state, On(b))
  <2>1. ASSUME NEW x \in free, Handled(free, s.state, On(a), x)
        PROVE  Handled(free, t.state, On(b), x)
    BY <1>8, <1>11, <2>1 DEF Handled
  <2>2. ASSUME NEW x \in free, NEW y \in free, Near(x, y), ~Leads(t.state, x, y)
        PROVE  Handled(free, t.state, On(b), x)
    <3>1. CASE Leads(s.state, x, y)
      <4>1. x = c \/ x = d
        BY <1>11, <2>2, <3>1
      <4> QED BY <1>8, <4>1 DEF Handled
    <3>2. CASE ~Leads(s.state, x, y)
      BY <1>7, <2>1, <2>2, <3>2 DEF NothingMissed
    <3> QED BY <3>1, <3>2
  <2> QED BY <1>7, <2>1, <2>2 DEF NothingMissed
<1>13. GoalIsLast(n, free, t)
  <2> SUFFICES ASSUME NEW y \in free, Goal(n) \in free, Near(Goal(n), y),
                      ~Leads(t.state, Goal(n), y)
               PROVE  b # << >> /\ AtEnd(b) = Goal(n)
    BY DEF GoalIsLast, b
  <2>1. Leads(s.state, Goal(n), y)
    BY <1>2, <1>7 DEF GoalIsLast, a, c
  <2>2. Goal(n) = d
    BY <1>2, <1>11, <2>1
  <2>3. b # << >>
    BY <1>3, <1>6
  <2> QED BY <1>6, <2>2, <2>3 DEF AtEnd
<1>14. Doable(n, t) + 1 <= Doable(n, s)
  <2>1. /\ Cardinality(Open(n, s.state)) \in Nat
        /\ Cardinality(Open(n, t.state)) \in Nat
    BY DoorsAreFinite
  <2>2. Cardinality(Open(n, t.state)) + 1 <= Cardinality(Open(n, s.state))
    <3>1. /\ \A x \in Cells(n) : t.state[x] \subseteq s.state[x]
          /\ way \notin t.state[c] /\ way \in s.state[c]
      BY <1>5 DEF Shut, a, c
    <3> QED BY <1>1, <1>4, <3>1, OneLess
  <2> QED BY <1>3, <1>6, <2>1, <2>2 DEF Doable, a, b, L
<1> QED BY <1>10, <1>12, <1>13, <1>14 DEF DepthInv, b

-----------------------------------------------------------------------------
(* Distances.                                                              *)

\* The cells at a distance from the start.
Level(free, k) == Within(free, k) \ IF k = 0 THEN {} ELSE Within(free, k - 1)

\* A cell within a distance is at one that is not larger.
LEMMA OneLevel ==
  ASSUME NEW free, NEW k \in Nat, NEW c \in Within(free, k)
  PROVE  \E j \in 0..k : c \in Level(free, j)
<1> DEFINE T == {j \in Nat : c \in Within(free, j)}
<1>1. PICK j \in T : \A i \in T : j <= i
  <2>1. k \in T
    OBVIOUS
  <2> HIDE DEF T
  <2>2. T \in SUBSET Nat
    BY DEF T
  <2> QED BY <2>1, <2>2, Least
<1>2. j \in 0..k /\ c \in Within(free, j)
  BY <1>1
<1>3. j # 0 => c \notin Within(free, j - 1)
  <2>1. j # 0 => j - 1 \in Nat /\ ~(j <= j - 1)
    BY <1>2
  <2> QED BY <1>1, <2>1
<1> QED BY <1>2, <1>3 DEF Level

\* The cells at a distance are those within it and within no smaller one.
LEMMA LevelIs ==
  ASSUME NEW free, NEW k \in Nat
  PROVE  /\ Level(free, k) \subseteq Within(free, k)
         /\ Level(free, k) \subseteq free
         /\ Level(free, 0) = {Start} \cap free
         /\ \A c : c \in Level(free, k + 1) <=>
                     c \in Within(free, k + 1) /\ c \notin Within(free, k)
<1>1. k + 1 # 0 /\ (k + 1) - 1 = k
  OBVIOUS
<1>2. Within(free, k) \subseteq free /\ Within(free, 0) = {Start} \cap free
  BY WithinDef
<1> QED BY <1>1, <1>2 DEF Level

\* A cell has one distance.
LEMMA OnlyOneLevel ==
  ASSUME NEW free, NEW i \in Nat, NEW j \in Nat,
         NEW c \in Level(free, i), c \in Level(free, j)
  PROVE  i = j
<1>1. ASSUME NEW p \in Nat, NEW q \in Nat, p < q, c \in Level(free, p),
             c \in Level(free, q)
      PROVE  FALSE
  <2>1. q # 0 /\ q - 1 \in Nat /\ p <= q - 1
    BY <1>1
  <2>2. c \in Within(free, p) /\ c \notin Within(free, q - 1)
    BY <1>1, <2>1 DEF Level
  <2> QED BY <2>1, <2>2, WithinGrows
<1>2. ~(i < j) /\ ~(j < i)
  BY <1>1
<1> QED BY <1>2

\* A cell at a distance is next to one that is one step nearer.
LEMMA LevelBefore ==
  ASSUME NEW free, NEW k \in Nat, NEW c \in Level(free, k + 1)
  PROVE  \E d \in Level(free, k) : Near(c, d)
<1>1. c \in Within(free, k + 1) /\ c \notin Within(free, k)
  BY LevelIs
<1>2. PICK d \in Within(free, k) : Near(c, d)
  BY <1>1, Further
<1>3. d \in Level(free, k)
  <2>1. CASE k = 0
    BY <1>2, <2>1 DEF Level
  <2>2. CASE k # 0
    <3>1. k - 1 \in Nat /\ (k - 1) + 1 = k
      BY <2>2
    <3>2. c \in free
      BY <1>1, WithinDef, Further
    <3>3. d \notin Within(free, k - 1)
      BY <1>1, <1>2, <3>1, <3>2, Further
    <3> QED BY <1>2, <2>2, <3>3 DEF Level
  <2> QED BY <2>1, <2>2
<1> QED BY <1>2, <1>3

\* No cell is further away than there are cells.
LEMMA LevelBound ==
  ASSUME NEW n \in Nat, NEW free \in SUBSET Cells(n), NEW k \in Nat,
         Level(free, k) # {}
  PROVE  k < n * n
<1> DEFINE N == n * n
           g == [i \in 0..k |-> CHOOSE c \in Level(free, i) : TRUE]
<1>1. N \in Nat /\ IsFiniteSet(Cells(n)) /\ Cardinality(Cells(n)) = N
  BY CellsAreFinite
<1>2. \A i \in 0..k : Level(free, i) # {}
  <2> DEFINE T == {m \in 0..k : Level(free, k - m) = {}}
  <2>1. CASE T = {}
    <3>1. \A i \in 0..k : k - i \in 0..k /\ k - (k - i) = i
      OBVIOUS
    <3> QED BY <2>1, <3>1
  <2>2. CASE T # {}
    <3>1. PICK m \in T : \A i \in T : m <= i
      <4>1. T \in SUBSET Nat
        OBVIOUS
      <4> HIDE DEF T
      <4> QED BY <2>2, <4>1, Least
    <3>2. m \in 0..k /\ Level(free, k - m) = {}
      BY <3>1
    <3>3. m # 0
      <4>1. k - 0 = k
        OBVIOUS
      <4> QED BY <3>2, <4>1
    <3>4. /\ m - 1 \in 0..k /\ ~(m <= m - 1) /\ k - m \in Nat
          /\ k - (m - 1) = (k - m) + 1
      BY <3>2, <3>3
    <3>5. Level(free, k - (m - 1)) # {}
      <4>1. m - 1 \notin T
        <5> HIDE DEF T
        <5> QED BY <3>1, <3>4
      <4> QED BY <3>4, <4>1
    <3> QED BY <3>2, <3>4, <3>5, LevelBefore
  <2> QED BY <2>1, <2>2
<1>3. ASSUME NEW i \in 0..k PROVE g[i] \in Level(free, i) /\ g[i] \in Cells(n)
  <2>1. g[i] \in Level(free, i)
    BY <1>2
  <2>2. i \in Nat
    OBVIOUS
  <2> HIDE DEF g
  <2> QED BY <2>1, <2>2, LevelIs
<1> HIDE DEF g
<1>4. \A i \in 0..k, j \in 0..k : i # j => g[i] # g[j]
  <2>1. \A i \in 0..k : i \in Nat
    OBVIOUS
  <2> QED BY <1>3, <2>1, OnlyOneLevel
<1>5. g \in [0..k -> Cells(n)]
  <2>1. g = [i \in 0..k |-> g[i]]
    BY DEF g
  <2> QED BY <1>3, <2>1
<1>6. IsFiniteSet(0..k) /\ Cardinality(0..k) = k + 1
  <2>1. 0 \in Int /\ k \in Int
    OBVIOUS
  <2>2. /\ IsFiniteSet(0..k)
        /\ Cardinality(0..k) = IF 0 > k THEN 0 ELSE k - 0 + 1
    BY <2>1, FS_Interval
  <2> QED BY <2>2
<1>7. ~(N < k + 1)
  BY <1>1, <1>4, <1>5, <1>6, FS_PigeonHole
<1> HIDE DEF N
<1>8. k < N
  BY <1>1, <1>7
<1> QED BY <1>8 DEF N

\* A cell that can be reached is less than n * n steps away.
LEMMA WithinBound ==
  ASSUME NEW n \in Nat, NEW free \in SUBSET Cells(n), NEW k \in Nat,
         NEW c \in Within(free, k)
  PROVE  \E j \in 0..(n * n) : c \in Level(free, j) /\ j < n * n
<1>1. PICK j \in 0..k : c \in Level(free, j)
  BY OneLevel
<1>2. j \in Nat /\ j < n * n
  BY <1>1, LevelBound
<1>3. n * n \in Nat
  OBVIOUS
<1>4. j \in 0..(n * n)
  BY <1>2, <1>3
<1> QED BY <1>1, <1>2, <1>4

\* Within n * n steps are all cells that can be reached.
LEMMA AllWithin ==
  ASSUME NEW n \in Nat, NEW free \in SUBSET Cells(n), NEW k \in Nat,
         NEW c \in Within(free, k)
  PROVE  c \in Within(free, n * n)
<1> DEFINE N == n * n
<1>1. N \in Nat
  OBVIOUS
<1>2. PICK j \in 0..N : c \in Level(free, j)
  BY WithinBound
<1> HIDE DEF N
<1>3. j \in Nat /\ j <= N
  BY <1>1, <1>2
<1>4. c \in Within(free, j)
  BY <1>2, <1>3, LevelIs
<1>5. c \in Within(free, N)
  BY <1>1, <1>3, <1>4, WithinGrows
<1> QED BY <1>5 DEF N

-----------------------------------------------------------------------------
(* The depth first search, all rounds.                                     *)

\* The invariant holds at first.
LEMMA DepthInvAtFirst ==
  ASSUME NEW n \in Nat, NEW free \in SUBSET Cells(n),
         NEW s, s = DepthStart(n, free)
  PROVE  DepthInv(n, free, s) /\ Doable(n, s) <= 8 * (n * n) + 1
<1>1. /\ s.state = NodeStates(n, free)
      /\ s.stack = IF Start \in free THEN <<Start>> ELSE << >>
  BY DEF DepthStart
<1>2. \A x \in free, y \in free : Near(x, y) => Leads(s.state, x, y)
  BY <1>1, AllDoors
<1>3. CASE Start \in free
  <2>1. s.stack = <<Start>> /\ Len(<<Start>>) = 1 /\ <<Start>>[1] = Start
    BY <1>1, <1>3
  <2>2. StackLeads(s.stack)
    BY <2>1 DEF StackLeads
  <2>3. Start \in On(s.stack)
    BY <2>1 DEF On
  <2>4. Len(s.stack) = 1
    BY <2>1
  <2> QED BY <1>2, <2>2, <2>3, <2>4, DoorsAreFinite
          DEF DepthInv, NothingMissed, GoalIsLast, Handled, Doable
<1>4. CASE Start \notin free
  <2>1. s.stack = << >> /\ Len(<< >>) = 0
    BY <1>1, <1>4
  <2>2. StackLeads(s.stack)
    BY <2>1 DEF StackLeads
  <2>3. Len(s.stack) = 0
    BY <2>1
  <2> QED BY <1>2, <1>4, <2>2, <2>3, DoorsAreFinite
          DEF DepthInv, NothingMissed, GoalIsLast, Handled, Doable
<1> QED BY <1>3, <1>4

\* The search ends within its rounds.
LEMMA DepthEnds ==
  ASSUME NEW n \in Nat, NEW free \in SUBSET Cells(n)
  PROVE  \E s \in DepthStates(n, free) :
           /\ DepthFirst(n, free) = s.stack
           /\ DepthInv(n, free, s) /\ Ended(n, s)
<1> DEFINE N == n * n
<1>1. PICK run \in [Nat -> DepthStates(n, free)] :
        /\ run[0] = DepthStart(n, free)
        /\ \A k \in Nat : run[k + 1] = DepthRound(n, run[k])
        /\ DepthFirst(n, free) = run[2 * Rounds(n)].stack
  BY DepthFirstDef DEF DepthRuns
<1>2. N \in Nat /\ 2 * Rounds(n) = 8 * N + 4
  BY DEF Rounds
<1> HIDE DEF N
<1> DEFINE Good(k) == /\ DepthInv(n, free, run[k])
                      /\ Ended(n, run[k]) \/ Doable(n, run[k]) + k <= 8 * N + 1
           V == {k \in Nat : Good(k)}
           f == [k \in Nat |-> k]
<1>3. f[0] \in V
  <2>1. DepthInv(n, free, run[0]) /\ Doable(n, run[0]) <= 8 * N + 1
    BY <1>1, DepthInvAtFirst DEF N
  <2>2. Doable(n, run[0]) \in Int
    <3>1. run[0].stack \in Seq(free) /\ Cardinality(Open(n, run[0].state)) \in Nat
      BY DoorsAreFinite DEF DepthStates
    <3> QED BY <3>1 DEF Doable
  <2>3. Doable(n, run[0]) + 0 <= 8 * N + 1
    BY <2>1, <2>2
  <2> QED BY <2>1, <2>3
<1>4. ASSUME NEW k \in Nat, Good(k) PROVE Good(k + 1)
  <2> DEFINE s == run[k]
             t == run[k + 1]
  <2>1. /\ t = DepthRound(n, s) /\ s \in DepthStates(n, free)
        /\ k + 1 \in Nat /\ t \in DepthStates(n, free)
    BY <1>1
  <2>2. CASE Ended(n, s)
    <3>1. t = s
      BY <2>1, <2>2, DepthRoundIs
    <3> QED BY <1>4, <2>2, <3>1
  <2>3. CASE ~Ended(n, s)
    <3>1. DepthInv(n, free, s) /\ Doable(n, s) + k <= 8 * N + 1
      BY <1>4, <2>3
    <3> HIDE DEF s, t
    <3>2. DepthInv(n, free, t) /\ Doable(n, t) + 1 <= Doable(n, s)
      <4>1. DepthMoves(s, t)
        BY <2>1, <2>3, DepthRoundIs
      <4> QED BY <2>1, <2>3, <3>1, <4>1, PopKeeps, PushKeeps DEF DepthMoves
    <3>3. Doable(n, t) \in Int /\ Doable(n, s) \in Int
      <4>1. /\ s.stack \in Seq(free) /\ Cardinality(Open(n, s.state)) \in Nat
            /\ t.stack \in Seq(free) /\ Cardinality(Open(n, t.state)) \in Nat
        BY <2>1, DoorsAreFinite DEF DepthStates
      <4> QED BY <4>1 DEF Doable
    <3>4. Doable(n, t) + (k + 1) <= 8 * N + 1
      BY <1>2, <3>1, <3>2, <3>3
    <3> QED BY <3>2, <3>4 DEF t
  <2> QED BY <2>2, <2>3
<1>5. \A k \in Nat : f[k] \in V
  <2>1. \A k \in Nat : f[k] \in V => f[k + 1] \in V
    <3> HIDE DEF Good
    <3> QED BY <1>4
  <2> HIDE DEF V, f
  <2> QED BY <1>3, <2>1, Stays
<1> DEFINE m == 2 * Rounds(n)
<1>6. m \in Nat /\ Good(m)
  <2>1. m \in Nat
    BY <1>2
  <2> HIDE DEF m, Good
  <2>2. f[m] \in V
    BY <1>5, <2>1
  <2> QED BY <2>1, <2>2
<1>7. Ended(n, run[m])
  <2>1. ASSUME Doable(n, run[m]) + m <= 8 * N + 1 PROVE FALSE
    <3>1. Doable(n, run[m]) \in Nat
      <4>1. /\ run[m].stack \in Seq(free)
            /\ Cardinality(Open(n, run[m].state)) \in Nat
        BY <1>6, DoorsAreFinite DEF DepthStates
      <4> QED BY <4>1 DEF Doable
    <3> QED BY <1>2, <2>1, <3>1
  <2> QED BY <1>6, <2>1
<1> QED BY <1>1, <1>6, <1>7

\* In a maze of two cells a side the goal is not the start.
LEMMA GoalIsACell ==
  ASSUME NEW n \in Nat \ {0, 1}
  PROVE  n \in Nat /\ Goal(n) # Start
BY DEF Goal, Start

\* A search that left no door behind was at every cell there is a way to.
LEMMA AllHandled ==
  ASSUME NEW n \in Nat, NEW free \in SUBSET Cells(n), NEW state,
         Doors(n, free, state), NothingMissed(free, state, {}),
         NEW k \in Nat, NEW x \in Within(free, k)
  PROVE  x \in free /\ \A y \in free : ~Leads(state, x, y)
<1> DEFINE f == [j \in Nat |-> j]
           V == {j \in Nat : \A c \in Within(free, j), y \in free :
                               ~Leads(state, c, y)}
<1>1. f[0] \in V
  <2>1. Within(free, 0) = {Start} \cap free
    BY WithinDef
  <2> QED BY <2>1 DEF NothingMissed, Handled
<1>2. ASSUME NEW j \in Nat, f[j] \in V PROVE f[j + 1] \in V
  <2>1. \A c \in Within(free, j), y \in free : ~Leads(state, c, y)
    BY <1>2
  <2>2. ASSUME NEW c \in Within(free, j + 1), NEW y \in free
        PROVE  ~Leads(state, c, y)
    <3>1. CASE c \in Within(free, j)
      BY <2>1, <3>1
    <3>2. CASE c \notin Within(free, j)
      <4>1. PICK d \in Within(free, j) : c \in free /\ Near(c, d)
        BY <3>2, Further
      <4>2. d \in free
        BY WithinDef
      <4>3. ~Leads(state, c, d)
        BY <2>1, <4>1, <4>2, DoorsAre
      <4> QED BY <4>1, <4>2, <4>3 DEF NothingMissed, Handled
    <3> QED BY <3>1, <3>2
  <2> QED BY <2>2
<1>3. \A j \in Nat : f[j] \in V
  <2> HIDE DEF f, V
  <2> QED BY <1>1, <1>2, Stays
<1>4. f[k] \in V
  BY <1>3
<1>5. x \in free
  BY WithinDef
<1> QED BY <1>4, <1>5

\* There is a cell next to the goal on the way to it.
LEMMA GoalHasNext ==
  ASSUME NEW n \in Nat \ {0, 1}, NEW free, NEW k \in Nat,
         Goal(n) \in Within(free, k)
  PROVE  Goal(n) \in free /\ \E y \in free : Near(Goal(n), y)
<1>1. PICK j \in 0..k : Goal(n) \in Level(free, j)
  BY OneLevel
<1>2. j \in Nat /\ Goal(n) \in free
  BY <1>1, WithinDef
<1>3. j # 0
  <2>1. j = 0 => Goal(n) = Start
    BY <1>1, LevelIs
  <2> QED BY <2>1, GoalIsACell
<1>4. j - 1 \in Nat /\ (j - 1) + 1 = j
  BY <1>2, <1>3
<1>5. PICK y \in Level(free, j - 1) : Near(Goal(n), y)
  BY <1>1, <1>4, LevelBefore
<1>6. y \in free
  BY <1>4, LevelIs
<1> QED BY <1>2, <1>5, <1>6

\* What the depth first search of dfs.cpp leaves on its stack: a way over free
\* cells from the start to the goal if there is one, and nothing if there is
\* none (dfs.cpp:75-117).
THEOREM DepthFirstIsRight ==
  ASSUME NEW n \in Nat \ {0, 1}, NEW free \in SUBSET Cells(n),
         NEW stack, stack = DepthFirst(n, free)
  PROVE  /\ Goal(n) \notin Within(free, n * n) => stack = << >>
         /\ Goal(n) \in Within(free, n * n) =>
              /\ stack # << >> /\ stack[1] = Start /\ Last(stack) = Goal(n)
              /\ ToSet(stack) \subseteq free
              /\ \A i \in 2..Len(stack) : Near(stack[i - 1], stack[i])
<1>1. n \in Nat /\ n * n \in Nat /\ Goal(n) # Start
  BY GoalIsACell
<1>2. PICK s \in DepthStates(n, free) :
        /\ DepthFirst(n, free) = s.stack
        /\ DepthInv(n, free, s) /\ Ended(n, s)
  BY <1>1, DepthEnds
<1>3. /\ stack = s.stack /\ stack \in Seq(free) /\ Doors(n, free, s.state)
      /\ StackLeads(stack) /\ NothingMissed(free, s.state, On(stack))
      /\ GoalIsLast(n, free, s)
  BY <1>2 DEF DepthStates, DepthInv
<1>4. CASE stack = << >>
  <2> SUFFICES ASSUME Goal(n) \in Within(free, n * n) PROVE FALSE
    BY <1>4
  <2>1. On(stack) = {}
    BY <1>4 DEF On
  <2>2. PICK y \in free : Near(Goal(n), y)
    BY <1>1, GoalHasNext
  <2>3. Goal(n) \in free /\ ~Leads(s.state, Goal(n), y)
    BY <1>1, <1>3, <2>1, AllHandled
  <2> QED BY <1>3, <1>4, <2>2, <2>3 DEF GoalIsLast
<1>5. CASE stack # << >>
  <2>1. Len(stack) \in Nat \ {0} /\ \A i \in 1..Len(stack) : stack[i] \in free
    BY <1>3, <1>5, EmptySeq, ElementOfSeq
  <2>2. stack[Len(stack)] = Goal(n) /\ stack[1] = Start
    BY <1>2, <1>3, <1>5 DEF Ended, AtEnd, StackLeads
  <2>3. \A i \in 2..Len(stack) : Near(stack[i - 1], stack[i])
    BY <1>3 DEF StackLeads
  <2>4. Goal(n) \in Within(free, n * n)
    <3> DEFINE f == [j \in Nat |-> j]
               V == {j \in Nat : j + 1 <= Len(stack) =>
                                   stack[j + 1] \in Within(free, j)}
    <3>1. f[0] \in V
      <4>1. Start \in free
        BY <2>1, <2>2
      <4>2. Start \in Within(free, 0) /\ 0 + 1 = 1
        BY <4>1, WithinDef
      <4> QED BY <2>2, <4>2
    <3>2. ASSUME NEW j \in Nat, f[j] \in V PROVE f[j + 1] \in V
      <4> DEFINE l == j + 1
      <4>1. l \in Nat /\ f[l] = l
        OBVIOUS
      <4>2. ASSUME l + 1 <= Len(stack) PROVE stack[l + 1] \in Within(free, l)
        <5>1. /\ l <= Len(stack) /\ l + 1 \in 2..Len(stack)
              /\ (l + 1) - 1 = l /\ l \in 1..Len(stack) /\ l + 1 \in 1..Len(stack)
          BY <2>1, <4>2
        <5>2. stack[l] \in Within(free, j)
          BY <3>2, <5>1
        <5> HIDE DEF l
        <5>3. Near(stack[l], stack[l + 1]) /\ stack[l + 1] \in free
          BY <2>1, <2>3, <5>1
        <5>4. stack[l] \in Int \X Int
          <6>1. stack[l] \in Cells(n)
            BY <2>1, <5>1
          <6> QED BY <1>1, <6>1, CellsArePairs
        <5>5. Near(stack[l + 1], stack[l])
          BY <5>3, <5>4, NearBothWays
        <5>6. stack[l + 1] \in Within(free, j + 1)
          BY <5>2, <5>3, <5>5, Further
        <5> QED BY <5>6 DEF l
      <4> HIDE DEF l
      <4> QED BY <4>1, <4>2 DEF l
    <3>3. \A j \in Nat : f[j] \in V
      <4> HIDE DEF f, V
      <4> QED BY <3>1, <3>2, Stays
    <3> DEFINE m == Len(stack) - 1
    <3>4. m \in Nat /\ m + 1 <= Len(stack) /\ m + 1 = Len(stack)
      BY <2>1
    <3> HIDE DEF m
    <3>5. stack[m + 1] \in Within(free, m)
      BY <3>3, <3>4
    <3> QED BY <1>1, <2>2, <3>4, <3>5, AllWithin
  <2>5. ToSet(stack) \subseteq free
    BY <1>3, <2>1 DEF ToSet
  <2> QED BY <1>5, <2>2, <2>3, <2>4, <2>5 DEF Last
<1> QED BY <1>4, <1>5

-----------------------------------------------------------------------------
(* The breadth first search.                                               *)

\* Rows of n cells do not overlap.
LEMMA Times ==
  ASSUME NEW a \in Nat, NEW b \in Nat, NEW n \in Nat, a < b
  PROVE  a * n + n <= b * n
<1>1. PICK m \in Nat : b = a + 1 + m
  <2>1. b - a - 1 \in Nat /\ b = a + 1 + (b - a - 1)
    OBVIOUS
  <2> QED BY <2>1
<1>2. b * n = a * n + n + m * n
  BY <1>1
<1>3. m * n \in Nat /\ a * n \in Nat
  OBVIOUS
<1> DEFINE x == a * n
           y == m * n
           z == b * n
<1>4. x \in Nat /\ y \in Nat /\ z = x + n + y
  BY <1>2, <1>3
<1> HIDE DEF x, y, z
<1>5. x + n <= z
  BY <1>4
<1> QED BY <1>5 DEF x, z

\* The number of a cell is its own.
LEMMA IndexIs ==
  ASSUME NEW n \in Nat, NEW c \in Cells(n)
  PROVE  /\ Index(n, c) \in 0..(n * n - 1)
         /\ \A d \in Cells(n) : Index(n, d) = Index(n, c) => d = c
<1>1. \A d \in Cells(n) : /\ d[1] \in 0..(n - 1) /\ d[2] \in 0..(n - 1)
                          /\ d = <<d[1], d[2]>>
  BY DEF Cells
<1>2. Index(n, c) \in 0..(n * n - 1)
  <2> DEFINE x == c[1] * n
             N == n * n
  <2>1. c[1] \in Nat /\ c[2] \in Nat /\ c[1] < n /\ c[2] < n
    BY <1>1
  <2>2. x \in Nat /\ N \in Nat
    BY <2>1
  <2>3. x + n <= N
    BY <2>1, Times
  <2> HIDE DEF x, N
  <2>4. x + c[2] \in 0..(N - 1)
    BY <2>1, <2>2, <2>3
  <2> QED BY <2>4 DEF Index, x, N
<1>3. ASSUME NEW d \in Cells(n), Index(n, d) = Index(n, c) PROVE d = c
  <2>1. /\ c[1] \in Nat /\ c[2] \in Nat /\ c[2] < n
        /\ d[1] \in Nat /\ d[2] \in Nat /\ d[2] < n
    BY <1>1
  <2> DEFINE x == c[1] * n
             y == d[1] * n
  <2>2. x \in Nat /\ y \in Nat /\ x + c[2] = y + d[2]
    BY <1>3, <2>1 DEF Index
  <2>3. c[1] < d[1] => x + n <= y
    BY <2>1, Times
  <2>4. d[1] < c[1] => y + n <= x
    BY <2>1, Times
  <2>5. c[1] = d[1] => x = y
    OBVIOUS
  <2> HIDE DEF x, y
  <2>6. ~(c[1] < d[1]) /\ ~(d[1] < c[1])
    BY <2>1, <2>2, <2>3, <2>4
  <2>7. c[1] = d[1]
    BY <2>1, <2>6
  <2>8. c[2] = d[2]
    BY <2>1, <2>2, <2>5, <2>7
  <2> QED BY <1>1, <2>7, <2>8
<1> QED BY <1>2, <1>3

\* The cells at a distance have one colour.
LEMMA LevelColour ==
  ASSUME NEW n \in Nat, NEW free \in SUBSET Cells(n), NEW k \in Nat,
         NEW c \in Level(free, k)
  PROVE  Colour(c) = k % 2
<1> DEFINE f == [j \in Nat |-> j]
           V == {j \in Nat : \A d \in Level(free, j) : Colour(d) = j % 2}
<1>1. f[0] \in V
  <2>1. Level(free, 0) \subseteq {Start}
    BY LevelIs
  <2>2. Colour(Start) = 0 /\ 0 % 2 = 0
    BY DEF Colour, Start
  <2> QED BY <2>1, <2>2
<1>2. ASSUME NEW j \in Nat, f[j] \in V PROVE f[j + 1] \in V
  <2>1. ASSUME NEW d \in Level(free, j + 1) PROVE Colour(d) = (j + 1) % 2
    <3>1. PICK e \in Level(free, j) : Near(d, e)
      BY LevelBefore
    <3>2. e \in Cells(n) /\ d \in Cells(n)
      <4>1. j + 1 \in Nat
        OBVIOUS
      <4> QED BY <4>1, LevelIs
    <3>3. e \in Int \X Int /\ d \in Int \X Int
      BY <3>2, CellsArePairs
    <3>4. Near(e, d)
      BY <3>1, <3>3, NearBothWays
    <3>5. Colour(d) = 1 - Colour(e) /\ Colour(e) = j % 2
      BY <1>2, <3>3, <3>4, NearDiffers
    <3> QED BY <3>5
  <2> QED BY <2>1
<1>3. \A j \in Nat : f[j] \in V
  <2> HIDE DEF f, V
  <2> QED BY <1>1, <1>2, Stays
<1>4. f[k] \in V
  BY <1>3
<1> QED BY <1>4

BreadthStates(n, free) ==
  [state : {f \in [Cells(n) -> SUBSET Ways] : Doors(n, free, f)},
   path : [0..(n * n - 1) -> Cells(n)],
   queue : Seq(free),
   found : BOOLEAN]

BreadthStart(n, free) ==
  [state |-> NodeStates(n, free), found |-> FALSE,
   path |-> [i \in 0..(n * n - 1) |-> Start],
   queue |-> IF Start \in free THEN <<Start>> ELSE << >>]

\* The search begins in one of its states.
LEMMA BreadthBegins ==
  ASSUME NEW n \in Nat \ {0}, NEW free \in SUBSET Cells(n)
  PROVE  BreadthStart(n, free) \in BreadthStates(n, free)
<1>1. Doors(n, free, NodeStates(n, free))
  BY AllDoors
<1>2. NodeStates(n, free) \in [Cells(n) -> SUBSET Ways]
  BY <1>1 DEF Doors
<1>3. (IF Start \in free THEN <<Start>> ELSE << >>) \in Seq(free)
  OBVIOUS
<1>4. Start \in Cells(n)
  BY DEF Start, Cells
<1> QED BY <1>1, <1>2, <1>3, <1>4 DEF BreadthStart, BreadthStates

\* What one way of a cell does.
Takes(n, s, c, way, t) ==
  /\ t.state = Closed(s.state, c, way)
  /\ t.path = [s.path EXCEPT ![Index(n, Go(c, way))] = c]
  /\ t.queue = Append(s.queue, Go(c, way))
  /\ t.found = (Go(c, way) = Goal(n))
TriesWay(n, free, s, c, way, t) ==
  /\ t \in BreadthStates(n, free)
  /\ s.found \/ way \notin s.state[c] => t = s
  /\ ~s.found /\ way \in s.state[c] => Takes(n, s, c, way, t)

\* What TryWay does, as a relation.
LEMMA TryWayIs ==
  ASSUME NEW n \in Nat, NEW free \in SUBSET Cells(n),
         NEW s \in BreadthStates(n, free), NEW c \in Cells(n),
         NEW way \in Ways, NEW t, t = TryWay(n, s, c, way)
  PROVE  TriesWay(n, free, s, c, way, t)
<1>1. /\ s.state \in [Cells(n) -> SUBSET Ways] /\ Doors(n, free, s.state)
      /\ s.path \in [0..(n * n - 1) -> Cells(n)] /\ s.queue \in Seq(free)
  BY DEF BreadthStates
<1>2. CASE s.found \/ way \notin s.state[c]
  BY <1>2 DEF TryWay, TriesWay
<1>3. CASE ~s.found /\ way \in s.state[c]
  <2> DEFINE d == Go(c, way)
             after == Closed(s.state, c, way)
             p == [s.path EXCEPT ![Index(n, d)] = c]
             q == Append(s.queue, d)
  <2>1. t = [state |-> after, path |-> p, queue |-> q, found |-> d = Goal(n)]
    BY <1>3 DEF TryWay
  <2>2. d = Go(c, way) /\ after = Closed(s.state, c, way)
    OBVIOUS
  <2> HIDE DEF d, after
  <2>3. Shut(n, free, s.state, c, way, d, after)
    BY <1>1, <1>3, <2>2, OneClosed
  <2>4. Doors(n, free, after) /\ d \in free
    BY <2>3 DEF Shut
  <2>5. after \in [Cells(n) -> SUBSET Ways]
    BY <2>4 DEF Doors
  <2>6. q \in Seq(free)
    BY <1>1, <2>4, AppendProperties
  <2>7. p \in [0..(n * n - 1) -> Cells(n)]
    BY <1>1
  <2> HIDE DEF p, q
  <2>8. (d = Goal(n)) \in BOOLEAN
    OBVIOUS
  <2>9. t \in BreadthStates(n, free)
    BY <2>1, <2>4, <2>5, <2>6, <2>7, <2>8 DEF BreadthStates
  <2>10. Takes(n, s, c, way, t)
    BY <2>1 DEF Takes, d, after, p, q
  <2> QED BY <1>3, <2>9, <2>10 DEF TriesWay
<1> QED BY <1>2, <1>3

\* The queue holds cells at the distance L and, behind them, at the next one.
InLayers(free, queue, L) ==
  /\ \A i \in 1..Len(queue) : queue[i] \in Level(free, L) \cup Level(free, L + 1)
  /\ \A i \in 1..Len(queue), j \in 1..Len(queue) :
       i < j /\ queue[j] \in Level(free, L) => queue[i] \in Level(free, L)

\* The cells that are nearer have been left by all their doors.
NearerLeft(free, state, L) ==
  L # 0 => \A c \in Within(free, L - 1), y \in free : ~Leads(state, c, y)

HasShut(free, state, c) == \E y \in free : Near(c, y) /\ ~Leads(state, c, y)

\* The path leads back, one step nearer, through a door that is closed.
PathLeadsBack(n, free, state, path) ==
  \A k \in Nat : \A c \in Level(free, k + 1) :
    HasShut(free, state, c) =>
      LET b == path[Index(n, c)] IN
      b \in Level(free, k) /\ Near(b, c) /\ ~Leads(state, b, c)

QueueWasReached(free, state, queue) ==
  \A c \in On(queue) : c = Start \/ HasShut(free, state, c)

GoalIsFound(n, free, s, L) ==
  /\ ~s.found => /\ Goal(n) \notin On(s.queue)
                 /\ Goal(n) \in free => ~HasShut(free, s.state, Goal(n))
  /\ s.found => /\ s.queue # << >> /\ Goal(n) \in Level(free, L + 1)
                /\ HasShut(free, s.state, Goal(n))

BreadthInv(n, free, s, L) ==
  /\ NothingMissed(free, s.state, On(s.queue))
  /\ InLayers(free, s.queue, L)
  /\ NearerLeft(free, s.state, L)
  /\ PathLeadsBack(n, free, s.state, s.path)
  /\ QueueWasReached(free, s.state, s.queue)
  /\ GoalIsFound(n, free, s, L)

Waiting(n, s) == Len(s.queue) + Cardinality(Open(n, s.state))

\* A door that is still open leads one step further.
LEMMA LeadsFurther ==
  ASSUME NEW n \in Nat, NEW free \in SUBSET Cells(n), NEW state,
         Doors(n, free, state), NEW L \in Nat, NearerLeft(free, state, L),
         NEW c \in Level(free, L), NEW d, Leads(state, c, d)
  PROVE  d \in Level(free, L + 1)
<1>1. c \in Within(free, L) /\ c \in free /\ c \in Cells(n)
  BY LevelIs
<1>2. d \in free /\ d \in Cells(n) /\ Near(c, d) /\ Leads(state, d, c)
  BY <1>1, DoorsAre
<1>3. c \in Int \X Int
  BY <1>1, CellsArePairs
<1>4. d \in Within(free, L + 1)
  BY <1>1, <1>2, <1>3, NearBothWays, Further
<1>5. d \notin Within(free, L)
  <2> SUFFICES ASSUME d \in Within(free, L) PROVE FALSE
    OBVIOUS
  <2>1. L # 0 => d \notin Within(free, L - 1)
    BY <1>1, <1>2 DEF NearerLeft
  <2>2. d \in Level(free, L)
    BY <2>1 DEF Level
  <2>3. Colour(d) = Colour(c) /\ Colour(c) = L % 2
    BY <2>2, LevelColour
  <2>4. Colour(d) = 1 - Colour(c)
    BY <1>2, <1>3, NearDiffers
  <2>5. L % 2 \in Nat
    OBVIOUS
  <2> DEFINE m == L % 2
  <2>6. m \in Nat /\ m = 1 - m
    BY <2>3, <2>4, <2>5
  <2> HIDE DEF m
  <2> QED BY <2>6
<1> QED BY <1>4, <1>5, LevelIs

\* Taking a way keeps the invariant.
LEMMA TakeKeeps ==
  ASSUME NEW n \in Nat, NEW free \in SUBSET Cells(n),
         NEW s \in BreadthStates(n, free), NEW L \in Nat,
         BreadthInv(n, free, s, L), ~s.found,
         s.queue # << >>, NEW c, c = s.queue[1], c \in Level(free, L),
         NEW way \in s.state[c], NEW t \in BreadthStates(n, free),
         Takes(n, s, c, way, t)
  PROVE  /\ BreadthInv(n, free, t, L)
         /\ t.queue # << >> /\ t.queue[1] = c
         /\ way \notin t.state[c]
         /\ \A x \in Cells(n) : t.state[x] \subseteq s.state[x]
         /\ Waiting(n, t) <= Waiting(n, s)
<1> DEFINE a == s.queue
           b == t.queue
           m == Len(a)
           d == Go(c, way)
           before == s.state
           after == t.state
<1>1. /\ before \in [Cells(n) -> SUBSET Ways] /\ Doors(n, free, before)
      /\ after \in [Cells(n) -> SUBSET Ways] /\ a \in Seq(free)
      /\ s.path \in [0..(n * n - 1) -> Cells(n)]
  BY DEF BreadthStates
<1>2. m \in Nat \ {0} /\ \A i \in 1..m : a[i] \in free
  BY <1>1, EmptySeq, ElementOfSeq
<1>3. c \in free /\ c \in Cells(n) /\ c \in On(a)
  <2>1. 1 \in 1..m
    BY <1>2
  <2> QED BY <1>2, <2>1 DEF On
<1>4. /\ NothingMissed(free, before, On(a)) /\ InLayers(free, a, L)
      /\ NearerLeft(free, before, L) /\ PathLeadsBack(n, free, before, s.path)
      /\ QueueWasReached(free, before, a) /\ GoalIsFound(n, free, s, L)
  BY DEF BreadthInv
<1>5. Shut(n, free, before, c, way, d, after)
  <2>1. d = Go(c, way) /\ after = Closed(before, c, way) /\ way \in before[c]
    BY DEF Takes
  <2> HIDE DEF d, after, before
  <2> QED BY <1>1, <1>3, <2>1, OneClosed
<1>6. /\ d \in free /\ d \in Cells(n) /\ Near(c, d) /\ c # d
      /\ Leads(before, c, d) /\ way \notin after[c]
      /\ \A x \in Cells(n) : after[x] \subseteq before[x]
      /\ \A x \in free, y \in free :
           Leads(after, x, y) <=> /\ Leads(before, x, y)
                                  /\ ~(x = c /\ y = d) /\ ~(x = d /\ y = c)
  BY <1>5 DEF Shut
<1>7. d \in Level(free, L + 1)
  BY <1>1, <1>4, <1>6, LeadsFurther
<1>8. /\ t.path = [s.path EXCEPT ![Index(n, d)] = c]
      /\ b = Append(a, d) /\ t.found = (d = Goal(n))
  BY DEF Takes
<1>9. c \in Int \X Int /\ Near(d, c)
  BY <1>3, <1>6, CellsArePairs, NearBothWays
<1> HIDE DEF a, b, d, before, after
<1>10. /\ Len(b) = m + 1 /\ b[m + 1] = d /\ b # << >>
       /\ \A i \in 1..m : b[i] = a[i]
  BY <1>1, <1>6, <1>8, AppendProperties
<1> HIDE DEF m
<1>11. On(b) = On(a) \cup {d}
  <2>1. \A i \in 1..Len(b) : i \in 1..m \/ i = m + 1
    BY <1>2, <1>10
  <2>2. m + 1 \in 1..Len(b) /\ \A i \in 1..m : i \in 1..Len(b)
    BY <1>2, <1>10
  <2>3. On(a) = {a[i] : i \in 1..m}
    BY DEF On, m
  <2> QED BY <1>10, <2>1, <2>2, <2>3 DEF On
<1>12. NothingMissed(free, after, On(b))
  <2>1. ASSUME NEW x \in free, Handled(free, before, On(a), x)
        PROVE  Handled(free, after, On(b), x)
    BY <1>6, <1>11, <2>1 DEF Handled
  <2>2. ASSUME NEW x \in free, NEW y \in free, Near(x, y), ~Leads(after, x, y)
        PROVE  Handled(free, after, On(b), x)
    <3>1. CASE Leads(before, x, y)
      <4>1. x = c \/ x = d
        BY <1>6, <2>2, <3>1
      <4> QED BY <1>3, <1>11, <4>1 DEF Handled
    <3>2. CASE ~Leads(before, x, y)
      BY <1>4, <2>1, <2>2, <3>2 DEF NothingMissed
    <3> QED BY <3>1, <3>2
  <2> QED BY <1>4, <2>1, <2>2 DEF NothingMissed
<1>13. InLayers(free, b, L)
  <2>1. \A i \in 1..m : a[i] \in Level(free, L) \cup Level(free, L + 1)
    BY <1>4 DEF InLayers, m
  <2>2. \A i \in 1..m, j \in 1..m :
          i < j /\ a[j] \in Level(free, L) => a[i] \in Level(free, L)
    BY <1>4 DEF InLayers, m
  <2>3. \A i \in 1..Len(b) : i \in 1..m \/ i = m + 1
    BY <1>2, <1>10
  <2>4. d \notin Level(free, L)
    <3>1. L + 1 \in Nat /\ L # L + 1
      OBVIOUS
    <3> QED BY <1>7, <3>1, OnlyOneLevel
  <2>5. \A i \in 1..Len(b), j \in 1..m : i < j => i \in 1..m
    BY <1>2, <1>10
  <2>6. \A i \in 1..Len(b) : b[i] \in Level(free, L) \cup Level(free, L + 1)
    BY <1>7, <1>10, <2>1, <2>3
  <2>7. \A i \in 1..Len(b), j \in 1..Len(b) :
          i < j /\ b[j] \in Level(free, L) => b[i] \in Level(free, L)
    BY <1>10, <2>2, <2>3, <2>4, <2>5
  <2> QED BY <2>6, <2>7 DEF InLayers
<1>14. NearerLeft(free, after, L)
  <2> SUFFICES ASSUME L # 0, NEW x \in Within(free, L - 1), NEW y \in free
               PROVE  ~Leads(after, x, y)
    BY DEF NearerLeft
  <2>1. L - 1 \in Nat
    OBVIOUS
  <2>2. x \in free
    BY <2>1, WithinDef
  <2> QED BY <1>4, <1>6, <2>2 DEF NearerLeft
<1>15. \A x \in free : HasShut(free, before, x) => HasShut(free, after, x)
  BY <1>6 DEF HasShut
<1>16. HasShut(free, after, d)
  BY <1>3, <1>6, <1>9 DEF HasShut
<1>17. PathLeadsBack(n, free, after, t.path)
  <2> SUFFICES ASSUME NEW k \in Nat, NEW x \in Level(free, k + 1),
                      HasShut(free, after, x),
                      NEW p, p = t.path[Index(n, x)]
               PROVE  p \in Level(free, k) /\ Near(p, x) /\ ~Leads(after, p, x)
    BY DEF PathLeadsBack
  <2>1. k + 1 \in Nat /\ L + 1 \in Nat /\ k + 1 # 0
    OBVIOUS
  <2>2. x \in free /\ x \in Cells(n)
    BY <2>1, LevelIs
  <2>3. p = IF x = d THEN c ELSE s.path[Index(n, x)]
    <3>1. /\ Index(n, x) \in 0..(n * n - 1) /\ Index(n, d) \in 0..(n * n - 1)
          /\ Index(n, x) = Index(n, d) => x = d
      BY <1>6, <2>2, IndexIs
    <3> QED BY <1>1, <1>8, <3>1
  <2>4. CASE x = d
    <3>1. k + 1 = L + 1
      BY <1>7, <2>1, <2>4, OnlyOneLevel
    <3>2. k = L
      BY <3>1
    <3> QED BY <1>3, <1>6, <2>3, <2>4, <3>2
  <2>5. CASE x # d
    <3>1. HasShut(free, before, x)
      <4>1. CASE x = c
        <5>1. c # Start
          <6>1. c = Start => c \in Level(free, 0)
            BY <1>3, LevelIs
          <6> QED BY <2>1, <4>1, <6>1, OnlyOneLevel
        <5> QED BY <1>3, <1>4, <4>1, <5>1 DEF QueueWasReached
      <4>2. CASE x # c
        BY <1>6, <2>2, <2>5, <4>2 DEF HasShut
      <4> QED BY <4>1, <4>2
    <3>2. p = s.path[Index(n, x)]
      BY <2>3, <2>5
    <3>3. p \in Level(free, k) /\ Near(p, x) /\ ~Leads(before, p, x)
      BY <1>4, <3>1, <3>2 DEF PathLeadsBack
    <3>4. p \in free
      BY <3>3, LevelIs
    <3> QED BY <1>6, <2>2, <3>3, <3>4
  <2> QED BY <2>4, <2>5
<1>18. QueueWasReached(free, after, b)
  <2>1. \A x \in On(a) : x \in free
    BY <1>2 DEF On, m
  <2> QED BY <1>4, <1>11, <1>15, <1>16, <2>1 DEF QueueWasReached
<1>19. GoalIsFound(n, free, t, L)
  <2>1. /\ Goal(n) \notin On(a)
        /\ Goal(n) \in free => ~HasShut(free, before, Goal(n))
    BY <1>4 DEF GoalIsFound, a, before
  <2>2. CASE d = Goal(n)
    BY <1>7, <1>8, <1>10, <1>16, <2>2 DEF GoalIsFound, b, after
  <2>3. CASE d # Goal(n)
    <3>1. Goal(n) \notin On(b)
      BY <1>11, <2>1, <2>3
    <3>2. Goal(n) # c
      BY <1>3, <2>1
    <3>3. Goal(n) \in free => ~HasShut(free, after, Goal(n))
      BY <1>6, <2>1, <2>3, <3>2 DEF HasShut
    <3> QED BY <1>8, <2>3, <3>1, <3>3 DEF GoalIsFound, b, after
  <2> QED BY <2>2, <2>3
<1>20. b[1] = c
  <2>1. 1 \in 1..m
    BY <1>2
  <2> QED BY <1>10, <2>1 DEF a
<1>21. Waiting(n, t) <= Waiting(n, s)
  <2>1. /\ Cardinality(Open(n, before)) \in Nat
        /\ Cardinality(Open(n, after)) \in Nat
    BY DoorsAreFinite
  <2>2. Cardinality(Open(n, after)) + 1 <= Cardinality(Open(n, before))
    <3>1. way \in before[c]
      BY DEF before
    <3> QED BY <1>1, <1>3, <1>6, <3>1, OneLess
  <2> QED BY <1>2, <1>10, <2>1, <2>2 DEF Waiting, a, b, m, before, after
<1> QED BY <1>6, <1>10, <1>12, <1>13, <1>14, <1>17, <1>18, <1>19, <1>20, <1>21
        DEF BreadthInv, b, before, after

\* In a round the cell c at the front of the queue is left.
Leaving(n, free, s, L, c) ==
  /\ s \in BreadthStates(n, free) /\ BreadthInv(n, free, s, L)
  /\ s.queue # << >> /\ s.queue[1] = c
LeftBy(n, s, c, way) == s.found \/ way \notin s.state[c]

\* Trying a way keeps it, and the way is then closed or the goal found.
LEMMA TryKeeps ==
  ASSUME NEW n \in Nat, NEW free \in SUBSET Cells(n), NEW L \in Nat,
         NEW c \in Level(free, L), NEW s, Leaving(n, free, s, L, c),
         NEW way \in Ways, NEW t, t = TryWay(n, s, c, way)
  PROVE  /\ Leaving(n, free, t, L, c) /\ LeftBy(n, t, c, way)
         /\ \A v \in Ways : LeftBy(n, s, c, v) => LeftBy(n, t, c, v)
         /\ Waiting(n, t) <= Waiting(n, s)
<1>1. /\ s \in BreadthStates(n, free) /\ BreadthInv(n, free, s, L)
      /\ s.queue # << >> /\ s.queue[1] = c /\ c \in Cells(n)
  <2>1. c \in Cells(n)
    BY LevelIs
  <2> QED BY <2>1 DEF Leaving
<1>2. TriesWay(n, free, s, c, way, t)
  BY <1>1, TryWayIs
<1>3. Waiting(n, s) \in Int
  <2>1. s.queue \in Seq(free) /\ Cardinality(Open(n, s.state)) \in Nat
    BY <1>1, DoorsAreFinite DEF BreadthStates
  <2> QED BY <2>1 DEF Waiting
<1>4. CASE LeftBy(n, s, c, way)
  <2>1. t = s
    BY <1>2, <1>4 DEF TriesWay, LeftBy
  <2>2. Waiting(n, s) <= Waiting(n, s)
    BY <1>3
  <2> QED BY <1>4, <2>1, <2>2
<1>5. CASE ~LeftBy(n, s, c, way)
  <2>1. /\ t \in BreadthStates(n, free) /\ Takes(n, s, c, way, t)
        /\ ~s.found /\ way \in s.state[c]
    BY <1>2, <1>5 DEF TriesWay, LeftBy
  <2>2. /\ BreadthInv(n, free, t, L) /\ t.queue # << >> /\ t.queue[1] = c
        /\ way \notin t.state[c]
        /\ \A x \in Cells(n) : t.state[x] \subseteq s.state[x]
        /\ Waiting(n, t) <= Waiting(n, s)
    BY <1>1, <2>1, TakeKeeps
  <2> QED BY <1>1, <2>1, <2>2 DEF Leaving, LeftBy
<1> QED BY <1>4, <1>5

\* When the cell at the front is left it can go.
LEMMA LeaveKeeps ==
  ASSUME NEW n \in Nat, NEW free \in SUBSET Cells(n), NEW L \in Nat,
         NEW c \in Level(free, L), NEW s, Leaving(n, free, s, L, c), ~s.found,
         \A way \in Ways : LeftBy(n, s, c, way),
         NEW t, t = [s EXCEPT !.queue = Tail(@)]
  PROVE  /\ t \in BreadthStates(n, free) /\ BreadthInv(n, free, t, L)
         /\ Waiting(n, t) + 1 <= Waiting(n, s)
<1> DEFINE a == s.queue
           b == Tail(s.queue)
           m == Len(a)
<1>1. /\ s \in BreadthStates(n, free) /\ BreadthInv(n, free, s, L)
      /\ a # << >> /\ a[1] = c /\ c \in Cells(n) /\ c \in free
  <2>1. c \in Cells(n) /\ c \in free
    BY LevelIs
  <2> QED BY <2>1 DEF Leaving
<1>2. /\ s.state \in [Cells(n) -> SUBSET Ways] /\ a \in Seq(free)
      /\ Doors(n, free, s.state)
      /\ s.path \in [0..(n * n - 1) -> Cells(n)] /\ s.found \in BOOLEAN
      /\ s = [state |-> s.state, path |-> s.path, queue |-> a, found |-> s.found]
  BY <1>1 DEF BreadthStates
<1>3. /\ b \in Seq(free) /\ m \in Nat \ {0} /\ Len(b) = m - 1
      /\ \A i \in 1..(m - 1) : b[i] = a[i + 1]
  <2>1. m \in Nat \ {0}
    BY <1>1, <1>2, EmptySeq
  <2>2. b \in Seq(free) /\ Len(b) = m - 1 /\ \A i \in 1..Len(b) : b[i] = a[i + 1]
    BY <1>1, <1>2, HeadTailProperties
  <2> QED BY <2>1, <2>2
<1> HIDE DEF b
<1>4. t = [state |-> s.state, path |-> s.path, queue |-> b, found |-> s.found]
  <2>1. t = [s EXCEPT !.queue = b]
    BY DEF b
  <2> QED BY <1>2, <2>1
<1>5. /\ t.state = s.state /\ t.path = s.path /\ t.queue = b
      /\ t.found = s.found
  BY <1>4
<1>6. t \in BreadthStates(n, free)
  <2> DEFINE x == s.state
             y == s.path
             z == s.found
             E == {f \in [Cells(n) -> SUBSET Ways] : Doors(n, free, f)}
             P == [0..(n * n - 1) -> Cells(n)]
             Q == Seq(free)
             B == BOOLEAN
  <2>1. x \in E
    BY <1>2
  <2>2. /\ y \in P /\ z \in B /\ b \in Q
        /\ t = [state |-> x, path |-> y, queue |-> b, found |-> z]
    BY <1>2, <1>3, <1>4
  <2> HIDE DEF x, y, z, E, P, Q, B
  <2> DEFINE r == [state |-> x, path |-> y, queue |-> b, found |-> z]
  <2>3. r \in [state : E, path : P, queue : Q, found : B]
    BY <2>1, <2>2
  <2>4. t = r
    BY <2>2
  <2> HIDE DEF r
  <2> QED BY <2>3, <2>4 DEF BreadthStates, E, P, Q, B
<1>7. /\ NothingMissed(free, s.state, On(a)) /\ InLayers(free, a, L)
      /\ NearerLeft(free, s.state, L) /\ PathLeadsBack(n, free, s.state, s.path)
      /\ QueueWasReached(free, s.state, a) /\ GoalIsFound(n, free, s, L)
  BY <1>1 DEF BreadthInv
<1> HIDE DEF a, m
<1>8. On(b) \subseteq On(a) /\ On(a) \subseteq On(b) \cup {c}
  <2>1. \A i \in 1..(m - 1) : i + 1 \in 1..m
    BY <1>3
  <2>2. ASSUME NEW i \in 1..m, i # 1
        PROVE  \E j \in 1..(m - 1) : a[i] = b[j]
    <3>1. i - 1 \in 1..(m - 1) /\ (i - 1) + 1 = i
      BY <1>3, <2>2
    <3> QED BY <1>3, <3>1
  <2>3. Len(b) = m - 1 /\ Len(a) = m
    BY <1>3 DEF m
  <2>4. On(b) \subseteq On(a)
    BY <1>3, <2>1, <2>3 DEF On
  <2>5. On(a) \subseteq On(b) \cup {c}
    BY <1>1, <2>2, <2>3 DEF On
  <2> QED BY <2>4, <2>5
<1>9. \A y \in free : ~Leads(s.state, c, y)
  <2>1. \A way \in Ways : way \notin s.state[c]
    BY DEF LeftBy
  <2> QED BY <2>1 DEF Leads
<1>10. NothingMissed(free, t.state, On(b))
  BY <1>5, <1>7, <1>8, <1>9 DEF NothingMissed, Handled
<1>11. InLayers(free, b, L)
  <2>1. /\ Len(b) = m - 1 /\ Len(a) = m
        /\ \A i \in 1..(m - 1) : i + 1 \in 1..m /\ b[i] = a[i + 1]
    BY <1>3 DEF m
  <2>2. \A i \in 1..(m - 1), j \in 1..(m - 1) : i < j => i + 1 < j + 1
    BY <1>3
  <2>3. \A i \in 1..Len(b) : b[i] \in Level(free, L) \cup Level(free, L + 1)
    BY <1>7, <2>1 DEF InLayers
  <2>4. \A i \in 1..Len(b), j \in 1..Len(b) :
          i < j /\ b[j] \in Level(free, L) => b[i] \in Level(free, L)
    BY <1>7, <2>1, <2>2 DEF InLayers
  <2> QED BY <2>3, <2>4 DEF InLayers
<1>12. QueueWasReached(free, t.state, b)
  BY <1>5, <1>7, <1>8 DEF QueueWasReached
<1>13. GoalIsFound(n, free, t, L)
  BY <1>5, <1>7, <1>8 DEF GoalIsFound, a
<1>14. Waiting(n, t) + 1 <= Waiting(n, s)
  <2>1. Cardinality(Open(n, s.state)) \in Nat
    BY DoorsAreFinite
  <2> QED BY <1>3, <1>5, <2>1 DEF Waiting, a, m
<1> QED BY <1>5, <1>6, <1>7, <1>10, <1>11, <1>12, <1>13, <1>14 DEF BreadthInv

\* The distance of the cell at the front.
LEMMA FrontLevel ==
  ASSUME NEW n \in Nat, NEW free \in SUBSET Cells(n), NEW L \in Nat,
         NEW s \in BreadthStates(n, free), BreadthInv(n, free, s, L),
         s.queue # << >>, ~s.found
  PROVE  \E M \in Nat : BreadthInv(n, free, s, M) /\ s.queue[1] \in Level(free, M)
<1> DEFINE a == s.queue
           m == Len(a)
           c == a[1]
           M == L + 1
<1>1. a \in Seq(free) /\ Doors(n, free, s.state)
  BY DEF BreadthStates
<1>2. m \in Nat \ {0} /\ 1 \in 1..m
  BY <1>1, EmptySeq
<1>3. /\ NothingMissed(free, s.state, On(a)) /\ InLayers(free, a, L)
      /\ NearerLeft(free, s.state, L) /\ PathLeadsBack(n, free, s.state, s.path)
      /\ QueueWasReached(free, s.state, a) /\ GoalIsFound(n, free, s, L)
  BY DEF BreadthInv
<1>4. CASE c \in Level(free, L)
  BY <1>4
<1>5. CASE c \notin Level(free, L)
  <2>1. M \in Nat /\ M # 0 /\ M - 1 = L
    OBVIOUS
  <2> HIDE DEF a, m, c
  <2>2. \A i \in 1..m : a[i] \in Level(free, M) /\ a[i] \notin Level(free, L)
    <3>1. ASSUME NEW i \in 1..m PROVE a[i] \notin Level(free, L)
      <4>1. i = 1 \/ 1 < i
        OBVIOUS
      <4> QED BY <1>2, <1>3, <1>5, <4>1 DEF InLayers, c, m
    <3>2. ASSUME NEW i \in 1..m PROVE a[i] \in Level(free, M)
      <4>1. a[i] \in Level(free, L) \cup Level(free, L + 1)
        BY <1>3 DEF InLayers, m
      <4> QED BY <3>1, <4>1
    <3> QED BY <3>1, <3>2
  <2> HIDE DEF M
  <2>3. InLayers(free, a, M)
    BY <2>2 DEF InLayers, m
  <2>4. NearerLeft(free, s.state, M)
    <3> SUFFICES ASSUME NEW x \in Within(free, L), NEW y \in free
                 PROVE  ~Leads(s.state, x, y)
      BY <2>1 DEF NearerLeft
    <3>1. CASE L # 0 /\ x \in Within(free, L - 1)
      BY <1>3, <3>1 DEF NearerLeft
    <3>2. CASE ~(L # 0 /\ x \in Within(free, L - 1))
      <4>1. x \in Level(free, L) /\ x \in free
        BY <3>2, WithinDef DEF Level
      <4>2. x \notin On(a)
        BY <2>2, <4>1 DEF On, m
      <4>3. Handled(free, s.state, On(a), x)
        <5>1. CASE L = 0
          BY <1>3, <4>1, <5>1, LevelIs DEF NothingMissed
        <5>2. CASE L # 0
          <6>1. L - 1 \in Nat /\ (L - 1) + 1 = L
            BY <5>2
          <6>2. PICK d \in Level(free, L - 1) : Near(x, d)
            BY <4>1, <6>1, LevelBefore
          <6>3. d \in Within(free, L - 1) /\ d \in free /\ x \in Cells(n)
            BY <4>1, <6>1, LevelIs
          <6>4. ~Leads(s.state, d, x)
            BY <1>3, <4>1, <5>2, <6>3 DEF NearerLeft
          <6>5. ~Leads(s.state, x, d)
            BY <1>1, <6>3, <6>4, DoorsAre
          <6> QED BY <1>3, <4>1, <6>2, <6>3, <6>5 DEF NothingMissed
        <5> QED BY <5>1, <5>2
      <4> QED BY <4>2, <4>3 DEF Handled
    <3> QED BY <3>1, <3>2
  <2>5. GoalIsFound(n, free, s, M)
    BY <1>3 DEF GoalIsFound
  <2>6. BreadthInv(n, free, s, M)
    BY <1>3, <2>3, <2>4, <2>5 DEF BreadthInv, a
  <2>7. c \in Level(free, M)
    BY <1>2, <2>2 DEF c
  <2> QED BY <2>1, <2>6, <2>7 DEF c, a
<1> QED BY <1>4, <1>5

Searched(s) == s.found \/ s.queue = << >>

\* A round keeps the invariant and leaves less to do.
LEMMA BreadthRoundIs ==
  ASSUME NEW n \in Nat, NEW free \in SUBSET Cells(n), NEW L \in Nat,
         NEW s \in BreadthStates(n, free), BreadthInv(n, free, s, L),
         NEW t, t = BreadthRound(n, s)
  PROVE  /\ t \in BreadthStates(n, free)
         /\ Searched(s) => t = s
         /\ \E M \in Nat : BreadthInv(n, free, t, M)
         /\ ~Searched(s) => t.found \/ Waiting(n, t) + 1 <= Waiting(n, s)
<1>1. CASE Searched(s)
  <2>1. t = s
    BY <1>1 DEF BreadthRound, Searched
  <2> QED BY <1>1, <2>1
<1>2. CASE ~Searched(s)
  <2> DEFINE c == Head(s.queue)
             r == TryWay(n, s, c, "RIGHT")
             l == TryWay(n, r, c, "LEFT")
             u == TryWay(n, l, c, "UP")
             v == TryWay(n, u, c, "DOWN")
  <2>1. t = IF v.found THEN v ELSE [v EXCEPT !.queue = Tail(@)]
    BY <1>2 DEF BreadthRound, Searched
  <2>2. s.queue # << >> /\ ~s.found /\ c = s.queue[1]
    BY <1>2 DEF Searched
  <2>3. PICK M \in Nat : BreadthInv(n, free, s, M) /\ c \in Level(free, M)
    BY <2>2, FrontLevel
  <2>4. Leaving(n, free, s, M, c)
    BY <2>2, <2>3 DEF Leaving
  <2>5. r = TryWay(n, s, c, "RIGHT") /\ l = TryWay(n, r, c, "LEFT")
    OBVIOUS
  <2>6. u = TryWay(n, l, c, "UP") /\ v = TryWay(n, u, c, "DOWN")
    OBVIOUS
  <2>7. {"RIGHT", "LEFT", "UP", "DOWN"} = Ways
    BY DEF Ways
  <2> HIDE DEF c, r, l, u, v
  <2>8. /\ Leaving(n, free, r, M, c) /\ LeftBy(n, r, c, "RIGHT")
        /\ Waiting(n, r) <= Waiting(n, s)
    BY <2>3, <2>4, <2>5, <2>7, TryKeeps
  <2>9. /\ Leaving(n, free, l, M, c) /\ LeftBy(n, l, c, "LEFT")
        /\ LeftBy(n, l, c, "RIGHT") /\ Waiting(n, l) <= Waiting(n, r)
    BY <2>3, <2>5, <2>7, <2>8, TryKeeps
  <2>10. /\ Leaving(n, free, u, M, c) /\ LeftBy(n, u, c, "UP")
         /\ LeftBy(n, u, c, "RIGHT") /\ LeftBy(n, u, c, "LEFT")
         /\ Waiting(n, u) <= Waiting(n, l)
    BY <2>3, <2>6, <2>7, <2>9, TryKeeps
  <2>11. /\ Leaving(n, free, v, M, c) /\ LeftBy(n, v, c, "DOWN")
         /\ LeftBy(n, v, c, "RIGHT") /\ LeftBy(n, v, c, "LEFT")
         /\ LeftBy(n, v, c, "UP") /\ Waiting(n, v) <= Waiting(n, u)
    <3>1. /\ "DOWN" \in Ways /\ "RIGHT" \in Ways /\ "LEFT" \in Ways
          /\ "UP" \in Ways
      BY <2>7
    <3>2. /\ Leaving(n, free, v, M, c) /\ LeftBy(n, v, c, "DOWN")
          /\ \A w \in Ways : LeftBy(n, u, c, w) => LeftBy(n, v, c, w)
          /\ Waiting(n, v) <= Waiting(n, u)
      BY <2>3, <2>6, <2>10, <3>1, TryKeeps
    <3> QED BY <2>10, <3>1, <3>2
  <2>12. \A way \in Ways : LeftBy(n, v, c, way)
    BY <2>7, <2>11
  <2>13. ASSUME NEW x \in BreadthStates(n, free) PROVE Waiting(n, x) \in Int
    <3>1. x.queue \in Seq(free) /\ Cardinality(Open(n, x.state)) \in Nat
      BY DoorsAreFinite DEF BreadthStates
    <3> QED BY <3>1 DEF Waiting
  <2>14. /\ r \in BreadthStates(n, free) /\ l \in BreadthStates(n, free)
         /\ u \in BreadthStates(n, free) /\ v \in BreadthStates(n, free)
         /\ BreadthInv(n, free, v, M)
    BY <2>8, <2>9, <2>10, <2>11 DEF Leaving
  <2>15. Waiting(n, v) <= Waiting(n, s)
    <3>1. /\ Waiting(n, s) \in Int /\ Waiting(n, r) \in Int
          /\ Waiting(n, l) \in Int /\ Waiting(n, u) \in Int
          /\ Waiting(n, v) \in Int
      BY <2>13, <2>14
    <3> QED BY <2>8, <2>9, <2>10, <2>11, <3>1
  <2>16. CASE v.found
    BY <1>2, <2>1, <2>14, <2>16
  <2>17. CASE ~v.found
    <3>1. t = [v EXCEPT !.queue = Tail(@)]
      BY <2>1, <2>17
    <3>2. /\ t \in BreadthStates(n, free) /\ BreadthInv(n, free, t, M)
          /\ Waiting(n, t) + 1 <= Waiting(n, v)
      BY <2>3, <2>11, <2>12, <2>17, <3>1, LeaveKeeps
    <3>3. Waiting(n, t) + 1 <= Waiting(n, s)
      <4>1. /\ Waiting(n, t) \in Int /\ Waiting(n, v) \in Int
            /\ Waiting(n, s) \in Int
        BY <2>13, <2>14, <3>2
      <4> QED BY <2>15, <3>2, <4>1
    <3> QED BY <1>2, <3>2, <3>3
  <2> QED BY <2>16, <2>17
<1> QED BY <1>1, <1>2

\* The states the search can be in.
BreadthReached(n, free) ==
  {s \in BreadthStates(n, free) : \E L \in Nat : BreadthInv(n, free, s, L)}

\* The invariant holds at first.
LEMMA BreadthInvAtFirst ==
  ASSUME NEW n \in Nat \ {0, 1}, NEW free \in SUBSET Cells(n),
         NEW s, s = BreadthStart(n, free)
  PROVE  s \in BreadthReached(n, free) /\ Waiting(n, s) <= 4 * (n * n) + 1
<1>1. n \in Nat /\ n \in Nat \ {0} /\ Goal(n) # Start
  BY GoalIsACell
<1>2. s \in BreadthStates(n, free)
  BY <1>1, BreadthBegins
<1>3. /\ s.state = NodeStates(n, free) /\ s.found = FALSE
      /\ s.queue = IF Start \in free THEN <<Start>> ELSE << >>
  BY DEF BreadthStart
<1>4. \A x \in free, y \in free : Near(x, y) => Leads(s.state, x, y)
  BY <1>1, <1>3, AllDoors
<1>5. \A x \in free : ~HasShut(free, s.state, x)
  BY <1>4 DEF HasShut
<1>6. PathLeadsBack(n, free, s.state, s.path)
  <2>1. \A k \in Nat : Level(free, k + 1) \subseteq free
    <3>1. \A k \in Nat : k + 1 \in Nat
      OBVIOUS
    <3> QED BY <3>1, LevelIs
  <2> QED BY <1>5, <2>1 DEF PathLeadsBack
<1>7. NearerLeft(free, s.state, 0)
  BY DEF NearerLeft
<1>8. On(s.queue) \subseteq {Start} /\ (Start \in free => Start \in On(s.queue))
  <2>1. CASE Start \in free
    <3>1. s.queue = <<Start>> /\ Len(<<Start>>) = 1 /\ <<Start>>[1] = Start
      BY <1>3, <2>1
    <3>2. On(s.queue) = {Start}
      BY <3>1 DEF On
    <3> QED BY <3>2
  <2>2. CASE Start \notin free
    <3>1. s.queue = << >> /\ Len(<< >>) = 0
      BY <1>3, <2>2
    <3>2. On(s.queue) = {}
      BY <3>1 DEF On
    <3> QED BY <2>2, <3>2
  <2> QED BY <2>1, <2>2
<1>9. NothingMissed(free, s.state, On(s.queue))
  BY <1>4, <1>8 DEF NothingMissed, Handled
<1>10. QueueWasReached(free, s.state, s.queue)
  BY <1>8 DEF QueueWasReached
<1>11. GoalIsFound(n, free, s, 0)
  BY <1>1, <1>3, <1>5, <1>8 DEF GoalIsFound
<1>12. InLayers(free, s.queue, 0) /\ Len(s.queue) \in 0..1
  <2>1. CASE Start \in free
    <3>1. s.queue = <<Start>> /\ Len(<<Start>>) = 1 /\ <<Start>>[1] = Start
      BY <1>3, <2>1
    <3>2. Start \in Level(free, 0)
      BY <2>1, LevelIs
    <3> QED BY <3>1, <3>2 DEF InLayers
  <2>2. CASE Start \notin free
    <3>1. s.queue = << >> /\ Len(<< >>) = 0
      BY <1>3, <2>2
    <3> QED BY <3>1 DEF InLayers
  <2> QED BY <2>1, <2>2
<1>13. BreadthInv(n, free, s, 0)
  BY <1>6, <1>7, <1>9, <1>10, <1>11, <1>12 DEF BreadthInv
<1>14. Waiting(n, s) <= 4 * (n * n) + 1
  <2> DEFINE N == n * n
             D == Cardinality(Open(n, s.state))
  <2>1. N \in Nat /\ D \in Nat /\ D <= 4 * N
    BY <1>1, DoorsAreFinite
  <2> HIDE DEF N, D
  <2> DEFINE q == Len(s.queue)
  <2>2. q \in 0..1
    BY <1>12
  <2> HIDE DEF q
  <2>3. q + D <= 4 * N + 1
    BY <2>1, <2>2
  <2> QED BY <2>3 DEF Waiting, N, D, q
<1> QED BY <1>2, <1>13, <1>14 DEF BreadthReached

BreadthRuns(n, free) ==
  \E run \in [Nat -> BreadthReached(n, free)] :
    /\ run[0] = BreadthStart(n, free)
    /\ \A k \in Nat : run[k + 1] = BreadthRound(n, run[k])
    /\ BreadthFirst(n, free) = run[Rounds(n)]

\* The states of a breadth first search.
LEMMA BreadthFirstDef ==
  ASSUME NEW n \in Nat \ {0, 1}, NEW free \in SUBSET Cells(n)
  PROVE  BreadthRuns(n, free)
<1> DEFINE V == BreadthReached(n, free)
           v == BreadthStart(n, free)
           G == [x \in V \X Nat |-> BreadthRound(n, x[1])]
           run == CHOOSE f : f = [k \in Nat |->
                    IF k = 0
                    THEN [state |-> NodeStates(n, free), found |-> FALSE,
                          path |-> [i \in 0..(n * n - 1) |-> Start],
                          queue |-> IF Start \in free THEN <<Start>> ELSE << >>]
                    ELSE BreadthRound(n, f[k - 1])]
<1>1. BreadthFirst(n, free) = run[Rounds(n)]
  BY DEF BreadthFirst
<1>2. run = CHOOSE f : f = [k \in Nat |->
              IF k = 0 THEN v ELSE BreadthRound(n, f[k - 1])]
  BY DEF BreadthStart
<1> HIDE DEF run, v, V
<1>3. v \in V
  BY BreadthInvAtFirst DEF v, V
<1>4. ASSUME NEW s \in V PROVE BreadthRound(n, s) \in V
  <2>1. n \in Nat /\ s \in BreadthStates(n, free)
    BY DEF V, BreadthReached
  <2>2. PICK L \in Nat : BreadthInv(n, free, s, L)
    BY DEF V, BreadthReached
  <2> QED BY <2>1, <2>2, BreadthRoundIs DEF V, BreadthReached
<1>5. \A s \in V, k \in Nat : G[<<s, k>>] = BreadthRound(n, s)
  <2>1. \A s \in V, k \in Nat : <<s, k>> \in V \X Nat /\ <<s, k>>[1] = s
    OBVIOUS
  <2> QED BY <2>1
<1>6. Loops(V, v, G)
  <2>1. \A x \in V \X Nat : x[1] \in V
    OBVIOUS
  <2>2. G \in [V \X Nat -> V]
    BY <1>4, <2>1
  <2> HIDE DEF G
  <2> QED BY <1>3, <2>2, Iterates
<1> HIDE DEF G
<1>7. PICK f \in [Nat -> V] :
        \A k \in Nat : f[k] = IF k = 0 THEN v ELSE G[<<f[k - 1], k>>]
  BY <1>6 DEF Loops
<1>8. \A k \in Nat : k # 0 => k - 1 \in Nat
  OBVIOUS
<1>9. f = [k \in Nat |-> IF k = 0 THEN v ELSE BreadthRound(n, f[k - 1])]
  <2>1. \A k \in Nat : f[k] = IF k = 0 THEN v ELSE BreadthRound(n, f[k - 1])
    BY <1>5, <1>7, <1>8
  <2> QED BY <2>1
<1>10. run = [k \in Nat |-> IF k = 0 THEN v ELSE BreadthRound(n, run[k - 1])]
  BY <1>2, <1>9
<1>11. ASSUME NEW k \in Nat
       PROVE  run[k] = IF k = 0 THEN v ELSE BreadthRound(n, run[k - 1])
  BY <1>10
<1>12. run[0] = v
  BY <1>11
<1>13. \A k \in Nat : run[k + 1] = BreadthRound(n, run[k])
  <2> TAKE k \in Nat
  <2>1. k + 1 \in Nat /\ k + 1 # 0 /\ (k + 1) - 1 = k
    OBVIOUS
  <2>2. run[k + 1] = BreadthRound(n, run[(k + 1) - 1])
    BY <1>11, <2>1
  <2> QED BY <2>1, <2>2
<1>14. run \in [Nat -> V]
  <2>1. run[0] \in V
    BY <1>3, <1>12
  <2>2. \A k \in Nat : run[k] \in V => run[k + 1] \in V
    BY <1>4, <1>13
  <2> QED BY <1>10, <2>1, <2>2, Stays
<1> QED BY <1>1, <1>12, <1>13, <1>14 DEF BreadthRuns, V, v

\* The search ends within its rounds.
LEMMA BreadthEnds ==
  ASSUME NEW n \in Nat \ {0, 1}, NEW free \in SUBSET Cells(n)
  PROVE  BreadthFirst(n, free) \in BreadthReached(n, free)
           /\ Searched(BreadthFirst(n, free))
<1> DEFINE N == n * n
<1>1. PICK run \in [Nat -> BreadthReached(n, free)] :
        /\ run[0] = BreadthStart(n, free)
        /\ \A k \in Nat : run[k + 1] = BreadthRound(n, run[k])
        /\ BreadthFirst(n, free) = run[Rounds(n)]
  BY BreadthFirstDef DEF BreadthRuns
<1>2. N \in Nat /\ Rounds(n) = 4 * N + 2
  BY DEF Rounds
<1>3. ASSUME NEW k \in Nat PROVE Waiting(n, run[k]) \in Nat
  <2>1. /\ run[k].queue \in Seq(free)
        /\ Cardinality(Open(n, run[k].state)) \in Nat
    <3>1. run[k] \in BreadthStates(n, free)
      BY <1>1 DEF BreadthReached
    <3> QED BY <3>1, DoorsAreFinite DEF BreadthStates
  <2> QED BY <2>1 DEF Waiting
<1> HIDE DEF N
<1> DEFINE Good(k) == Searched(run[k]) \/ Waiting(n, run[k]) + k <= 4 * N + 1
           V == {k \in Nat : Good(k)}
           f == [k \in Nat |-> k]
<1>4. f[0] \in V
  <2>1. Waiting(n, run[0]) <= 4 * N + 1
    BY <1>1, BreadthInvAtFirst DEF N
  <2>2. Waiting(n, run[0]) + 0 <= 4 * N + 1
    BY <1>3, <2>1
  <2> QED BY <2>2
<1>5. ASSUME NEW k \in Nat, Good(k) PROVE Good(k + 1)
  <2> DEFINE s == run[k]
             t == run[k + 1]
  <2>1. /\ t = BreadthRound(n, s) /\ s \in BreadthStates(n, free)
        /\ n \in Nat /\ k + 1 \in Nat
    BY <1>1 DEF BreadthReached
  <2>2. PICK L \in Nat : BreadthInv(n, free, s, L)
    BY <1>1 DEF BreadthReached
  <2>3. Waiting(n, s) \in Nat /\ Waiting(n, t) \in Nat
    BY <1>3, <2>1
  <2>4. Searched(s) \/ Waiting(n, s) + k <= 4 * N + 1
    BY <1>5
  <2> HIDE DEF s, t
  <2>5. /\ Searched(s) => t = s
        /\ ~Searched(s) => t.found \/ Waiting(n, t) + 1 <= Waiting(n, s)
    BY <2>1, <2>2, BreadthRoundIs
  <2>6. CASE Searched(s)
    BY <2>5, <2>6 DEF t
  <2>7. CASE ~Searched(s) /\ t.found
    BY <2>7 DEF Searched, t
  <2>8. CASE ~Searched(s) /\ ~t.found
    <3>1. Waiting(n, t) + (k + 1) <= 4 * N + 1
      BY <1>2, <2>3, <2>4, <2>5, <2>8
    <3> QED BY <3>1 DEF t
  <2> QED BY <2>6, <2>7, <2>8
<1>6. \A k \in Nat : f[k] \in V
  <2>1. \A k \in Nat : f[k] \in V => f[k + 1] \in V
    <3> HIDE DEF Good
    <3> QED BY <1>5
  <2> HIDE DEF V, f
  <2> QED BY <1>4, <2>1, Stays
<1> DEFINE m == Rounds(n)
<1>7. m \in Nat /\ m = 4 * N + 2
  BY <1>2
<1> HIDE DEF m
<1>8. Good(m)
  <2> HIDE DEF Good
  <2>1. f[m] \in V
    BY <1>6, <1>7
  <2> QED BY <1>7, <2>1
<1>9. Searched(run[m])
  <2>1. Waiting(n, run[m]) \in Nat
    BY <1>3, <1>7
  <2>2. ~(Waiting(n, run[m]) + m <= 4 * N + 1)
    BY <1>2, <1>7, <2>1
  <2> QED BY <1>8, <2>2
<1> QED BY <1>1, <1>7, <1>9 DEF m

\* The way back along a path.
LeadsHome(n, path, back) ==
  /\ back \in [Nat -> Cells(n)] /\ back[0] = Goal(n)
  /\ \A k \in Nat : back[k + 1] = StepBack(n, path, back[k])
  /\ Marked(n, path) = {back[k] : k \in 0..(n * n)}

\* The marked cells are those of the way back.
LEMMA MarkedDef ==
  ASSUME NEW n \in Nat \ {0, 1}, NEW path \in [0..(n * n - 1) -> Cells(n)]
  PROVE  \E back : LeadsHome(n, path, back)
<1> DEFINE V == Cells(n)
           v == Goal(n)
           N == n * n
           G == [x \in V \X Nat |-> StepBack(n, path, x[1])]
           back == CHOOSE f : f = [k \in Nat |->
                     IF k = 0 THEN Goal(n) ELSE StepBack(n, path, f[k - 1])]
<1>1. Marked(n, path) = {back[k] : k \in 0..N}
  BY DEF Marked
<1>2. back = CHOOSE f : f = [k \in Nat |->
               IF k = 0 THEN v ELSE StepBack(n, path, f[k - 1])]
  OBVIOUS
<1> HIDE DEF back
<1>3. v \in V
  BY DEF Goal, Cells
<1>4. ASSUME NEW c \in V PROVE StepBack(n, path, c) \in V
  <2>1. Index(n, c) \in 0..(n * n - 1)
    BY IndexIs
  <2> DEFINE I == 0..(n * n - 1)
  <2> HIDE DEF I, V
  <2>2. path \in [I -> V] /\ Index(n, c) \in I
    BY <2>1 DEF I, V
  <2> QED BY <2>2 DEF StepBack
<1> HIDE DEF v, V, N
<1>5. \A c \in V, k \in Nat : G[<<c, k>>] = StepBack(n, path, c)
  <2>1. \A c \in V, k \in Nat : <<c, k>> \in V \X Nat /\ <<c, k>>[1] = c
    OBVIOUS
  <2> QED BY <2>1
<1>6. Loops(V, v, G)
  <2>1. \A x \in V \X Nat : x[1] \in V
    OBVIOUS
  <2>2. G \in [V \X Nat -> V]
    BY <1>4, <2>1
  <2> HIDE DEF G
  <2> QED BY <1>3, <2>2, Iterates
<1> HIDE DEF G
<1>7. PICK f \in [Nat -> V] :
        \A k \in Nat : f[k] = IF k = 0 THEN v ELSE G[<<f[k - 1], k>>]
  BY <1>6 DEF Loops
<1>8. \A k \in Nat : k # 0 => k - 1 \in Nat
  OBVIOUS
<1>9. f = [k \in Nat |-> IF k = 0 THEN v ELSE StepBack(n, path, f[k - 1])]
  <2>1. \A k \in Nat : f[k] = IF k = 0 THEN v ELSE StepBack(n, path, f[k - 1])
    BY <1>5, <1>7, <1>8
  <2> QED BY <2>1
<1>10. back = [k \in Nat |-> IF k = 0 THEN v ELSE StepBack(n, path, back[k - 1])]
  BY <1>2, <1>9
<1>11. ASSUME NEW k \in Nat
       PROVE  back[k] = IF k = 0 THEN v ELSE StepBack(n, path, back[k - 1])
  BY <1>10
<1>12. back[0] = v
  BY <1>11
<1>13. \A k \in Nat : back[k + 1] = StepBack(n, path, back[k])
  <2> TAKE k \in Nat
  <2>1. k + 1 \in Nat /\ k + 1 # 0 /\ (k + 1) - 1 = k
    OBVIOUS
  <2>2. back[k + 1] = StepBack(n, path, back[(k + 1) - 1])
    BY <1>11, <2>1
  <2> QED BY <2>1, <2>2
<1>14. back \in [Nat -> V]
  <2>1. back[0] \in V
    BY <1>3, <1>12
  <2>2. \A k \in Nat : back[k] \in V => back[k + 1] \in V
    BY <1>4, <1>13
  <2> QED BY <1>10, <2>1, <2>2, Stays
<1> QED BY <1>1, <1>12, <1>13, <1>14 DEF LeadsHome, V, v, N

\* Each step back is one step nearer to the start.
Nearer(n, free, marked, D, back) ==
  /\ back \in [Nat -> Cells(n)] /\ back[0] = Goal(n) /\ back[D] = Start
  /\ \A i \in 0..D : back[i] \in Level(free, D - i)
  /\ \A i \in 0..(D - 1) : Near(back[i + 1], back[i])
  /\ marked = {back[i] : i \in 0..D}

\* Once the goal is found the path leads back to the start.
LEMMA WayIsMarked ==
  ASSUME NEW n \in Nat \ {0, 1}, NEW free \in SUBSET Cells(n),
         NEW s \in BreadthStates(n, free), NEW L \in Nat,
         BreadthInv(n, free, s, L), s.found
  PROVE  \E back : Nearer(n, free, Marked(n, s.path), L + 1, back)
<1> DEFINE D == L + 1
           path == s.path
           state == s.state
           N == n * n
<1>1. /\ Doors(n, free, state) /\ path \in [0..(n * n - 1) -> Cells(n)]
      /\ PathLeadsBack(n, free, state, path)
      /\ Goal(n) \in Level(free, L + 1) /\ HasShut(free, state, Goal(n))
  BY DEF BreadthStates, BreadthInv, GoalIsFound
<1>2. PICK back : LeadsHome(n, path, back)
  BY <1>1, MarkedDef
<1>3. /\ back \in [Nat -> Cells(n)] /\ back[0] = Goal(n)
      /\ \A k \in Nat : back[k + 1] = StepBack(n, path, back[k])
      /\ Marked(n, path) = {back[k] : k \in 0..N}
  BY <1>2 DEF LeadsHome
<1>4. D \in Nat \ {0} /\ N \in Nat /\ D < N
  <2>1. L + 1 \in Nat /\ L + 1 < n * n
    BY <1>1, LevelBound
  <2> QED BY <2>1
<1>5. Goal(n) \in Level(free, D)
  BY <1>1
<1> HIDE DEF D, path, state, N
<1> DEFINE Nice(i) == i <= D => /\ back[i] \in Level(free, D - i)
                                /\ i # D => HasShut(free, state, back[i])
           f == [i \in Nat |-> i]
           V == {i \in Nat : Nice(i)}
<1>6. ASSUME NEW i \in Nat, i < D, Nice(i)
      PROVE  Nice(i + 1) /\ Near(back[i + 1], back[i])
  <2> DEFINE k == D - i - 1
             c == back[i]
             b == back[i + 1]
  <2>1. /\ k \in Nat /\ D - i = k + 1 /\ D - (i + 1) = k /\ k + 1 \in Nat
        /\ k + 1 # 0 /\ i # D /\ i <= D
    BY <1>4, <1>6
  <2>2. c \in Level(free, k + 1) /\ HasShut(free, state, c)
    BY <1>6, <2>1
  <2> HIDE DEF k
  <2>3. c \in free
    BY <2>1, <2>2, LevelIs
  <2>4. c # Start
    <3>1. 0 \in Nat /\ (c = Start => c \in Level(free, 0))
      BY <2>1, <2>3, LevelIs
    <3> QED BY <2>1, <2>2, <3>1, OnlyOneLevel
  <2>5. b = path[Index(n, c)]
    BY <1>3, <2>4 DEF StepBack
  <2> HIDE DEF b, c
  <2>6. b \in Level(free, k) /\ Near(b, c) /\ ~Leads(state, b, c)
    BY <1>1, <2>1, <2>2, <2>5 DEF PathLeadsBack
  <2>7. HasShut(free, state, b)
    BY <2>3, <2>6 DEF HasShut
  <2>8. Nice(i + 1)
    BY <2>1, <2>6, <2>7 DEF b
  <2> QED BY <2>6, <2>8 DEF b, c
<1>7. f[0] \in V
  <2>1. D - 0 = D /\ back[0] \in Level(free, D - 0)
    BY <1>3, <1>4, <1>5
  <2> QED BY <1>1, <1>3, <2>1 DEF state
<1>8. \A i \in Nat : f[i] \in V
  <2>1. ASSUME NEW i \in Nat, Nice(i) PROVE Nice(i + 1)
    <3>1. CASE i < D
      BY <1>6, <2>1, <3>1
    <3>2. CASE ~(i < D)
      BY <1>4, <3>2
    <3> QED BY <3>1, <3>2
  <2> HIDE DEF Nice
  <2>2. \A i \in Nat : f[i] \in V => f[i + 1] \in V
    BY <2>1
  <2> HIDE DEF V, f
  <2> QED BY <1>7, <2>2, Stays
<1>9. \A i \in Nat : Nice(i)
  <2> HIDE DEF Nice
  <2> QED BY <1>8
<1>10. \A i \in 0..D : i \in Nat /\ i <= D
  BY <1>4
<1>11. \A i \in 0..D : back[i] \in Level(free, D - i)
  BY <1>9, <1>10
<1>12. \A i \in 0..(D - 1) : Near(back[i + 1], back[i])
  <2>1. \A i \in 0..(D - 1) : i \in Nat /\ i < D
    BY <1>4
  <2> HIDE DEF Nice
  <2> QED BY <1>6, <1>9, <2>1
<1>13. back[D] = Start
  <2>1. D \in 0..D /\ D - D = 0
    BY <1>4
  <2>2. back[D] \in Level(free, 0)
    BY <1>11, <2>1
  <2> QED BY <2>2, LevelIs
<1>14. \A j \in Nat : back[D + j] = Start
  <2> DEFINE g == [j \in Nat |-> back[D + j]]
             W == {Start}
  <2>1. g[0] \in W
    <3>1. D + 0 = D
      BY <1>4
    <3> QED BY <1>13, <3>1
  <2>2. ASSUME NEW j \in Nat, back[D + j] = Start PROVE back[D + (j + 1)] = Start
    <3>1. D + j \in Nat /\ D + (j + 1) = (D + j) + 1
      BY <1>4
    <3>2. back[(D + j) + 1] = StepBack(n, path, back[D + j])
      BY <1>3, <3>1
    <3> QED BY <2>2, <3>1, <3>2 DEF StepBack
  <2>3. \A j \in Nat : g[j] \in W => g[j + 1] \in W
    <3>1. \A j \in Nat : j + 1 \in Nat
      OBVIOUS
    <3> QED BY <2>2, <3>1
  <2>4. \A j \in Nat : g[j] \in W
    <3> HIDE DEF g, W
    <3> QED BY <2>1, <2>3, Stays
  <2> QED BY <2>4
<1>15. Marked(n, path) = {back[i] : i \in 0..D}
  <2>1. \A i \in 0..D : i \in 0..N
    BY <1>4
  <2>2. ASSUME NEW i \in 0..N PROVE \E j \in 0..D : back[i] = back[j]
    <3>1. CASE i <= D
      <4>1. i \in 0..D
        BY <1>4, <3>1
      <4> QED BY <4>1
    <3>2. CASE ~(i <= D)
      <4>1. i - D \in Nat /\ D + (i - D) = i /\ D \in 0..D
        BY <1>4, <3>2
      <4>2. back[i] = Start
        BY <1>14, <4>1
      <4> QED BY <1>13, <4>1, <4>2
    <3> QED BY <3>1, <3>2
  <2> QED BY <1>3, <2>1, <2>2
<1>16. Nearer(n, free, Marked(n, path), D, back)
  BY <1>3, <1>11, <1>12, <1>13, <1>15 DEF Nearer
<1> QED BY <1>16 DEF D, path

\* The distance of the goal.
LEMMA DistanceIs ==
  ASSUME NEW n \in Nat, NEW free \in SUBSET Cells(n), NEW D \in Nat,
         Goal(n) \in Level(free, D)
  PROVE  Distance(n, free) = D
<1> DEFINE N == n * n
           At(k) == /\ Goal(n) \in Within(free, k)
                    /\ k > 0 => Goal(n) \notin Within(free, k - 1)
<1>1. N \in Nat /\ D < N
  BY LevelBound
<1>2. Distance(n, free) = CHOOSE k \in 0..N : At(k)
  BY DEF Distance
<1>3. ASSUME NEW k \in Nat PROVE At(k) <=> Goal(n) \in Level(free, k)
  BY DEF Level
<1> HIDE DEF N, At
<1>4. D \in 0..N /\ At(D)
  BY <1>1, <1>3
<1>5. ASSUME NEW k \in 0..N, At(k) PROVE k = D
  <2>1. k \in Nat
    BY <1>1
  <2> QED BY <1>3, <1>5, <2>1, OnlyOneLevel
<1> QED BY <1>2, <1>4, <1>5

\* One marked cell at each distance.
OnePerLayer(n, free, marked, D) ==
  /\ Cardinality(marked) = D + 1
  /\ {Start, Goal(n)} \subseteq marked
  /\ \A k \in 0..D : Cardinality(marked \cap Level(free, k)) = 1
  /\ \A k \in 1..D : \E c \in marked \cap Level(free, k),
                        d \in marked \cap Level(free, k - 1) : Near(c, d)

\* A way that is one step nearer each time is a shortest one.
LEMMA NearerIsShortest ==
  ASSUME NEW n \in Nat, NEW free \in SUBSET Cells(n), NEW D \in Nat,
         NEW marked, NEW back, Nearer(n, free, marked, D, back)
  PROVE  OnePerLayer(n, free, marked, D)
<1>1. /\ back \in [Nat -> Cells(n)] /\ back[0] = Goal(n) /\ back[D] = Start
      /\ \A i \in 0..D : back[i] \in Level(free, D - i)
      /\ \A i \in 0..(D - 1) : Near(back[i + 1], back[i])
      /\ marked = {back[i] : i \in 0..D}
  BY DEF Nearer
<1>2. ASSUME NEW i \in 0..D, NEW j \in 0..D, back[i] \in Level(free, D - j)
      PROVE  i = j
  <2>1. D - i \in Nat /\ D - j \in Nat
    OBVIOUS
  <2>2. D - i = D - j
    BY <1>1, <1>2, <2>1, OnlyOneLevel
  <2> QED BY <2>2
<1>3. Cardinality(marked) = D + 1
  <2> DEFINE I == 0..D
             g == [i \in I |-> back[i]]
  <2>1. IsFiniteSet(I) /\ Cardinality(I) = D + 1
    <3>1. 0 \in Int /\ D \in Int
      OBVIOUS
    <3>2. /\ IsFiniteSet(0..D)
          /\ Cardinality(0..D) = IF 0 > D THEN 0 ELSE D - 0 + 1
      BY <3>1, FS_Interval
    <3> QED BY <3>2
  <2>2. \A i \in I, j \in I : back[i] = back[j] => i = j
    BY <1>1, <1>2
  <2>3. marked = {back[i] : i \in I}
    BY <1>1
  <2> HIDE DEF I
  <2>4. g \in Surjection(I, marked)
    BY <2>3 DEF Surjection
  <2>5. g \in Injection(I, marked)
    <3>1. g \in [I -> marked]
      BY <2>3
    <3>2. \A i \in I, j \in I : g[i] = g[j] => i = j
      BY <2>2
    <3> HIDE DEF g
    <3> QED BY <3>1, <3>2 DEF Injection, IsInjective
  <2> HIDE DEF g
  <2> QED BY <2>1, <2>4, <2>5, FS_Surjection
<1>4. {Start, Goal(n)} \subseteq marked
  <2>1. 0 \in 0..D /\ D \in 0..D
    OBVIOUS
  <2> QED BY <1>1, <2>1
<1>5. ASSUME NEW k \in 0..D
      PROVE  marked \cap Level(free, k) = {back[D - k]}
  <2>1. D - k \in 0..D /\ D - (D - k) = k
    OBVIOUS
  <2>2. back[D - k] \in marked /\ back[D - k] \in Level(free, k)
    BY <1>1, <2>1
  <2>3. ASSUME NEW c \in marked, c \in Level(free, k) PROVE c = back[D - k]
    <3>1. PICK i \in 0..D : c = back[i]
      BY <1>1
    <3>2. back[i] \in Level(free, D - (D - k))
      BY <2>1, <2>3, <3>1
    <3>3. i = D - k
      BY <1>2, <2>1, <3>2
    <3> QED BY <3>1, <3>3
  <2> QED BY <2>2, <2>3
<1>6. \A k \in 0..D : Cardinality(marked \cap Level(free, k)) = 1
  BY <1>5, FS_Singleton
<1>7. ASSUME NEW k \in 1..D
      PROVE  \E c \in marked \cap Level(free, k),
                d \in marked \cap Level(free, k - 1) : Near(c, d)
  <2> DEFINE i == D - k
  <2>1. /\ k \in 0..D /\ k - 1 \in 0..D /\ D - (k - 1) = i + 1
        /\ i \in 0..(D - 1) /\ i \in Nat /\ i + 1 \in Nat
    OBVIOUS
  <2>2. marked \cap Level(free, k) = {back[i]}
    BY <1>5, <2>1
  <2>3. marked \cap Level(free, k - 1) = {back[D - (k - 1)]}
    BY <1>5, <2>1
  <2> HIDE DEF i
  <2>4. Near(back[i + 1], back[i])
    BY <1>1, <2>1
  <2>5. back[i + 1] \in Int \X Int
    <3>1. back[i + 1] \in Cells(n)
      BY <1>1, <2>1
    <3> QED BY <3>1, CellsArePairs
  <2>6. Near(back[i], back[i + 1])
    BY <2>4, <2>5, NearBothWays
  <2> QED BY <2>1, <2>2, <2>3, <2>6
<1> QED BY <1>3, <1>4, <1>6, <1>7 DEF OnePerLayer

\* The cells the breadth first search of bfs.cpp marks: a shortest way from the
\* start to the goal, one cell at each distance, if there is a way, and none if
\* there is none (bfs.cpp:79-162).
THEOREM BreadthFirstIsRight ==
  ASSUME NEW n \in Nat \ {0, 1}, NEW free \in SUBSET Cells(n)
  PROVE  /\ Goal(n) \notin Within(free, n * n) => BreadthPath(n, free) = {}
         /\ Goal(n) \in Within(free, n * n) =>
              OnePerLayer(n, free, BreadthPath(n, free), Distance(n, free))
<1> DEFINE s == BreadthFirst(n, free)
<1>1. /\ n \in Nat /\ n * n \in Nat
  OBVIOUS
<1>2. s \in BreadthReached(n, free) /\ Searched(s)
  BY BreadthEnds
<1>3. BreadthPath(n, free) =
        IF s.queue = << >> THEN {} ELSE Marked(n, s.path)
  BY DEF BreadthPath
<1> HIDE DEF s
<1>4. s \in BreadthStates(n, free)
  BY <1>2 DEF BreadthReached
<1>5. PICK L \in Nat : BreadthInv(n, free, s, L)
  BY <1>2 DEF BreadthReached
<1>6. CASE s.found
  <2>1. s.queue # << >> /\ Goal(n) \in Level(free, L + 1)
    BY <1>5, <1>6 DEF BreadthInv, GoalIsFound
  <2>2. L + 1 \in Nat
    OBVIOUS
  <2>3. Goal(n) \in Within(free, n * n)
    <3>1. Goal(n) \in Within(free, L + 1)
      BY <2>1, <2>2, LevelIs
    <3> QED BY <1>1, <2>2, <3>1, AllWithin
  <2>4. Distance(n, free) = L + 1
    BY <1>1, <2>1, <2>2, DistanceIs
  <2>5. PICK back : Nearer(n, free, Marked(n, s.path), L + 1, back)
    BY <1>4, <1>5, <1>6, WayIsMarked
  <2>6. OnePerLayer(n, free, Marked(n, s.path), L + 1)
    BY <1>1, <2>2, <2>5, NearerIsShortest
  <2> QED BY <1>3, <2>1, <2>3, <2>4, <2>6
<1>7. CASE ~s.found
  <2>1. s.queue = << >>
    BY <1>2, <1>7 DEF Searched
  <2>2. Goal(n) \notin Within(free, n * n)
    <3> SUFFICES ASSUME Goal(n) \in Within(free, n * n) PROVE FALSE
      OBVIOUS
    <3>1. On(s.queue) = {}
      <4>1. Len(<< >>) = 0
        OBVIOUS
      <4> QED BY <2>1, <4>1 DEF On
    <3>2. NothingMissed(free, s.state, {}) /\ Doors(n, free, s.state)
      BY <1>4, <1>5, <3>1 DEF BreadthInv, BreadthStates
    <3>3. PICK y \in free : Near(Goal(n), y)
      BY <1>1, GoalHasNext
    <3>4. Goal(n) \in free /\ ~Leads(s.state, Goal(n), y)
      BY <1>1, <3>2, AllHandled
    <3>5. ~HasShut(free, s.state, Goal(n))
      BY <1>5, <1>7, <3>4 DEF BreadthInv, GoalIsFound
    <3> QED BY <3>3, <3>4, <3>5 DEF HasShut
  <2> QED BY <1>3, <2>1, <2>2
<1> QED BY <1>6, <1>7

\* Both searches are right, in every maze.
THEOREM MazesAreRight ==
  ASSUME NEW n \in Nat \ {0, 1}, NEW free \in SUBSET Cells(n)
  PROVE  MazesAreSolved(n, free)
<1> DEFINE marked == BreadthPath(n, free)
           stack == DepthFirst(n, free)
           dist == Distance(n, free)
           Layer(k) == marked \cap Level(free, k)
<1>1. MazesAreSolved(n, free) <=>
        IF Goal(n) \notin Within(free, n * n)
        THEN marked = {} /\ stack = << >>
        ELSE /\ Cardinality(marked) = dist + 1
             /\ {Start, Goal(n)} \subseteq marked
             /\ \A k \in 0..dist : Cardinality(Layer(k)) = 1
             /\ \A k \in 1..dist :
                  \E c \in Layer(k), d \in Layer(k - 1) : Near(c, d)
             /\ stack[1] = Start /\ Last(stack) = Goal(n)
             /\ ToSet(stack) \subseteq free
             /\ \A i \in 2..Len(stack) : Near(stack[i - 1], stack[i])
  BY Zenon DEF MazesAreSolved, Level
<1> HIDE DEF stack
<1>2. /\ Goal(n) \notin Within(free, n * n) => stack = << >>
      /\ Goal(n) \in Within(free, n * n) =>
           /\ stack # << >> /\ stack[1] = Start /\ Last(stack) = Goal(n)
           /\ ToSet(stack) \subseteq free
           /\ \A i \in 2..Len(stack) : Near(stack[i - 1], stack[i])
  BY DepthFirstIsRight DEF stack
<1>3. /\ Goal(n) \notin Within(free, n * n) => marked = {}
      /\ Goal(n) \in Within(free, n * n) => OnePerLayer(n, free, marked, dist)
  BY BreadthFirstIsRight
<1> HIDE DEF marked, dist
<1>4. CASE Goal(n) \notin Within(free, n * n)
  BY <1>1, <1>2, <1>3, <1>4
<1>5. CASE Goal(n) \in Within(free, n * n)
  <2>1. OnePerLayer(n, free, marked, dist)
    BY <1>3, <1>5
  <2>2. /\ Cardinality(marked) = dist + 1
        /\ {Start, Goal(n)} \subseteq marked
        /\ \A k \in 0..dist : Cardinality(Layer(k)) = 1
        /\ \A k \in 1..dist :
             \E c \in Layer(k), d \in Layer(k - 1) : Near(c, d)
    BY <2>1 DEF OnePerLayer
  <2> HIDE DEF Layer
  <2> QED BY <1>1, <1>2, <1>5, <2>2
<1> QED BY <1>4, <1>5

-----------------------------------------------------------------------------
(* The configuration file.                                                 *)
\* The characters of a file, and those a key is made of.
Letters(C) == C \cup {"space", "=", "#", "newline"}
Plain(C) == C \ {"space", "=", "#", "newline"}

\* A value has at most one space behind it.
IsItem(C, l) ==
  /\ l.kind = "item" /\ l.pad \in Seq({"space"})
  /\ l.key \in Seq(Plain(C)) /\ l.key # << >>
  /\ l.value \in Seq(Letters(C) \ {"newline"}) /\ l.value # << >>
  /\ l.value[Len(l.value)] = "space" =>
       Len(l.value) > 1 /\ l.value[Len(l.value) - 1] # "space"
IsOther(C, l) ==
  /\ l.kind \in {"comment", "note", "blank"}
  /\ l.key \in Seq(Plain(C)) /\ l.key # << >>
  /\ l.value \in Seq(Letters(C) \ {"newline"})
Break == {<< >>, <<"newline">>}

\* Two sequences, one behind the other.
FollowedBy(S, a, n, b, m, c) ==
  /\ c \in Seq(S) /\ Len(c) = n + m
  /\ \A i \in 1..n : c[i] = a[i]
  /\ \A i \in 1..m : c[n + i] = b[i]

\* Two sequences, one behind the other, element by element.
LEMMA PutBehind ==
  ASSUME NEW S, NEW a \in Seq(S), NEW b \in Seq(S), NEW n, n = Len(a),
         NEW m, m = Len(b), NEW c, c = a \o b
  PROVE  FollowedBy(S, a, n, b, m, c)
<1>1. c \in Seq(S) /\ Len(c) = n + m
  OBVIOUS
<1>2. \A i \in 1..n : c[i] = a[i]
  OBVIOUS
<1>3. \A i \in 1..m : c[n + i] = b[i]
  OBVIOUS
<1> QED BY <1>1, <1>2, <1>3 DEF FollowedBy

\* The least of some numbers is the one that CHOOSE takes.
LEMMA LeastIs ==
  ASSUME NEW T \in SUBSET Nat, NEW a \in T, \A j \in T : a <= j
  PROVE  (CHOOSE i \in T : \A j \in T : i <= j) = a
<1> DEFINE b == CHOOSE i \in T : \A j \in T : i <= j
<1>1. b \in T /\ \A j \in T : b <= j
  OBVIOUS
<1> HIDE DEF b
<1>2. b <= a /\ a <= b /\ a \in Nat /\ b \in Nat
  BY <1>1
<1>3. b = a
  BY <1>2
<1> QED BY <1>3 DEF b

\* So is the greatest.
LEMMA GreatestIs ==
  ASSUME NEW T \in SUBSET Nat, NEW a \in T, \A j \in T : j <= a
  PROVE  (CHOOSE i \in T : \A j \in T : j <= i) = a
<1> DEFINE b == CHOOSE i \in T : \A j \in T : j <= i
<1>1. b \in T /\ \A j \in T : j <= b
  OBVIOUS
<1> HIDE DEF b
<1>2. b <= a /\ a <= b /\ a \in Nat /\ b \in Nat
  BY <1>1
<1>3. b = a
  BY <1>2
<1> QED BY <1>3 DEF b

\* A sequence over some elements is one over more.
LEMMA MoreElements ==
  ASSUME NEW S, NEW T, S \subseteq T, NEW s \in Seq(S)
  PROVE  s \in Seq(T)
<1>1. Len(s) \in Nat /\ s \in [1..Len(s) -> S]
  OBVIOUS
<1>2. s \in [1..Len(s) -> T]
  BY <1>1
<1> QED BY <1>1, <1>2

\* What Trim() leaves.
LEMMA TrimIs ==
  ASSUME NEW S, NEW s \in Seq(S), NEW a \in 1..Len(s), NEW b \in 1..Len(s),
         s[a] # "space", s[b] # "space",
         \A i \in 1..Len(s) : i < a \/ b < i => s[i] = "space"
  PROVE  Trim(s) = SubSeq(s, a, b)
<1> DEFINE kept == {i \in DOMAIN s : s[i] # "space"}
<1>1. kept \subseteq Nat /\ a \in kept /\ b \in kept /\ kept # {}
  OBVIOUS
<1>2. \A i \in kept : a <= i /\ i <= b
  OBVIOUS
<1> HIDE DEF kept
<1>3. (CHOOSE i \in kept : \A j \in kept : i <= j) = a
  BY <1>1, <1>2, LeastIs
<1>4. (CHOOSE i \in kept : \A j \in kept : j <= i) = b
  BY <1>1, <1>2, GreatestIs
<1> QED BY <1>1, <1>3, <1>4 DEF Trim, kept

\* Trim() leaves a line of spaces alone.
LEMMA TrimOfBlank ==
  ASSUME NEW s, \A i \in DOMAIN s : s[i] = "space"
  PROVE  Trim(s) = s
BY DEF Trim

\* What find() returns.
LEMMA FindIs ==
  ASSUME NEW S, NEW s \in Seq(S), NEW char, NEW a \in 1..Len(s), s[a] = char,
         \A i \in 1..Len(s) : i < a => s[i] # char
  PROVE  Find(s, char) = a
<1> DEFINE at == {i \in DOMAIN s : s[i] = char}
<1>1. at \subseteq Nat /\ a \in at /\ at # {}
  OBVIOUS
<1>2. \A i \in at : a <= i
  OBVIOUS
<1> HIDE DEF at
<1>3. (CHOOSE i \in at : \A j \in at : i <= j) = a
  BY <1>1, <1>2, LeastIs
<1> QED BY <1>1, <1>3 DEF Find, at

\* A character that is not there is not found.
LEMMA FindNothing ==
  ASSUME NEW s, NEW char, \A i \in DOMAIN s : s[i] # char
  PROVE  Find(s, char) = 0
BY DEF Find

\* Six sequences, one behind the other.
SixIn(S, s, a, p, k, q, e, v, m, z, r) ==
  /\ s \in Seq(S) /\ Len(s) = p + q + p + 1 + m + r
  /\ \A i \in 1..p : s[i] = a[i] /\ s[p + q + i] = a[i]
  /\ \A i \in 1..q : s[p + i] = k[i]
  /\ s[p + q + p + 1] = e[1]
  /\ \A i \in 1..m : s[p + q + p + 1 + i] = v[i]
  /\ \A i \in 1..r : s[p + q + p + 1 + m + i] = z[i]

\* The six parts of an item, one behind the other.
LEMMA SixBehind ==
  ASSUME NEW S, NEW a \in Seq(S), NEW k \in Seq(S), NEW e \in Seq(S),
         NEW v \in Seq(S), NEW z \in Seq(S), NEW s,
         s = ((((a \o k) \o a) \o e) \o v) \o z, Len(e) = 1,
         NEW p \in Nat, NEW q \in Nat, NEW m \in Nat, NEW r \in Nat,
         p = Len(a), q = Len(k), m = Len(v), r = Len(z)
  PROVE  SixIn(S, s, a, p, k, q, e, v, m, z, r)
<1> DEFINE b == a \o k
           c == b \o a
           d == c \o e
           f == d \o v
<1>0. s = f \o z
  OBVIOUS
<1>1. FollowedBy(S, a, p, k, q, b)
  BY PutBehind, Zenon
<1>2. b \in Seq(S) /\ Len(b) = p + q
  BY <1>1 DEF FollowedBy
<1> HIDE DEF b
<1>3. FollowedBy(S, b, p + q, a, p, c)
  BY <1>2, PutBehind, Zenon
<1>4. c \in Seq(S) /\ Len(c) = p + q + p
  BY <1>3 DEF FollowedBy
<1> HIDE DEF c
<1>5. FollowedBy(S, c, p + q + p, e, 1, d)
  BY <1>4, PutBehind, Zenon
<1>6. d \in Seq(S) /\ Len(d) = p + q + p + 1
  BY <1>5 DEF FollowedBy
<1> HIDE DEF d
<1>7. FollowedBy(S, d, p + q + p + 1, v, m, f)
  BY <1>6, PutBehind, Zenon
<1>8. f \in Seq(S) /\ Len(f) = p + q + p + 1 + m
  BY <1>7 DEF FollowedBy
<1> HIDE DEF f
<1>9. FollowedBy(S, f, p + q + p + 1 + m, z, r, s)
  BY <1>0, <1>8, PutBehind, Zenon
<1>10. \A i \in 1..(p + q + p + 1) : s[i] = d[i]
  BY ONLY <1>7, <1>9, p \in Nat, q \in Nat, m \in Nat DEF FollowedBy
<1>11. \A i \in 1..(p + q + p) : s[i] = c[i]
  BY ONLY <1>5, <1>10, p \in Nat, q \in Nat DEF FollowedBy
<1>12. \A i \in 1..(p + q) : s[i] = b[i]
  BY ONLY <1>3, <1>11, p \in Nat, q \in Nat DEF FollowedBy
<1>13. \A i \in 1..p : s[i] = a[i] /\ s[p + q + i] = a[i]
  <2>1. \A i \in 1..p : s[i] = a[i]
    BY ONLY <1>1, <1>12, p \in Nat, q \in Nat DEF FollowedBy
  <2>2. \A i \in 1..p : s[p + q + i] = a[i]
    BY ONLY <1>3, <1>11, p \in Nat, q \in Nat DEF FollowedBy
  <2> QED BY <2>1, <2>2
<1>14. \A i \in 1..q : s[p + i] = k[i]
  BY ONLY <1>1, <1>12, p \in Nat, q \in Nat DEF FollowedBy
<1>15. s[p + q + p + 1] = e[1]
  <2>1. p + q + p + 1 \in 1..(p + q + p + 1) /\ 1 \in 1..1
    OBVIOUS
  <2>2. d[p + q + p + 1] = e[1]
    BY ONLY <1>5, <2>1 DEF FollowedBy
  <2> QED BY <1>10, <2>1, <2>2, Zenon
<1>16. \A i \in 1..m : s[p + q + p + 1 + i] = v[i]
  <2> TAKE i \in 1..m
  <2>1. p + q + p + 1 + i \in 1..(p + q + p + 1 + m)
    OBVIOUS
  <2>2. s[p + q + p + 1 + i] = f[p + q + p + 1 + i]
    BY <1>9, <2>1, Zenon DEF FollowedBy
  <2>3. f[p + q + p + 1 + i] = v[i]
    BY <1>7, Zenon DEF FollowedBy
  <2> QED BY <2>2, <2>3
<1>17. /\ s \in Seq(S) /\ Len(s) = p + q + p + 1 + m + r
       /\ \A i \in 1..r : s[p + q + p + 1 + m + i] = z[i]
  BY <1>9, Zenon DEF FollowedBy
<1> QED BY <1>13, <1>14, <1>15, <1>16, <1>17 DEF SixIn

\* The characters of an item.
ItemSpelled(C, l, nl, p, q, m, s) ==
  /\ s \in Seq(Letters(C)) /\ Len(s) = p + q + p + 1 + m + Len(nl)
  /\ p \in Nat /\ q \in Nat \ {0} /\ m \in Nat \ {0}
  /\ \A i \in 1..p : s[i] = "space" /\ s[p + q + i] = "space"
  /\ \A i \in 1..q : s[p + i] = l.key[i]
  /\ s[p + q + p + 1] = "="
  /\ \A i \in 1..m : s[p + q + p + 1 + i] = l.value[i]
  /\ \A i \in 1..Len(nl) : s[p + q + p + 1 + m + i] = nl[i]

\* The characters of an item's line.
LEMMA ItemIs ==
  ASSUME NEW C, NEW l, IsItem(C, l), NEW nl \in Break,
         NEW p, p = Len(l.pad), NEW q, q = Len(l.key), NEW m, m = Len(l.value),
         NEW s, s = Text(l) \o nl
  PROVE  ItemSpelled(C, l, nl, p, q, m, s)
<1> DEFINE S == Letters(C)
           e == <<"=">>
<1>1. l.pad \in Seq(S) /\ l.key \in Seq(S) /\ l.value \in Seq(S)
  <2>1. {"space"} \subseteq S /\ Plain(C) \subseteq S /\ S \ {"newline"} \subseteq S
    BY DEF Plain, Letters
  <2>2. /\ l.pad \in Seq({"space"}) /\ l.key \in Seq(Plain(C))
        /\ l.value \in Seq(S \ {"newline"})
    BY DEF IsItem
  <2> HIDE DEF S
  <2> QED BY <2>1, <2>2, MoreElements
<1>2. nl \in Seq(S) /\ e \in Seq(S) /\ Len(e) = 1 /\ e[1] = "="
  <2>1. /\ "=" \in S /\ "newline" \in S
    BY DEF Letters
  <2> HIDE DEF S
  <2>2. \A x \in S : /\ <<x>> \in Seq(S) /\ << >> \in Seq(S)
                     /\ Len(<<x>>) = 1 /\ <<x>>[1] = x
    OBVIOUS
  <2> QED BY <2>1, <2>2 DEF Break
<1>3. \A i \in 1..p : l.pad[i] = "space"
  <2>1. l.pad \in Seq({"space"})
    BY DEF IsItem
  <2> QED BY <2>1
<1>4. l.key # << >> /\ l.value # << >> /\ l.kind = "item"
  BY DEF IsItem
<1>5. p \in Nat /\ q \in Nat \ {0} /\ m \in Nat \ {0}
  BY <1>1, <1>4, EmptySeq
<1>6. s = ((((l.pad \o l.key) \o l.pad) \o e) \o l.value) \o nl
  BY <1>4 DEF Text
<1>7. Len(nl) \in Nat
  BY <1>2
<1> HIDE DEF S, e
<1>8. SixIn(S, s, l.pad, p, l.key, q, e, l.value, m, nl, Len(nl))
  BY <1>1, <1>2, <1>5, <1>6, <1>7, SixBehind, Zenon
<1>9. /\ s \in Seq(S) /\ Len(s) = p + q + p + 1 + m + Len(nl)
      /\ \A i \in 1..p : s[i] = l.pad[i] /\ s[p + q + i] = l.pad[i]
      /\ \A i \in 1..q : s[p + i] = l.key[i]
      /\ s[p + q + p + 1] = e[1]
      /\ \A i \in 1..m : s[p + q + p + 1 + i] = l.value[i]
      /\ \A i \in 1..Len(nl) : s[p + q + p + 1 + m + i] = nl[i]
  BY <1>8, Zenon DEF SixIn
<1>10. \A i \in 1..p : s[i] = "space" /\ s[p + q + i] = "space"
  BY <1>3, <1>9, Zenon
<1>11. s[p + q + p + 1] = "="
  BY <1>2, <1>9, Zenon
<1> QED BY <1>5, <1>9, <1>10, <1>11, Zenon DEF S, ItemSpelled

\* Sequences that agree.
LEMMA SameSeq ==
  ASSUME NEW S, NEW T, NEW s \in Seq(S), NEW t \in Seq(T), Len(s) = Len(t),
         \A i \in 1..Len(s) : s[i] = t[i]
  PROVE  s = t
OBVIOUS

\* A part of a sequence.
LEMMA PartFromTo ==
  ASSUME NEW S, NEW s \in Seq(S), NEW a \in Nat \ {0}, NEW b \in Nat,
         a <= b + 1, b <= Len(s), NEW n, n = b + 1 - a
  PROVE  /\ SubSeq(s, a, b) \in Seq(S) /\ Len(SubSeq(s, a, b)) = n
         /\ \A i \in 1..n : SubSeq(s, a, b)[i] = s[a + i - 1]
<1>1. \A i \in a..b : s[i] \in S
  OBVIOUS
<1> QED BY <1>1

\* A part that is a sequence.
LEMMA PartIsSeq ==
  ASSUME NEW S, NEW s \in Seq(S), NEW T, NEW t \in Seq(T), NEW a \in Nat,
         a + Len(t) <= Len(s), \A i \in 1..Len(t) : s[a + i] = t[i],
         NEW b, b = a + Len(t), NEW c, c = a + 1
  PROVE  SubSeq(s, c, b) = t
<1> DEFINE u == SubSeq(s, c, b)
           n == Len(t)
<1>1. n \in Nat /\ b \in Nat /\ c \in Nat \ {0} /\ c <= b + 1 /\ b <= Len(s) /\ n = b + 1 - c
  OBVIOUS
<1>2. /\ u \in Seq(S) /\ Len(u) = n
      /\ \A i \in 1..n : u[i] = s[c + i - 1]
  <2> HIDE DEF n
  <2> QED BY <1>1, PartFromTo
<1> HIDE DEF u
<1>3. \A i \in 1..n : u[i] = t[i]
  <2> TAKE i \in 1..n
  <2>1. c + i - 1 = a + i
    BY <1>1
  <2> QED BY <1>2, <2>1
<1> HIDE DEF n
<1> QED BY <1>2, <1>3, SameSeq DEF u, n

\* What a line that is an item leaves of its value.
ValueOf(l, nl) ==
  IF nl = << >> /\ Last(l.value) = "space" THEN Front(l.value) ELSE l.value

\* The item without the spaces around it.
Trimmed(C, l, nl, p, q, m, buf) ==
  /\ buf \in Seq(Letters(C)) /\ p \in Nat /\ q \in Nat \ {0} /\ m \in Nat \ {0}
  /\ Len(buf) = q + p + 1 + Len(ValueOf(l, nl)) + Len(nl)
  /\ \A i \in 1..q : buf[i] = l.key[i]
  /\ \A i \in 1..p : buf[q + i] = "space"
  /\ buf[q + p + 1] = "="
  /\ \A i \in 1..Len(ValueOf(l, nl)) : buf[q + p + 1 + i] = ValueOf(l, nl)[i]
  /\ \A i \in 1..Len(nl) : buf[q + p + 1 + Len(ValueOf(l, nl)) + i] = nl[i]

\* The value that is left.
ValueLeft(C, l, nl, v, m, k) ==
  /\ v \in Seq(Letters(C) \ {"newline"}) /\ k \in Nat \ {0} /\ k <= m
  /\ \A i \in 1..k : v[i] = l.value[i]
  /\ v[k] # "space" \/ nl = <<"newline">>
  /\ k # m => nl = << >> /\ k + 1 = m /\ l.value[m] = "space"

\* What is left of a value, and what is cut off it.
LEMMA ValueIs ==
  ASSUME NEW C, NEW l, IsItem(C, l), NEW nl \in Break, NEW v, v = ValueOf(l, nl),
         NEW m, m = Len(l.value), NEW k, k = Len(v)
  PROVE  ValueLeft(C, l, nl, v, m, k)
<1> DEFINE T == Letters(C) \ {"newline"}
           w == l.value
<1>1. w \in Seq(T) /\ w # << >> /\ m = Len(w) /\ m \in Nat
  BY DEF IsItem
<1>2. w[m] = "space" => m > 1 /\ w[m - 1] # "space"
  BY DEF IsItem
<1>3. m # 0
  BY <1>1, EmptySeq
<1>4. CASE nl = << >> /\ w[m] = "space"
  <2>1. v = SubSeq(w, 1, m - 1)
    BY <1>4 DEF ValueOf, Last, Front
  <2> HIDE DEF T, w
  <2>2. m - 1 \in Nat \ {0} /\ m - 1 <= Len(w) /\ m - 1 = (m - 1) + 1 - 1 /\ 1 <= (m - 1) + 1
    BY <1>1, <1>2, <1>4
  <2>3. /\ v \in Seq(T) /\ Len(v) = m - 1
        /\ \A i \in 1..(m - 1) : v[i] = w[1 + i - 1]
    BY <1>1, <2>1, <2>2, PartFromTo
  <2>4. k = m - 1
    BY <2>3
  <2>5. \A i \in 1..k : v[i] = w[i]
    <3> TAKE i \in 1..k
    <3>1. 1 + i - 1 = i
      BY <1>1, <2>4
    <3> QED BY <2>3, <2>4, <3>1
  <2>6. v[k] # "space"
    <3>1. k \in 1..k
      <4>1. k \in Nat /\ k # 0
        BY <2>2, <2>4
      <4> QED BY <4>1
    <3> QED BY <1>2, <1>4, <2>4, <2>5, <3>1
  <2>7. k + 1 = m /\ k <= m
    BY <1>1, <2>4
  <2> QED BY <1>4, <2>2, <2>3, <2>4, <2>5, <2>6, <2>7 DEF T, w, ValueLeft
<1>5. CASE ~(nl = << >> /\ w[m] = "space")
  <2>1. v = w /\ k = m
    BY <1>5 DEF ValueOf, Last
  <2>2. v[k] # "space" \/ nl = <<"newline">>
    BY <1>5, <2>1 DEF Break
  <2> QED BY <1>1, <1>3, <2>1, <2>2 DEF ValueLeft
<1> QED BY <1>4, <1>5

\* The line of an item without the spaces around it.
LEMMA ItemTrimmed ==
  ASSUME NEW C, NEW l, IsItem(C, l), NEW nl \in Break
  PROVE  Trimmed(C, l, nl, Len(l.pad), Len(l.key), Len(l.value),
                 Trim(Text(l) \o nl))
<1> DEFINE S == Letters(C)
           p == Len(l.pad)
           q == Len(l.key)
           m == Len(l.value)
           v == ValueOf(l, nl)
           k == Len(v)
           r == Len(nl)
           s == Text(l) \o nl
           t == q + p + 1
           e == p + t + k + r
           buf == SubSeq(s, p + 1, e)
<1>1. /\ s \in Seq(S) /\ Len(s) = p + q + p + 1 + m + r
      /\ p \in Nat /\ q \in Nat \ {0} /\ m \in Nat \ {0}
      /\ \A i \in 1..p : s[i] = "space" /\ s[p + q + i] = "space"
      /\ \A i \in 1..q : s[p + i] = l.key[i]
      /\ s[p + q + p + 1] = "="
      /\ \A i \in 1..m : s[p + q + p + 1 + i] = l.value[i]
      /\ \A i \in 1..r : s[p + q + p + 1 + m + i] = nl[i]
  <2>1. ItemSpelled(C, l, nl, p, q, m, s)
    BY ItemIs, Zenon
  <2> QED BY <2>1, Zenon DEF ItemSpelled
<1>2. /\ k \in Nat \ {0} /\ k <= m
      /\ \A i \in 1..k : v[i] = l.value[i]
      /\ v[k] # "space" \/ nl = <<"newline">>
      /\ k # m => nl = << >> /\ k + 1 = m /\ l.value[m] = "space"
  <2>1. ValueLeft(C, l, nl, v, m, k)
    BY ValueIs, Zenon
  <2> QED BY <2>1, Zenon DEF ValueLeft
<1>3. r \in Nat /\ (r = 0 \/ r = 1) /\ (r = 1 <=> nl = <<"newline">>)
      /\ (nl = << >> => r = 0) /\ (r = 1 => nl[1] = "newline")
  BY DEF Break
<1>4. l.key[1] # "space"
  <2>1. l.key \in Seq(Plain(C)) /\ 1 \in 1..q
    BY <1>1 DEF IsItem
  <2>2. l.key[1] \in Plain(C)
    BY <2>1
  <2> QED BY <2>2 DEF Plain
<1> HIDE DEF S, p, q, m, v, k, r, s
<1>5. /\ t \in Nat /\ e \in Nat /\ p + 1 \in 1..Len(s) /\ e \in 1..Len(s)
      /\ Len(s) = p + t + m + r /\ p + 1 <= e
      /\ k # m => r = 0 /\ e + 1 = Len(s)
      /\ k = m => e = Len(s)
  BY <1>1, <1>2, <1>3
<1>6. s[p + 1] # "space"
  <2>1. 1 \in 1..q
    BY <1>1
  <2>2. s[p + 1] = l.key[1]
    BY <1>1, <2>1, Zenon
  <2> QED BY <1>4, <2>2
<1>7. \A i \in 1..k : s[p + t + i] = v[i]
  <2> TAKE i \in 1..k
  <2>1. i \in 1..m /\ p + t + i = p + q + p + 1 + i
    BY <1>1, <1>2
  <2>2. s[p + q + p + 1 + i] = l.value[i]
    BY <1>1, <2>1, Zenon
  <2>3. v[i] = l.value[i]
    BY <1>2, Zenon
  <2> HIDE DEF t
  <2> QED BY <2>1, <2>2, <2>3
<1>8. \A i \in 1..r : s[p + t + k + i] = nl[i]
  <2> TAKE i \in 1..r
  <2>1. k = m /\ p + t + k + i = p + q + p + 1 + m + i
    BY <1>1, <1>2, <1>3
  <2>2. s[p + q + p + 1 + m + i] = nl[i]
    BY <1>1, Zenon
  <2> HIDE DEF t
  <2> QED BY <2>1, <2>2
<1>9. s[e] # "space"
  <2>1. CASE r = 1
    <3>1. e = p + t + k + 1 /\ 1 \in 1..r
      BY <2>1
    <3>2. s[p + t + k + 1] = nl[1]
      BY <1>8, <3>1, Zenon
    <3> HIDE DEF e, t
    <3> QED BY <1>3, <2>1, <3>1, <3>2
  <2>2. CASE r = 0
    <3>1. e = p + t + k /\ k \in 1..k
      BY <1>1, <1>2, <2>2
    <3>2. s[p + t + k] = v[k]
      BY <1>7, <3>1, Zenon
    <3> HIDE DEF e, t
    <3> QED BY <1>2, <1>3, <2>2, <3>1, <3>2
  <2> QED BY <1>3, <2>1, <2>2
<1>10. \A i \in 1..Len(s) : i < p + 1 \/ e < i => s[i] = "space"
  <2> TAKE i \in 1..Len(s)
  <2>1. ASSUME i < p + 1 PROVE s[i] = "space"
    <3>1. i \in 1..p
      BY <1>1, <2>1
    <3> QED BY <1>1, <3>1, Zenon
  <2>2. ASSUME e < i PROVE s[i] = "space"
    <3>1. k # m /\ i = Len(s) /\ r = 0 /\ m \in 1..m
      BY <1>1, <1>2, <1>5, <2>2
    <3>2. i = p + q + p + 1 + m
      BY <1>1, <3>1
    <3>3. s[p + q + p + 1 + m] = l.value[m]
      BY <1>1, <3>1, Zenon
    <3> QED BY <1>2, <3>1, <3>2, <3>3
  <2> QED BY <2>1, <2>2
<1>11. Trim(s) = buf
  <2>1. p + 1 \in 1..Len(s) /\ e \in 1..Len(s)
    BY <1>5
  <2> HIDE DEF e, t
  <2> QED BY <1>1, <1>6, <1>9, <1>10, <2>1, TrimIs
<1>12. /\ buf \in Seq(S) /\ Len(buf) = t + k + r
       /\ \A i \in 1..(t + k + r) : buf[i] = s[p + 1 + i - 1]
  <2>1. /\ p + 1 \in Nat \ {0} /\ e \in Nat /\ p + 1 <= e + 1 /\ e <= Len(s)
        /\ t + k + r = e + 1 - (p + 1)
    BY <1>1, <1>2, <1>3, <1>5
  <2> HIDE DEF e, t
  <2> QED BY <1>1, <2>1, PartFromTo
<1> HIDE DEF buf
<1>13. \A i \in 1..(t + k + r) : buf[i] = s[p + i]
  <2> TAKE i \in 1..(t + k + r)
  <2>1. p + 1 + i - 1 = p + i
    BY <1>1, <1>2, <1>3, <1>5
  <2> HIDE DEF t
  <2> QED BY <1>12, <2>1
<1>14. \A i \in 1..q : buf[i] = l.key[i]
  <2> TAKE i \in 1..q
  <2>1. i \in 1..(t + k + r)
    BY <1>1, <1>2, <1>3
  <2> HIDE DEF t
  <2> QED BY <1>1, <1>13, <2>1, Zenon
<1>15. \A i \in 1..p : buf[q + i] = "space"
  <2> TAKE i \in 1..p
  <2>1. q + i \in 1..(t + k + r) /\ p + (q + i) = p + q + i
    BY <1>1, <1>2, <1>3
  <2>2. s[p + q + i] = "space"
    BY <1>1, Zenon
  <2>3. buf[q + i] = s[p + (q + i)]
    BY <1>13, <2>1, Zenon
  <2> HIDE DEF t
  <2> QED BY <2>1, <2>2, <2>3
<1>16. buf[q + p + 1] = "="
  <2>1. q + p + 1 \in 1..(t + k + r) /\ p + (q + p + 1) = p + q + p + 1
    BY <1>1, <1>2, <1>3
  <2>2. buf[q + p + 1] = s[p + (q + p + 1)]
    BY <1>13, <2>1, Zenon
  <2>3. s[p + q + p + 1] = "="
    BY <1>1, Zenon
  <2> HIDE DEF t
  <2> QED BY <2>1, <2>2, <2>3
<1>17. \A i \in 1..k : buf[q + p + 1 + i] = v[i]
  <2> TAKE i \in 1..k
  <2>1. t + i \in 1..(t + k + r) /\ p + (t + i) = p + t + i
    BY <1>1, <1>2, <1>3
  <2>2. buf[t + i] = s[p + (t + i)]
    BY <1>13, <2>1, Zenon
  <2>3. s[p + t + i] = v[i]
    BY <1>7, Zenon
  <2>4. buf[t + i] = v[i]
    <3> HIDE DEF t
    <3> QED BY <2>1, <2>2, <2>3
  <2> QED BY <2>4
<1>18. \A i \in 1..r : buf[q + p + 1 + k + i] = nl[i]
  <2> TAKE i \in 1..r
  <2>1. t + k + i \in 1..(t + k + r) /\ p + (t + k + i) = p + t + k + i
    BY <1>1, <1>2, <1>3
  <2>2. buf[t + k + i] = s[p + (t + k + i)]
    BY <1>13, <2>1, Zenon
  <2>3. s[p + t + k + i] = nl[i]
    BY <1>8, Zenon
  <2>4. buf[t + k + i] = nl[i]
    <3> HIDE DEF t
    <3> QED BY <2>1, <2>2, <2>3
  <2> QED BY <2>4
<1>19. Len(buf) = q + p + 1 + k + r
  BY <1>12
<1>20. Trimmed(C, l, nl, p, q, m, buf)
  BY <1>1, <1>12, <1>14, <1>15, <1>16, <1>17, <1>18, <1>19 DEF Trimmed, S, v, k, r
<1> QED BY <1>11, <1>20 DEF p, q, m, s

\* The entry a line adds to the map, or none.
Adds(map, key, value) ==
  IF \E i \in DOMAIN map : map[i].key = key THEN map
  ELSE Append(map, [key |-> key, value |-> value])

\* An item is read as it is meant.
LEMMA ReadsItem ==
  ASSUME NEW C, NEW l, IsItem(C, l), NEW nl \in Break, NEW map
  PROVE  ReadLine(map, Text(l) \o nl) = Adds(map, l.key, ValueOf(l, nl))
<1> DEFINE S == Letters(C)
           p == Len(l.pad)
           q == Len(l.key)
           m == Len(l.value)
           v == ValueOf(l, nl)
           k == Len(v)
           r == Len(nl)
           buf == Trim(Text(l) \o nl)
           t == q + p + 1
           head == SubSeq(buf, 1, q + p)
<1>1. Trimmed(C, l, nl, p, q, m, buf)
  BY ItemTrimmed, Zenon
<1>2. ValueLeft(C, l, nl, v, m, k)
  BY ValueIs, Zenon
<1>3. /\ l.key \in Seq(Plain(C)) /\ l.key \in Seq(S) /\ v \in Seq(S)
      /\ \A i \in 1..q : l.key[i] \in S \ {"space", "=", "#", "newline"}
      /\ \A i \in 1..k : v[i] # "newline"
  <2>1. l.key \in Seq(Plain(C)) /\ v \in Seq(Letters(C) \ {"newline"})
    BY <1>2 DEF IsItem, ValueLeft
  <2>2. Plain(C) \subseteq S /\ Letters(C) \ {"newline"} \subseteq S
    BY DEF Plain, Letters
  <2>3. \A i \in 1..q : l.key[i] \in Plain(C)
    BY <2>1
  <2>4. \A i \in 1..k : v[i] \in Letters(C) \ {"newline"}
    <3> HIDE DEF v
    <3> QED BY <2>1
  <2>5. l.key \in Seq(S) /\ v \in Seq(S)
    <3> HIDE DEF S, v
    <3> QED BY <2>1, <2>2, MoreElements
  <2> HIDE DEF v, S
  <2> QED BY <2>1, <2>2, <2>3, <2>4, <2>5 DEF Plain
<1>4. r \in Nat /\ (r = 0 \/ r = 1) /\ (r = 1 => nl[1] = "newline")
  BY DEF Break
<1> HIDE DEF S, p, q, m, v, k, r, buf
<1>5. /\ buf \in Seq(S) /\ p \in Nat /\ q \in Nat \ {0}
      /\ Len(buf) = t + k + r
      /\ \A i \in 1..q : buf[i] = l.key[i]
      /\ \A i \in 1..p : buf[q + i] = "space"
      /\ buf[t] = "="
      /\ \A i \in 1..k : buf[t + i] = v[i]
      /\ \A i \in 1..r : buf[t + k + i] = nl[i]
  BY <1>1, Zenon DEF Trimmed, S, v, k, r
<1>6. k \in Nat \ {0}
  BY <1>2 DEF ValueLeft
<1>7. /\ t \in Nat \ {0} /\ t \in 1..Len(buf) /\ q + p \in Nat
      /\ t - 1 = q + p /\ 1 \in 1..q
  BY <1>4, <1>5, <1>6
<1>8. \A i \in 1..(q + p) : buf[i] # "=" /\ buf[i] # "newline"
  <2> TAKE i \in 1..(q + p)
  <2>1. CASE i <= q
    <3>1. i \in 1..q
      BY <1>5, <2>1
    <3> QED BY <1>3, <1>5, <3>1
  <2>2. CASE ~(i <= q)
    <3>1. i - q \in 1..p /\ q + (i - q) = i
      BY <1>5, <2>2
    <3>2. buf[q + (i - q)] = "space"
      BY <1>5, <3>1, Zenon
    <3> QED BY <3>1, <3>2
  <2> QED BY <2>1, <2>2
<1>9. Find(buf, "=") = t
  <2>1. \A i \in 1..Len(buf) : i < t => buf[i] # "="
    <3> TAKE i \in 1..Len(buf)
    <3>1. i < t => i \in 1..(q + p)
      BY <1>5
    <3> QED BY <1>8, <3>1
  <2>2. buf[t] = "=" /\ t \in 1..Len(buf) /\ buf \in Seq(S)
    BY <1>5, <1>7, Zenon
  <2> HIDE DEF t
  <2> QED BY <2>1, <2>2, FindIs
<1>10. Trim(head) = l.key
  <2>1. /\ head \in Seq(S) /\ Len(head) = q + p
        /\ \A i \in 1..(q + p) : head[i] = buf[1 + i - 1]
    <3>1. /\ 1 \in Nat \ {0} /\ 1 <= q + p + 1 /\ q + p <= Len(buf)
          /\ q + p = q + p + 1 - 1
      BY <1>4, <1>5, <1>6
    <3> QED BY <1>5, <1>7, <3>1, PartFromTo
  <2> HIDE DEF head
  <2>2. \A i \in 1..q : head[i] = l.key[i]
    <3> TAKE i \in 1..q
    <3>1. i \in 1..(q + p) /\ 1 + i - 1 = i
      BY <1>5
    <3> QED BY <1>5, <2>1, <3>1
  <2>3. \A i \in 1..(q + p) : q < i => head[i] = "space"
    <3> TAKE i \in 1..(q + p)
    <3>1. q < i => i - q \in 1..p /\ 1 + i - 1 = i /\ q + (i - q) = i
      BY <1>5
    <3>2. q < i => buf[q + (i - q)] = "space"
      BY <1>5, <3>1, Zenon
    <3> QED BY <2>1, <3>1, <3>2
  <2>4. /\ 1 \in 1..Len(head) /\ q \in 1..Len(head) /\ q \in 1..q
        /\ Len(head) = q + p
    BY <1>5, <2>1
  <2>5. head[1] # "space" /\ head[q] # "space"
    BY <1>3, <1>7, <2>2, <2>4
  <2>6. \A i \in 1..Len(head) : i < 1 \/ q < i => head[i] = "space"
    BY <2>3, <2>4
  <2>7. Trim(head) = SubSeq(head, 1, q)
    BY <2>1, <2>4, <2>5, <2>6, TrimIs
  <2>8. SubSeq(head, 1, q) = l.key
    <3>1. \A i \in 1..Len(l.key) : head[0 + i] = l.key[i]
      <4> TAKE i \in 1..Len(l.key)
      <4>1. i \in 1..q /\ 0 + i = i
        BY DEF q
      <4> QED BY <2>2, <4>1
    <3>2. 0 \in Nat /\ 0 + Len(l.key) <= Len(head) /\ q = 0 + Len(l.key) /\ 1 = 0 + 1
      BY <1>5, <2>4 DEF q
    <3> QED BY <1>3, <2>1, <3>1, <3>2, PartIsSeq
  <2> QED BY <2>7, <2>8
<1>11. Find(buf, "newline") = IF r = 0 THEN 0 ELSE t + k + 1
  <2>1. \A i \in 1..(t + k) : buf[i] # "newline"
    <3> TAKE i \in 1..(t + k)
    <3>1. CASE i <= q + p
      <4>1. i \in 1..(q + p)
        BY <1>7, <3>1
      <4> QED BY <1>8, <4>1
    <3>2. CASE i = t
      BY <1>5, <3>2
    <3>3. CASE i > t
      <4>1. i - t \in 1..k /\ t + (i - t) = i
        BY <1>6, <1>7, <3>3
      <4>2. buf[t + (i - t)] = v[i - t] /\ v[i - t] # "newline"
        BY <1>3, <1>5, <4>1, Zenon
      <4> HIDE DEF t
      <4> QED BY <4>1, <4>2
    <3> QED BY <1>5, <1>7, <3>1, <3>2, <3>3
  <2>2. CASE r = 0
    <3>1. DOMAIN buf = 1..(t + k)
      <4>1. Len(buf) = t + k
        BY <1>5, <1>6, <1>7, <2>2
      <4> HIDE DEF t
      <4> QED BY <1>5, <4>1
    <3> HIDE DEF t
    <3> QED BY <2>1, <2>2, <3>1, FindNothing
  <2>3. CASE r = 1
    <3>1. Len(buf) = t + k + 1 /\ t + k + 1 \in 1..Len(buf) /\ 1 \in 1..r
      BY <1>5, <1>6, <1>7, <2>3
    <3>2. buf[t + k + 1] = nl[1]
      BY <1>5, <3>1, Zenon
    <3>3. \A i \in 1..Len(buf) : i < t + k + 1 => buf[i] # "newline"
      <4> TAKE i \in 1..Len(buf)
      <4>1. i < t + k + 1 => i \in 1..(t + k)
        BY <1>6, <1>7, <3>1
      <4> QED BY <2>1, <4>1
    <3>4. buf[t + k + 1] = "newline"
      BY <1>4, <2>3, <3>2
    <3> DEFINE u == t + k + 1
    <3>5. u \in 1..Len(buf) /\ buf[u] = "newline" /\ buf \in Seq(S)
      BY <1>5, <3>1, <3>4, Zenon
    <3>6. \A i \in 1..Len(buf) : i < u => buf[i] # "newline"
      BY <3>3
    <3>7. Find(buf, "newline") = u
      <4> HIDE DEF u
      <4> QED BY <3>5, <3>6, FindIs
    <3>8. r # 0
      BY <2>3
    <3> QED BY <3>7, <3>8
  <2> QED BY <1>4, <2>2, <2>3
<1>12. SubSeq(buf, t + 1, IF Find(buf, "newline") = 0 THEN Len(buf)
                          ELSE Find(buf, "newline") - 1) = v
  <2> DEFINE u == IF Find(buf, "newline") = 0 THEN Len(buf)
                  ELSE Find(buf, "newline") - 1
  <2>1. u = t + k
    <3>1. CASE r = 0
      BY <1>5, <1>6, <1>7, <1>11, <3>1
    <3>2. CASE r = 1
      BY <1>6, <1>7, <1>11, <3>2
    <3> QED BY <1>4, <3>1, <3>2
  <2>2. t + k <= Len(buf) /\ t \in Nat
    BY <1>4, <1>5, <1>6, <1>7
  <2>3. Len(v) = k
    BY DEF k
  <2> HIDE DEF u, t
  <2>4. SubSeq(buf, t + 1, t + k) = v
    <3>1. \A i \in 1..Len(v) : buf[t + i] = v[i]
      BY <1>5, <2>3 DEF t
    <3> QED BY <1>3, <1>5, <2>2, <2>3, <3>1, PartIsSeq
  <2> QED BY <2>1, <2>4 DEF u
<1>13. buf[1] # "#"
  BY <1>3, <1>5, <1>7
<1>14. SubSeq(buf, 1, t - 1) = head /\ t # 0
  BY <1>7
<1> HIDE DEF t, head
<1>15. ReadLine(map, Text(l) \o nl) =
         IF \E i \in DOMAIN map : map[i].key = l.key THEN map
         ELSE Append(map, [key |-> l.key, value |-> v])
  BY <1>9, <1>10, <1>12, <1>13, <1>14, Zenon DEF ReadLine, buf
<1> QED BY <1>15, Zenon DEF Adds, v

\* The last of some places.
LEMMA LastPlace ==
  ASSUME NEW n \in Nat, NEW T \in SUBSET (1..n), T # {}
  PROVE  \E b \in T : \A j \in T : j <= b
<1> DEFINE W == {n - i : i \in T}
<1>1. W \in SUBSET Nat /\ W # {}
  <2>1. \A i \in T : n - i \in Nat
    OBVIOUS
  <2>2. PICK i \in T : TRUE
    OBVIOUS
  <2> QED BY <2>1, <2>2
<1> HIDE DEF W
<1>2. PICK x \in W : \A y \in W : x <= y
  BY <1>1, Least
<1>3. PICK b \in T : x = n - b
  BY <1>2 DEF W
<1>4. ASSUME NEW j \in T PROVE j <= b
  <2>1. n - j \in W
    BY DEF W
  <2>2. x <= n - j
    BY <1>2, <2>1
  <2> QED BY <1>3, <2>2
<1> QED BY <1>4

\* What begins with two characters still does when more is put behind.
LEMMA StillBegins ==
  ASSUME NEW S, NEW x \in Seq(S), NEW y \in Seq(S), 2 <= Len(x)
  PROVE  /\ x \o y \in Seq(S) /\ 2 <= Len(x \o y)
         /\ (x \o y)[1] = x[1] /\ (x \o y)[2] = x[2]
OBVIOUS

\* Trim() keeps what is blank, or cuts a part out.
Cuts(s, t, a, b) ==
  /\ s[a] # "space" /\ a <= b
  /\ \A i \in 1..Len(s) : i < a => s[i] = "space"
  /\ t = SubSeq(s, a, b)

\* What Trim() returns, in both cases.
LEMMA TrimCuts ==
  ASSUME NEW S, NEW s \in Seq(S)
  PROVE  \/ Trim(s) = s /\ \A i \in 1..Len(s) : s[i] = "space"
         \/ \E a \in 1..Len(s), b \in 1..Len(s) : Cuts(s, Trim(s), a, b)
<1> DEFINE T == {i \in 1..Len(s) : s[i] # "space"}
<1>1. T \in SUBSET (1..Len(s)) /\ T \in SUBSET Nat /\ Len(s) \in Nat
  OBVIOUS
<1>2. CASE T = {}
  <2>1. \A i \in 1..Len(s) : s[i] = "space"
    BY <1>2
  <2>2. DOMAIN s = 1..Len(s)
    OBVIOUS
  <2> QED BY <2>1, <2>2, TrimOfBlank
<1>3. CASE T # {}
  <2>1. PICK a \in T : \A j \in T : a <= j
    BY <1>1, <1>3, Least
  <2>2. PICK b \in T : \A j \in T : j <= b
    BY <1>1, <1>3, LastPlace
  <2>3. /\ a \in 1..Len(s) /\ b \in 1..Len(s) /\ a <= b
        /\ s[a] # "space" /\ s[b] # "space"
    BY <2>1, <2>2
  <2>4. \A i \in 1..Len(s) : i < a \/ b < i => s[i] = "space"
    <3> TAKE i \in 1..Len(s)
    <3>1. i \in T => a <= i /\ i <= b
      BY <2>1, <2>2
    <3>2. ~(i < a /\ a <= i) /\ ~(b < i /\ i <= b)
      BY <2>3
    <3> QED BY <3>1, <3>2
  <2> HIDE DEF T
  <2>5. Trim(s) = SubSeq(s, a, b)
    BY <2>3, <2>4, TrimIs
  <2>6. Cuts(s, Trim(s), a, b)
    BY <2>3, <2>4, <2>5 DEF Cuts
  <2> QED BY <2>3, <2>6
<1> QED BY <1>2, <1>3

\* Trim() brings no character in.
LEMMA TrimTakes ==
  ASSUME NEW S, NEW s \in Seq(S), NEW c, \A i \in 1..Len(s) : s[i] # c
  PROVE  \A i \in DOMAIN Trim(s) : Trim(s)[i] # c
<1>1. CASE Trim(s) = s
  BY <1>1
<1>2. ASSUME NEW a \in 1..Len(s), NEW b \in 1..Len(s), Cuts(s, Trim(s), a, b)
      PROVE  \A i \in DOMAIN Trim(s) : Trim(s)[i] # c
  <2> DEFINE u == SubSeq(s, a, b)
             n == b + 1 - a
  <2>1. a <= b /\ Trim(s) = u
    BY <1>2 DEF Cuts
  <2>2. a \in Nat \ {0} /\ b \in Nat /\ a <= b + 1 /\ b <= Len(s) /\ n \in Nat
    BY <2>1
  <2>3. /\ u \in Seq(S) /\ Len(u) = n
        /\ \A i \in 1..n : u[i] = s[a + i - 1]
    BY <2>2, PartFromTo
  <2>4. \A i \in 1..n : a + i - 1 \in 1..Len(s)
    BY <2>2
  <2> HIDE DEF u, n
  <2>5. DOMAIN u = 1..n
    BY <2>3
  <2> QED BY <2>1, <2>3, <2>4, <2>5
<1> QED BY <1>1, <1>2, TrimCuts

\* A comment, or a line that is no item, is left out.
LEMMA ReadsOther ==
  ASSUME NEW C, NEW l, IsOther(C, l), NEW nl \in Break, NEW map
  PROVE  ReadLine(map, Text(l) \o nl) = map
<1> DEFINE S == Letters(C)
           s == Text(l) \o nl
<1>1. nl \in Seq(S) /\ \A i \in 1..Len(nl) : nl[i] # "="
  <2>1. "newline" \in S /\ << >> \in Seq(S)
    BY DEF Letters
  <2>2. <<"newline">> \in Seq(S) /\ Len(<<"newline">>) = 1 /\ <<"newline">>[1] # "="
    <3> HIDE DEF S
    <3> QED BY <2>1
  <2> HIDE DEF S
  <2>3. CASE nl = << >>
    <3>1. Len(nl) = 0
      BY <2>3
    <3> QED BY <2>1, <2>3, <3>1
  <2>4. CASE nl = <<"newline">>
    BY <2>2, <2>4
  <2> QED BY <2>3, <2>4 DEF Break
<1>2. /\ l.key \in Seq(S) /\ l.value \in Seq(S)
      /\ \A i \in 1..Len(l.key) : l.key[i] # "="
  <2>1. l.key \in Seq(Plain(C)) /\ l.value \in Seq(S \ {"newline"})
    BY DEF IsOther
  <2>2. Plain(C) \subseteq S /\ S \ {"newline"} \subseteq S
    BY DEF Plain, Letters
  <2>3. \A i \in 1..Len(l.key) : l.key[i] \in Plain(C)
    BY <2>1
  <2>4. l.key \in Seq(S) /\ l.value \in Seq(S)
    <3> HIDE DEF S
    <3> QED BY <2>1, <2>2, MoreElements
  <2>5. "=" \notin Plain(C)
    BY DEF Plain
  <2> HIDE DEF S
  <2> QED BY <2>3, <2>4, <2>5
<1>3. "space" \in S /\ "#" \in S /\ "=" \in S
  BY DEF Letters
<1> HIDE DEF S
<1>4. ASSUME s \in Seq(S), \A i \in 1..Len(s) : s[i] # "="
      PROVE  ReadLine(map, s) = map
  <2> HIDE DEF s
  <2>1. Find(Trim(s), "=") = 0
    BY <1>4, TrimTakes, FindNothing
  <2> QED BY <2>1 DEF ReadLine
<1>5. CASE l.kind = "comment"
  <2> DEFINE a == <<"space", "#">>
             b == a \o l.key
             d == b \o <<"=">>
             z == d \o l.value
  <2>1. s = z \o nl
    BY <1>5 DEF Text
  <2>2. /\ a \in Seq(S) /\ 2 <= Len(a) /\ a[1] = "space" /\ a[2] = "#"
        /\ <<"=">> \in Seq(S)
    BY <1>3
  <2> HIDE DEF a
  <2>3. b \in Seq(S) /\ 2 <= Len(b) /\ b[1] = "space" /\ b[2] = "#"
    BY <1>2, <2>2, StillBegins
  <2> HIDE DEF b
  <2>4. d \in Seq(S) /\ 2 <= Len(d) /\ d[1] = "space" /\ d[2] = "#"
    BY <2>2, <2>3, StillBegins
  <2> HIDE DEF d
  <2>5. z \in Seq(S) /\ 2 <= Len(z) /\ z[1] = "space" /\ z[2] = "#"
    BY <1>2, <2>4, StillBegins
  <2> HIDE DEF s, z
  <2>6. s \in Seq(S) /\ 2 <= Len(s) /\ s[1] = "space" /\ s[2] = "#"
    BY <1>1, <2>1, <2>5, StillBegins
  <2>7. 2 \in 1..Len(s)
    BY <2>6
  <2>8. PICK i \in 1..Len(s), j \in 1..Len(s) : Cuts(s, Trim(s), i, j)
    BY <2>6, <2>7, TrimCuts
  <2>9. i = 2
    <3>1. ~(2 < i)
      BY <2>6, <2>7, <2>8 DEF Cuts
    <3>2. i # 1
      BY <2>6, <2>8 DEF Cuts
    <3> QED BY <3>1, <3>2
  <2>10. Trim(s)[1] = "#"
    <3> DEFINE u == SubSeq(s, 2, j)
               n == j + 1 - 2
    <3>1. Trim(s) = u /\ 2 <= j
      BY <2>8, <2>9 DEF Cuts
    <3>2. 2 \in Nat \ {0} /\ j \in Nat /\ 2 <= j + 1 /\ j <= Len(s) /\ 1 \in 1..n
      BY <3>1
    <3>3. \A k \in 1..n : u[k] = s[2 + k - 1]
      BY <2>6, <3>2, PartFromTo
    <3> HIDE DEF u, n
    <3>4. u[1] = s[2 + 1 - 1] /\ 2 + 1 - 1 = 2
      BY <3>2, <3>3
    <3> QED BY <2>6, <3>1, <3>4
  <2>11. ReadLine(map, s) = map
    BY <2>10 DEF ReadLine
  <2> QED BY <2>11 DEF s
<1>6. CASE l.kind = "note"
  <2>1. s = l.key \o nl
    BY <1>6 DEF Text
  <2> HIDE DEF s
  <2>2. FollowedBy(S, l.key, Len(l.key), nl, Len(nl), s)
    BY <1>1, <1>2, <2>1, PutBehind
  <2>3. s \in Seq(S) /\ \A i \in 1..Len(s) : s[i] # "="
    <3>1. Len(l.key) \in Nat /\ Len(nl) \in Nat
      BY <1>1, <1>2
    <3>2. s \in Seq(S) /\ Len(s) = Len(l.key) + Len(nl)
      BY <2>2 DEF FollowedBy
    <3>3. ASSUME NEW i \in 1..Len(s) PROVE s[i] # "="
      <4>1. CASE i <= Len(l.key)
        <5>1. i \in 1..Len(l.key)
          BY <3>1, <4>1
        <5> QED BY <1>2, <2>2, <5>1 DEF FollowedBy
      <4>2. CASE ~(i <= Len(l.key))
        <5>1. i - Len(l.key) \in 1..Len(nl) /\ Len(l.key) + (i - Len(l.key)) = i
          BY <3>1, <3>2, <4>2
        <5>2. s[Len(l.key) + (i - Len(l.key))] = nl[i - Len(l.key)]
          BY <2>2, <5>1, Zenon DEF FollowedBy
        <5>3. nl[i - Len(l.key)] # "="
          BY <1>1, <5>1, Zenon
        <5> QED BY <5>1, <5>2, <5>3
      <4> QED BY <4>1, <4>2
    <3> QED BY <3>2, <3>3
  <2>4. ReadLine(map, s) = map
    BY <1>4, <2>3 DEF s
  <2> QED BY <2>4 DEF s
<1>7. CASE l.kind = "blank"
  <2> DEFINE a == <<"space", "space">>
  <2>1. s = a \o nl
    BY <1>7 DEF Text
  <2>2. a \in Seq(S) /\ Len(a) = 2 /\ a[1] = "space" /\ a[2] = "space"
    BY <1>3
  <2> HIDE DEF a, s
  <2>3. FollowedBy(S, a, 2, nl, Len(nl), s)
    BY <1>1, <2>1, <2>2, PutBehind
  <2>4. s \in Seq(S) /\ \A i \in 1..Len(s) : s[i] # "="
    <3>1. Len(nl) \in Nat
      BY <1>1
    <3>2. s \in Seq(S) /\ Len(s) = 2 + Len(nl)
      BY <2>3 DEF FollowedBy
    <3>3. ASSUME NEW i \in 1..Len(s) PROVE s[i] # "="
      <4>1. CASE i <= 2
        <5>1. i \in 1..2 /\ (i = 1 \/ i = 2)
          BY <4>1
        <5>2. s[i] = a[i]
          BY <2>3, <5>1 DEF FollowedBy
        <5> QED BY <2>2, <5>1, <5>2
      <4>2. CASE ~(i <= 2)
        <5>1. i - 2 \in 1..Len(nl) /\ 2 + (i - 2) = i
          BY <3>1, <3>2, <4>2
        <5>2. s[2 + (i - 2)] = nl[i - 2] /\ nl[i - 2] # "="
          BY <1>1, <2>3, <5>1, Zenon DEF FollowedBy
        <5> QED BY <5>1, <5>2
      <4> QED BY <4>1, <4>2
    <3> QED BY <3>2, <3>3
  <2>5. ReadLine(map, s) = map
    BY <1>4, <2>4 DEF s
  <2> QED BY <2>5 DEF s
<1>8. l.kind \in {"comment", "note", "blank"}
  BY DEF IsOther
<1> QED BY <1>5, <1>6, <1>7, <1>8

\* What is behind the i-th line, and what an entry of the map is.
LineEnd(lines, newline, i) ==
  IF newline \/ i < Len(lines) THEN <<"newline">> ELSE << >>
ConfigEntries(C) == [key : Seq(Letters(C)), value : Seq(Letters(C))]

\* An item makes an entry.
LEMMA ItemIsEntry ==
  ASSUME NEW C, NEW l, IsItem(C, l), NEW nl \in Break
  PROVE  [key |-> l.key, value |-> ValueOf(l, nl)] \in ConfigEntries(C)
<1> DEFINE v == ValueOf(l, nl)
           m == Len(l.value)
           k == Len(v)
<1>1. ValueLeft(C, l, nl, v, m, k)
  BY ValueIs
<1> HIDE DEF v, m, k
<1>2. v \in Seq(Letters(C) \ {"newline"}) /\ l.key \in Seq(Plain(C))
  BY <1>1 DEF ValueLeft, IsItem
<1>3. Plain(C) \subseteq Letters(C) /\ Letters(C) \ {"newline"} \subseteq Letters(C)
  BY DEF Plain, Letters
<1>4. v \in Seq(Letters(C)) /\ l.key \in Seq(Letters(C))
  <2> DEFINE S == Letters(C)
             A == Plain(C)
             B == Letters(C) \ {"newline"}
  <2>1. v \in Seq(B) /\ l.key \in Seq(A) /\ A \subseteq S /\ B \subseteq S
    BY <1>2, <1>3
  <2> HIDE DEF S, A, B
  <2>2. v \in Seq(S) /\ l.key \in Seq(S)
    BY <2>1, MoreElements
  <2> QED BY <2>2 DEF S
<1> QED BY <1>4 DEF ConfigEntries, v

\* What one line does to the map.
LineIs(C, lines, newline, i, map, next) ==
  \/ IsItem(C, lines[i]) /\ next = Adds(map, lines[i].key,
                                       ValueOf(lines[i], LineEnd(lines, newline, i)))
  \/ IsOther(C, lines[i]) /\ next = map

\* Each line does what its kind means.
LEMMA OneLine ==
  ASSUME NEW C, NEW lines, NEW newline, NEW i \in DOMAIN lines, NEW map,
         IsItem(C, lines[i]) \/ IsOther(C, lines[i])
  PROVE  LineIs(C, lines, newline, i, map, ReadLine(map, File(lines, newline)[i]))
<1> DEFINE nl == LineEnd(lines, newline, i)
           l == lines[i]
<1>1. nl \in Break
  BY DEF LineEnd, Break
<1>2. File(lines, newline)[i] = Text(l) \o nl
  BY DEF File, LineEnd
<1> HIDE DEF nl, l
<1>3. CASE IsItem(C, l)
  <2>1. ReadLine(map, Text(l) \o nl) = Adds(map, l.key, ValueOf(l, nl))
    BY <1>1, <1>3, ReadsItem
  <2> QED BY <1>2, <1>3, <2>1, Zenon DEF LineIs, l, nl
<1>4. CASE IsOther(C, l)
  <2>1. ReadLine(map, Text(l) \o nl) = map
    BY <1>1, <1>4, ReadsOther
  <2> QED BY <1>2, <1>4, <2>1, Zenon DEF LineIs, l
<1> QED BY <1>3, <1>4 DEF l

\* The map stays a map of strings.
LEMMA LineKeepsEntries ==
  ASSUME NEW C, NEW lines, NEW newline, NEW i, NEW map \in Seq(ConfigEntries(C)),
         NEW next, LineIs(C, lines, newline, i, map, next)
  PROVE  next \in Seq(ConfigEntries(C))
<1> DEFINE nl == LineEnd(lines, newline, i)
           l == lines[i]
           e == [key |-> l.key, value |-> ValueOf(l, nl)]
           E == ConfigEntries(C)
<1>1. CASE IsItem(C, l) /\ next = Adds(map, l.key, ValueOf(l, nl))
  <2>1. nl \in Break
    BY DEF LineEnd, Break
  <2>2. e \in E
    <3> HIDE DEF l, nl
    <3> QED BY <1>1, <2>1, ItemIsEntry
  <2>3. next = map \/ next = Append(map, e)
    BY <1>1 DEF Adds
  <2> HIDE DEF e, E
  <2>4. map \in Seq(E)
    BY DEF E
  <2>5. next \in Seq(E)
    BY <2>2, <2>3, <2>4
  <2> QED BY <2>5 DEF E
<1>2. CASE next = map
  BY <1>2
<1> QED BY <1>1, <1>2 DEF LineIs

\* The map after some lines: each entry is that of the first item with its key,
\* and each item has one.
FirstItem(lines, newline, j, e) ==
  /\ lines[j].kind = "item" /\ lines[j].key = e.key
  /\ e.value = ValueOf(lines[j], LineEnd(lines, newline, j))
  /\ \A h \in 1..Len(lines) :
       lines[h].kind = "item" /\ lines[h].key = e.key => j <= h
Holds(lines, newline, map, i) ==
  /\ \A x \in DOMAIN map : \E j \in 1..i : FirstItem(lines, newline, j, map[x])
  /\ \A j \in 1..i : lines[j].kind = "item" =>
       \E x \in DOMAIN map : map[x].key = lines[j].key

\* The next line keeps this.
LEMMA LineHolds ==
  ASSUME NEW C, NEW L, NEW lines \in Seq(L), NEW newline, NEW i \in 1..Len(lines),
         NEW map \in Seq(ConfigEntries(C)), Holds(lines, newline, map, i - 1),
         NEW next, LineIs(C, lines, newline, i, map, next)
  PROVE  Holds(lines, newline, next, i)
<1> DEFINE l == lines[i]
           v == ValueOf(l, LineEnd(lines, newline, i))
           e == [key |-> l.key, value |-> v]
<1>1. i \in Nat /\ i - 1 \in Nat /\ \A j \in 1..i : j \in 1..(i - 1) \/ j = i
  OBVIOUS
<1>2. \A j \in 1..(i - 1) : j \in 1..i
  OBVIOUS
<1>3. \A x \in DOMAIN map : \E j \in 1..i : FirstItem(lines, newline, j, map[x])
  BY <1>2 DEF Holds
<1>4. \A j \in 1..(i - 1) : lines[j].kind = "item" =>
        \E x \in DOMAIN map : map[x].key = lines[j].key
  BY DEF Holds
<1>5. CASE IsOther(C, l) /\ next = map
  <2>1. l.kind # "item"
    BY <1>5 DEF IsOther
  <2> QED BY <1>1, <1>3, <1>4, <1>5, <2>1 DEF Holds
<1>6. CASE IsItem(C, l) /\ next = Adds(map, l.key, v)
  <2> HIDE DEF v
  <2>1. CASE \E x \in DOMAIN map : map[x].key = l.key
    <3>1. next = map
      BY <1>6, <2>1 DEF Adds
    <3>2. \A j \in 1..i : lines[j].kind = "item" =>
            \E x \in DOMAIN map : map[x].key = lines[j].key
      BY <1>1, <1>4, <2>1
    <3> QED BY <1>3, <3>1, <3>2 DEF Holds
  <2>2. CASE ~ \E x \in DOMAIN map : map[x].key = l.key
    <3> DEFINE n == Len(map)
    <3>1. next = Append(map, e)
      BY <1>6, <2>2 DEF Adds
    <3>2. e.key = l.key /\ e.value = v
      OBVIOUS
    <3> HIDE DEF e
    <3>3. /\ DOMAIN map = 1..n /\ DOMAIN next = 1..(n + 1) /\ n \in Nat
          /\ \A x \in 1..n : next[x] = map[x]
          /\ next[n + 1] = e
      BY <3>1
    <3> HIDE DEF n, l
    <3>4. FirstItem(lines, newline, i, e)
      <4>1. l.kind = "item"
        BY <1>6 DEF IsItem
      <4>2. ASSUME NEW h \in 1..Len(lines),
                   lines[h].kind = "item" /\ lines[h].key = e.key
            PROVE  i <= h
        <5>1. CASE h <= i - 1
          <6>1. h \in 1..(i - 1)
            BY <1>1, <5>1
          <6> QED BY <1>4, <2>2, <3>2, <4>2, <6>1
        <5>2. CASE ~(h <= i - 1)
          BY <1>1, <5>2
        <5> QED BY <5>1, <5>2
      <4> QED BY <3>2, <4>1, <4>2 DEF FirstItem, l, v
    <3>5. ASSUME NEW x \in DOMAIN next
          PROVE  \E j \in 1..i : FirstItem(lines, newline, j, next[x])
      <4>1. x \in 1..n \/ x = n + 1
        BY <3>3
      <4>2. i \in 1..i
        BY <1>1
      <4> QED BY <1>3, <3>3, <3>4, <4>1, <4>2
    <3>6. ASSUME NEW j \in 1..i, lines[j].kind = "item"
          PROVE  \E x \in DOMAIN next : next[x].key = lines[j].key
      <4>1. CASE j \in 1..(i - 1)
        <5>1. PICK x \in DOMAIN map : map[x].key = lines[j].key
          BY <1>4, <3>6, <4>1
        <5>2. x \in DOMAIN next /\ next[x] = map[x]
          BY <3>3, <5>1
        <5> QED BY <5>1, <5>2
      <4>2. CASE j = i
        <5>1. n + 1 \in DOMAIN next /\ next[n + 1].key = lines[j].key
          BY <3>2, <3>3, <4>2 DEF l
        <5> QED BY <5>1
      <4> QED BY <1>1, <4>1, <4>2
    <3> QED BY <3>5, <3>6 DEF Holds
  <2> QED BY <2>1, <2>2
<1> QED BY <1>5, <1>6 DEF LineIs

\* The loop over the lines.
ReadRounds(C, file, n) ==
  \E map \in [0..n -> Seq(ConfigEntries(C))] :
    /\ LoadConfigFile(file) = map[n] /\ map[0] = << >>
    /\ \A i \in 1..n : map[i] = ReadLine(map[i - 1], file[i])
KeepsEntries(C, file, n) ==
  \A map \in Seq(ConfigEntries(C)), i \in 1..n :
    ReadLine(map, file[i]) \in Seq(ConfigEntries(C))

\* LoadConfigFile() reads one line in each round.
LEMMA ReadsLines ==
  ASSUME NEW C, NEW file, NEW n \in Nat, n = Len(file), KeepsEntries(C, file, n)
  PROVE  ReadRounds(C, file, n)
<1> DEFINE V == Seq(ConfigEntries(C))
           v == << >>
           G == [x \in V \X Nat |->
                   IF x[2] \in 1..n THEN ReadLine(x[1], file[x[2]]) ELSE x[1]]
           Body(s, i) == IF i = 0 THEN << >> ELSE ReadLine(s[i - 1], file[i])
           map == CHOOSE s : s = [i \in 0..n |-> Body(s, i)]
<1>1. v \in V
  OBVIOUS
<1>2. \A s \in V, k \in Nat :
        G[<<s, k>>] = IF k \in 1..n THEN ReadLine(s, file[k]) ELSE s
  OBVIOUS
<1>3. \A s \in V, i \in 1..n : ReadLine(s, file[i]) \in V
  BY DEF KeepsEntries
<1>4. G \in [V \X Nat -> V]
  <2>1. \A x \in V \X Nat : x[1] \in V /\ x[2] \in Nat /\ x = <<x[1], x[2]>>
    OBVIOUS
  <2>2. G = [x \in V \X Nat |-> G[x]]
    OBVIOUS
  <2> HIDE DEF G, V
  <2>3. \A x \in V \X Nat : G[x] \in V
    BY <1>2, <1>3, <2>1
  <2> QED BY <2>2, <2>3
<1> HIDE DEF G
<1>5. Loops(V, v, G)
  <2> HIDE DEF V, v
  <2> QED BY <1>1, <1>4, Iterates
<1>6. PICK f \in [Nat -> V] :
        \A k \in Nat : f[k] = IF k = 0 THEN v ELSE G[<<f[k - 1], k>>]
  <2> HIDE DEF V, v
  <2> QED BY <1>5 DEF Loops
<1> HIDE DEF V
<1> DEFINE r == [i \in 0..n |-> f[i]]
<1>7. r = [i \in 0..n |-> Body(r, i)]
  <2>1. ASSUME NEW i \in 0..n PROVE f[i] = Body(r, i)
    <3>1. CASE i = 0
      BY <1>6, <3>1
    <3>2. CASE i # 0
      <4>1. i \in 1..n /\ i - 1 \in 0..n /\ i - 1 \in Nat /\ i \in Nat
        BY <3>2
      <4>2. f[i - 1] \in V /\ r[i - 1] = f[i - 1]
        BY <1>6, <4>1
      <4>3. f[i] = G[<<f[i - 1], i>>]
        BY <1>6, <3>2, <4>1
      <4>4. f[i] = ReadLine(f[i - 1], file[i])
        BY <1>2, <4>1, <4>2, <4>3
      <4> QED BY <3>2, <4>2, <4>4
    <3> QED BY <3>1, <3>2
  <2>2. \A i \in 0..n : r[i] = f[i]
    OBVIOUS
  <2> QED BY <2>1, <2>2
<1> HIDE DEF r
<1>8. map = [i \in 0..n |-> Body(map, i)]
  BY <1>7
<1>9. LoadConfigFile(file) = map[n]
  BY DEF LoadConfigFile
<1> HIDE DEF map
<1>10. map[0] = << >>
  <2>1. 0 \in 0..n
    OBVIOUS
  <2> QED BY <1>8, <2>1
<1>11. \A i \in 1..n : map[i] = ReadLine(map[i - 1], file[i])
  <2>1. \A i \in 1..n : i \in 0..n /\ i # 0
    OBVIOUS
  <2> QED BY <1>8, <2>1
<1>12. \A i \in 0..n : map[i] \in V
  <2> DEFINE T == {i \in 0..n : map[i] \notin V}
  <2>1. CASE T # {}
    <3>1. PICK i \in T : \A j \in T : i <= j
      <4>1. T \in SUBSET Nat
        OBVIOUS
      <4> HIDE DEF T
      <4> QED BY <2>1, <4>1, Least
    <3>2. i # 0 /\ i \in 0..n
      BY <1>1, <1>10, <3>1
    <3>3. i \in 1..n /\ i - 1 \in 0..n /\ ~(i <= i - 1)
      BY <3>2
    <3>4. map[i - 1] \in V
      BY <3>1, <3>3
    <3>5. map[i] \in V
      BY <1>3, <1>11, <3>3, <3>4
    <3> QED BY <3>1, <3>5
  <2> QED BY <2>1
<1>13. map \in [0..n -> V]
  BY <1>8, <1>12
<1> QED BY <1>9, <1>10, <1>11, <1>13 DEF V, ReadRounds

\* So it holds when the file has been read.
LEMMA AllHolds ==
  ASSUME NEW C, NEW L, NEW lines \in Seq(L), NEW newline \in BOOLEAN,
         \A l \in L : IsItem(C, l) \/ IsOther(C, l)
  PROVE  Holds(lines, newline, LoadConfigFile(File(lines, newline)), Len(lines))
         /\ LoadConfigFile(File(lines, newline)) \in Seq(ConfigEntries(C))
<1> DEFINE n == Len(lines)
           file == File(lines, newline)
<1>1. n \in Nat /\ DOMAIN lines = 1..n
  OBVIOUS
<1>2. n = Len(file)
  <2> DEFINE e(i) == Text(lines[i]) \o
                     (IF newline \/ i < Len(lines) THEN <<"newline">> ELSE << >>)
             R == {e(i) : i \in 1..n}
  <2>1. file = [i \in 1..n |-> e(i)]
    BY <1>1 DEF File
  <2>2. \A i \in 1..n : e(i) \in R
    OBVIOUS
  <2> HIDE DEF e, R, n
  <2>3. file \in [1..n -> R]
    BY <2>1, <2>2
  <2> QED BY <1>1, <2>3
<1>3. ASSUME NEW map, NEW i \in 1..n
      PROVE  LineIs(C, lines, newline, i, map, ReadLine(map, file[i]))
  <2>1. i \in DOMAIN lines /\ lines[i] \in L
    OBVIOUS
  <2>2. IsItem(C, lines[i]) \/ IsOther(C, lines[i])
    BY <2>1
  <2> QED BY <2>1, <2>2, OneLine
<1> HIDE DEF file, n
<1>4. KeepsEntries(C, file, n)
  BY <1>3, LineKeepsEntries DEF KeepsEntries
<1>5. PICK map \in [0..n -> Seq(ConfigEntries(C))] :
        /\ LoadConfigFile(file) = map[n] /\ map[0] = << >>
        /\ \A i \in 1..n : map[i] = ReadLine(map[i - 1], file[i])
  <2>1. n \in Nat
    BY <1>1
  <2>2. ReadRounds(C, file, n)
    BY <1>2, <1>4, <2>1, ReadsLines
  <2> QED BY <2>2 DEF ReadRounds
<1>6. Holds(lines, newline, map[0], 0)
  <2>1. DOMAIN map[0] = {} /\ 1..0 = {}
    BY <1>5
  <2> QED BY <2>1 DEF Holds
<1>7. \A i \in 0..n : Holds(lines, newline, map[i], i)
  <2> DEFINE T == {i \in 0..n : ~Holds(lines, newline, map[i], i)}
  <2>1. CASE T # {}
    <3>1. PICK i \in T : \A j \in T : i <= j
      <4>1. T \in SUBSET Nat
        BY <1>1
      <4> HIDE DEF T
      <4> QED BY <2>1, <4>1, Least
    <3>2. i # 0 /\ i \in 0..n
      BY <1>6, <3>1
    <3>3. i \in 1..n /\ i - 1 \in 0..n /\ ~(i <= i - 1)
      BY <1>1, <3>2
    <3>4. Holds(lines, newline, map[i - 1], i - 1) /\ map[i - 1] \in Seq(ConfigEntries(C))
      BY <1>5, <3>1, <3>3
    <3>5. LineIs(C, lines, newline, i, map[i - 1], map[i])
      BY <1>3, <1>5, <3>3
    <3>6. Holds(lines, newline, map[i], i)
      <4>1. i \in 1..Len(lines)
        BY <3>3 DEF n
      <4> QED BY <3>4, <3>5, <4>1, LineHolds
    <3> QED BY <3>1, <3>6
  <2> QED BY <2>1
<1>8. n \in 0..n
  BY <1>1
<1> QED BY <1>5, <1>7, <1>8 DEF n, file

\* A key has the value of its first item, or none.
LEMMA FirstCounts ==
  ASSUME NEW C, NEW L, NEW lines \in Seq(L), NEW newline \in BOOLEAN, NEW key,
         NEW map \in Seq(ConfigEntries(C)), Holds(lines, newline, map, Len(lines)),
         NEW at, at = {i \in DOMAIN lines :
                         lines[i].kind = "item" /\ lines[i].key = key},
         NEW i, i = CHOOSE j \in at : \A k \in at : j <= k
  PROVE  Load(map, key) =
           IF at = {} THEN << >> ELSE ValueOf(lines[i], LineEnd(lines, newline, i))
<1> DEFINE n == Len(lines)
           keyed == {x \in DOMAIN map : map[x].key = key}
<1>1. n \in Nat /\ DOMAIN lines = 1..n
  OBVIOUS
<1>2. Load(map, key) = IF keyed = {} THEN << >>
                       ELSE map[CHOOSE x \in keyed : TRUE].value
  BY DEF Load
<1>3. ASSUME NEW x \in keyed
      PROVE  \E j \in at : /\ map[x].value = ValueOf(lines[j], LineEnd(lines, newline, j))
                           /\ \A h \in at : j <= h
  <2>1. PICK j \in 1..n : FirstItem(lines, newline, j, map[x])
    BY DEF Holds
  <2>2. map[x].key = key
    OBVIOUS
  <2> HIDE DEF n
  <2>3. j \in at
    BY <1>1, <2>1, <2>2 DEF FirstItem
  <2>4. \A h \in at : j <= h
    BY <1>1, <2>1, <2>2 DEF FirstItem, n
  <2> QED BY <2>1, <2>3, <2>4 DEF FirstItem
<1>4. CASE at = {}
  <2>1. keyed = {}
    BY <1>3, <1>4
  <2> QED BY <1>2, <1>4, <2>1
<1>5. CASE at # {}
  <2>1. PICK a \in at : \A h \in at : a <= h
    <3>1. at \in SUBSET Nat
      BY <1>1
    <3> QED BY <1>5, <3>1, Least
  <2>2. at \in SUBSET Nat
    BY <1>1
  <2>3. i = a
    BY <2>1, <2>2, LeastIs
  <2>4. a \in 1..n /\ lines[a].kind = "item" /\ lines[a].key = key
    BY <1>1, <2>1
  <2>5. keyed # {}
    BY <2>4 DEF Holds
  <2> HIDE DEF keyed
  <2>6. PICK x \in keyed : x = CHOOSE y \in keyed : TRUE
    BY <2>5
  <2>7. PICK j \in at : /\ map[x].value = ValueOf(lines[j], LineEnd(lines, newline, j))
                        /\ \A h \in at : j <= h
    BY <1>3, <2>6
  <2>8. j = a
    <3>1. j <= a /\ a <= j /\ j \in Nat /\ a \in Nat
      BY <2>1, <2>2, <2>7
    <3> QED BY <3>1
  <2> QED BY <1>2, <1>5, <2>3, <2>5, <2>6, <2>7, <2>8
<1> QED BY <1>4, <1>5

\* What a key has, if these are the places of its items and the first of them.
Has(lines, newline, map, key, at, i) ==
  Load(map, key) = IF at = {} THEN << >>
                   ELSE IF i = Len(lines) /\ ~newline /\ Last(lines[i].value) = "space"
                   THEN Front(lines[i].value) ELSE lines[i].value

\* The same as the property says it.
LEMMA KeyHas ==
  ASSUME NEW C, NEW L, NEW lines \in Seq(L), NEW newline \in BOOLEAN, NEW key,
         NEW map \in Seq(ConfigEntries(C)), Holds(lines, newline, map, Len(lines)),
         NEW at, at = {i \in DOMAIN lines :
                         lines[i].kind = "item" /\ lines[i].key = key},
         NEW i, i = CHOOSE j \in at : \A k \in at : j <= k
  PROVE  Has(lines, newline, map, key, at, i)
<1>1. Load(map, key) =
        IF at = {} THEN << >> ELSE ValueOf(lines[i], LineEnd(lines, newline, i))
  BY FirstCounts
<1>a. at \in SUBSET (1..Len(lines)) /\ Len(lines) \in Nat
  OBVIOUS
<1>2. CASE at # {}
  <2>1. i \in at
    <3>1. at \in SUBSET Nat
      OBVIOUS
    <3>2. PICK a \in at : \A h \in at : a <= h
      BY <1>2, <3>1, Least
    <3> QED BY <3>1, <3>2, LeastIs
  <2>2. i \in 1..Len(lines) /\ Len(lines) \in Nat
    BY ONLY <1>a, <2>1
  <2>3. LineEnd(lines, newline, i) = << >> <=> ~newline /\ i = Len(lines)
    <3>1. i < Len(lines) <=> i # Len(lines)
      BY ONLY <2>2
    <3>2. <<"newline">> # << >>
      OBVIOUS
    <3> QED BY <3>1, <3>2 DEF LineEnd
  <2> QED BY <1>1, <1>2, <2>3 DEF ValueOf, Has
<1> QED BY <1>1, <1>2 DEF Has

\* However many lines a configuration file has, the value of a key is that of
\* the first item with it.
THEOREM ConfigIsRight ==
  ASSUME NEW C, NEW L, NEW lines \in Seq(L), NEW newline \in BOOLEAN,
         \A l \in L : IsItem(C, l) \/ IsOther(C, l)
  PROVE  FirstItemCounts(lines, newline)
<1> DEFINE map == LoadConfigFile(File(lines, newline))
<1>1. map \in Seq(ConfigEntries(C)) /\ Holds(lines, newline, map, Len(lines))
  BY AllHolds
<1> HIDE DEF map
<1>2. ASSUME NEW key
      PROVE  LET at == {i \in DOMAIN lines :
                          lines[i].kind = "item" /\ lines[i].key = key}
                 i == CHOOSE j \in at : \A k \in at : j <= k
             IN Has(lines, newline, map, key, at, i)
  <2> DEFINE at == {i \in DOMAIN lines :
                      lines[i].kind = "item" /\ lines[i].key = key}
             i == CHOOSE j \in at : \A k \in at : j <= k
  <2>1. /\ at = {j \in DOMAIN lines : lines[j].kind = "item" /\ lines[j].key = key}
        /\ i = CHOOSE j \in at : \A k \in at : j <= k
    OBVIOUS
  <2> HIDE DEF at, i
  <2>2. Has(lines, newline, map, key, at, i)
    BY <1>1, <2>1, KeyHas
  <2> QED BY <2>2 DEF at, i
<1> QED BY <1>2, Zenon DEF FirstItemCounts, Has, map

-----------------------------------------------------------------------------
(* The messages.                                                           *)

\* The field that no message knows is one that a parse keeps.
LEMMA OneUnknown == <<120, 7>> \in Foreign /\ << >> \in Foreign
<1>1. Varint[7] = <<7>>
  <2>1. 7 \in Nat /\ 7 < 128
    OBVIOUS
  <2> QED BY <2>1, VarintDef, Zenon
<1>2. VarintField(120, 7) = <<120, 7>>
  <2>1. <<120>> \o <<7>> = <<120, 7>>
    BY ListsAre
  <2>2. 7 # 0
    OBVIOUS
  <2> QED BY <1>1, <2>1, <2>2 DEF VarintField
<1>3. 120 \in {t \in Tags : t % 8 = 0 /\ t \notin {8, 16, 24}} /\ 7 \in Nat \ {0}
  BY DEF Tags
<1> QED BY <1>2, <1>3 DEF Foreign

\* The messages of a type, with the unknown field or without, are of the type.
LEMMA UnknownAdded ==
  ASSUME NEW T, NEW S, \A m \in S : m \in T /\ m.unknown = << >>,
         \A m \in T : /\ [m EXCEPT !.unknown = <<120, 7>>] \in T
                      /\ [m EXCEPT !.unknown = <<120, 7>>].unknown = <<120, 7>>
  PROVE  \A m \in WithUnknown(S) : m \in T /\ m.unknown \in Foreign
<1> DEFINE More(q) == [q EXCEPT !.unknown = <<120, 7>>]
<1>1. \A m \in T : More(m) \in T /\ More(m).unknown = <<120, 7>>
  OBVIOUS
<1> HIDE DEF More
<1>2. \A m \in S : More(m) \in T /\ More(m).unknown \in Foreign
  BY <1>1, OneUnknown
<1>3. \A m \in S : m \in T /\ m.unknown \in Foreign
  BY OneUnknown
<1>4. WithUnknown(S) = S \cup {More(q) : q \in S}
  BY DEF WithUnknown, More
<1> QED BY <1>2, <1>3, <1>4

\* Some strings of bytes, and the lists of the messages that are tried.
LEMMA SomeBytes ==
  /\ << >> \in Seq(Byte) /\ <<65>> \in Seq(Byte) /\ <<66>> \in Seq(Byte)
  /\ <<66, 67>> \in Seq(Byte) /\ <<120, 7>> \in Seq(Byte)
  /\ {<< >>, <<65>>} \subseteq Seq(Byte) /\ {<< >>, <<66>>} \subseteq Seq(Byte)
BY DEF Byte

\* The headers that are tried are headers.
LEMMA HeaderMessages ==
  \A m \in MessageSets["RpcHeader"] :
    m \in H!RpcHeader /\ m.unknown \in Foreign
<1> DEFINE r1(s) == H!set_service_name(H!Clear, s)
           r2(s, t) == H!set_method_name(r1(s), t)
           r3(s, t, n) == H!set_args_size(r2(s, t), n)
           S == {r3(s, t, n) : s \in {<< >>, <<65>>}, t \in {<< >>, <<66>>}, n \in Ints}
<1>1. MessageSets["RpcHeader"] = WithUnknown(S)
  BY DEF MessageSets
<1>2. ASSUME NEW s \in {<< >>, << 65 >>}, NEW t \in {<< >>, << 66 >>},
             NEW n \in Ints
      PROVE  r3(s, t, n) \in H!RpcHeader /\ r3(s, t, n).unknown = << >>
  <2>1. r1(s)
        = [service_name |-> s, method_name |-> << >>, args_size |-> 0, unknown |-> << >>]
    BY DEF H!set_service_name, H!Clear
  <2>2. r2(s, t)
        = [service_name |-> s, method_name |-> t, args_size |-> 0, unknown |-> << >>]
    <3> DEFINE q == r1(s)
    <3>1. r2(s, t) = [q EXCEPT !.method_name = t]
      BY DEF H!set_method_name
    <3> HIDE DEF q, r2
    <3> QED BY <2>1, <3>1 DEF q
  <2>3. r3(s, t, n)
        = [service_name |-> s, method_name |-> t, args_size |-> n, unknown |-> << >>]
    <3> DEFINE q == r2(s, t)
    <3>1. r3(s, t, n) = [q EXCEPT !.args_size = n]
      BY DEF H!set_args_size
    <3> HIDE DEF q, r3
    <3> QED BY <2>2, <3>1 DEF q
  <2>4. s \in Seq(Byte) /\ t \in Seq(Byte) /\ n \in Nat
    <3>1. s \in Seq(Byte)
      BY ONLY SomeBytes, s \in {<< >>, <<65>>}, Zenon
    <3>2. t \in Seq(Byte)
      BY ONLY SomeBytes, t \in {<< >>, <<66>>}, Zenon
    <3>3. n \in Nat
      BY ONLY n \in Ints DEF Ints
    <3> QED BY <3>1, <3>2, <3>3
  <2> HIDE DEF r3
  <2> QED BY <2>3, <2>4, EmptyBytes DEF H!RpcHeader, H!Byte, Byte
<1>3. \A m \in H!RpcHeader :
        /\ [m EXCEPT !.unknown = <<120, 7>>] \in H!RpcHeader
        /\ [m EXCEPT !.unknown = <<120, 7>>].unknown = <<120, 7>>
  BY SomeBytes DEF H!RpcHeader, H!Byte, Byte
<1> HIDE DEF r1, r2, r3
<1>4. \A m \in S : m \in H!RpcHeader /\ m.unknown = << >>
  BY <1>2
<1> HIDE DEF S
<1> QED BY <1>1, <1>3, <1>4, UnknownAdded

\* The result codes that are tried are result codes.
LEMMA CodeMessages ==
  /\ \A m \in ResultCodes : m \in U!ResultCode /\ m.unknown = << >>
  /\ \A m \in MessageSets["ResultCode"] :
       m \in U!ResultCode /\ m.unknown \in Foreign
<1> DEFINE r1(s) == U!ResultCode_set_errcode(U!ResultCode_Clear, s)
           r2(s, t) == U!ResultCode_set_errmsg(r1(s), t)
           S == {r2(s, t) : s \in {0, 300}, t \in {<< >>, <<65>>}}
<1>1. ResultCodes = S /\ MessageSets["ResultCode"] = WithUnknown(ResultCodes)
  BY DEF MessageSets, ResultCodes
<1>0. \A x \in {<< >>, <<65>>} : x \in Seq(Byte)
  BY SomeBytes, Zenon
<1>2. ASSUME NEW s \in {0, 300}, NEW t \in {<< >>, << 65 >>}
      PROVE  r2(s, t) \in U!ResultCode /\ r2(s, t).unknown = << >>
  <2>1. r1(s)
        = [errcode |-> s, errmsg |-> << >>, unknown |-> << >>]
    BY DEF U!ResultCode_set_errcode, U!ResultCode_Clear
  <2>2. r2(s, t)
        = [errcode |-> s, errmsg |-> t, unknown |-> << >>]
    <3> DEFINE q == r1(s)
    <3>1. r2(s, t) = [q EXCEPT !.errmsg = t]
      BY DEF U!ResultCode_set_errmsg
    <3> HIDE DEF q, r2
    <3> QED BY <2>1, <3>1 DEF q
  <2>3. s \in Nat /\ t \in Seq(Byte)
    <3>1. s \in Nat
      BY ONLY s \in {0, 300}
    <3>2. t \in Seq(Byte)
      BY ONLY <1>0, t \in {<< >>, <<65>>}
    <3> QED BY <3>1, <3>2
  <2> HIDE DEF r2
  <2> QED BY <2>2, <2>3, EmptyBytes DEF U!ResultCode, U!Bytes, U!Byte, Byte
<1>3. \A m \in U!ResultCode :
        /\ [m EXCEPT !.unknown = <<120, 7>>] \in U!ResultCode
        /\ [m EXCEPT !.unknown = <<120, 7>>].unknown = <<120, 7>>
  BY SomeBytes DEF U!ResultCode, U!Bytes, U!Byte, Byte
<1> HIDE DEF r1, r2
<1>4. \A m \in S : m \in U!ResultCode /\ m.unknown = << >>
  BY <1>2
<1> HIDE DEF S
<1> QED BY <1>1, <1>3, <1>4, UnknownAdded

\* So are the login requests.
LEMMA LoginRequestMessages ==
  \A m \in MessageSets["LoginRequest"] :
    m \in U!LoginRequest /\ m.unknown \in Foreign
<1> DEFINE r1(s) == U!LoginRequest_set_name(U!LoginRequest_Clear, s)
           r2(s, t) == U!LoginRequest_set_pwd(r1(s), t)
           S == {r2(s, t) : s \in Strings, t \in Strings}
<1>1. MessageSets["LoginRequest"] = WithUnknown(S)
  BY DEF MessageSets
<1>2. ASSUME NEW s \in Strings, NEW t \in Strings
      PROVE  r2(s, t) \in U!LoginRequest /\ r2(s, t).unknown = << >>
  <2>1. r1(s)
        = [name |-> s, pwd |-> << >>, unknown |-> << >>]
    BY DEF U!LoginRequest_set_name, U!LoginRequest_Clear
  <2>2. r2(s, t)
        = [name |-> s, pwd |-> t, unknown |-> << >>]
    <3> DEFINE q == r1(s)
    <3>1. r2(s, t) = [q EXCEPT !.pwd = t]
      BY DEF U!LoginRequest_set_pwd
    <3> HIDE DEF q, r2
    <3> QED BY <2>1, <3>1 DEF q
  <2>3. s \in Seq(Byte) /\ t \in Seq(Byte)
    <3>1. s \in Seq(Byte)
      BY SomeBytes, Zenon DEF Strings
    <3>2. t \in Seq(Byte)
      BY SomeBytes, Zenon DEF Strings
    <3> QED BY <3>1, <3>2
  <2> HIDE DEF r2
  <2> QED BY <2>2, <2>3, EmptyBytes DEF U!LoginRequest, U!Bytes, U!Byte, Byte
<1>3. \A m \in U!LoginRequest :
        /\ [m EXCEPT !.unknown = <<120, 7>>] \in U!LoginRequest
        /\ [m EXCEPT !.unknown = <<120, 7>>].unknown = <<120, 7>>
  BY SomeBytes DEF U!LoginRequest, U!Bytes, U!Byte, Byte
<1> HIDE DEF r1, r2
<1>4. \A m \in S : m \in U!LoginRequest /\ m.unknown = << >>
  BY <1>2
<1> HIDE DEF S
<1> QED BY <1>1, <1>3, <1>4, UnknownAdded

\* So are the register requests.
LEMMA RegisterRequestMessages ==
  \A m \in MessageSets["RegisterRequest"] :
    m \in U!RegisterRequest /\ m.unknown \in Foreign
<1> DEFINE r1(s) == U!RegisterRequest_set_pwd(U!RegisterRequest_Clear, s)
           r2(s, t) == U!RegisterRequest_set_name(r1(s), t)
           r3(s, t, n) == U!RegisterRequest_set_id(r2(s, t), n)
           S == {r3(s, t, n) : s \in {<< >>, <<65>>}, t \in {<< >>, <<66>>}, n \in Ints}
<1>1. MessageSets["RegisterRequest"] = WithUnknown(S)
  BY DEF MessageSets
<1>2. ASSUME NEW s \in {<< >>, << 65 >>}, NEW t \in {<< >>, << 66 >>},
             NEW n \in Ints
      PROVE  r3(s, t, n) \in U!RegisterRequest /\ r3(s, t, n).unknown = << >>
  <2>1. r1(s)
        = [id |-> 0, name |-> << >>, pwd |-> s, unknown |-> << >>]
    BY DEF U!RegisterRequest_set_pwd, U!RegisterRequest_Clear
  <2>2. r2(s, t)
        = [id |-> 0, name |-> t, pwd |-> s, unknown |-> << >>]
    <3> DEFINE q == r1(s)
    <3>1. r2(s, t) = [q EXCEPT !.name = t]
      BY DEF U!RegisterRequest_set_name
    <3> HIDE DEF q, r2
    <3> QED BY <2>1, <3>1 DEF q
  <2>3. r3(s, t, n)
        = [id |-> n, name |-> t, pwd |-> s, unknown |-> << >>]
    <3> DEFINE q == r2(s, t)
    <3>1. r3(s, t, n) = [q EXCEPT !.id = n]
      BY DEF U!RegisterRequest_set_id
    <3> HIDE DEF q, r3
    <3> QED BY <2>2, <3>1 DEF q
  <2>4. s \in Seq(Byte) /\ t \in Seq(Byte) /\ n \in Nat
    <3>1. s \in Seq(Byte)
      BY ONLY SomeBytes, s \in {<< >>, <<65>>}, Zenon
    <3>2. t \in Seq(Byte)
      BY ONLY SomeBytes, t \in {<< >>, <<66>>}, Zenon
    <3>3. n \in Nat
      BY ONLY n \in Ints DEF Ints
    <3> QED BY <3>1, <3>2, <3>3
  <2> HIDE DEF r3
  <2> QED BY <2>3, <2>4, EmptyBytes DEF U!RegisterRequest, U!Bytes, U!Byte, Byte
<1>3. \A m \in U!RegisterRequest :
        /\ [m EXCEPT !.unknown = <<120, 7>>] \in U!RegisterRequest
        /\ [m EXCEPT !.unknown = <<120, 7>>].unknown = <<120, 7>>
  BY SomeBytes DEF U!RegisterRequest, U!Bytes, U!Byte, Byte
<1> HIDE DEF r1, r2, r3
<1>4. \A m \in S : m \in U!RegisterRequest /\ m.unknown = << >>
  BY <1>2
<1> HIDE DEF S
<1> QED BY <1>1, <1>3, <1>4, UnknownAdded

\* So are the requests for a list of friends.
LEMMA FriendsRequestMessages ==
  \A m \in MessageSets["GetFriendsListRequest"] :
    m \in F!GetFriendsListRequest /\ m.unknown \in Foreign
<1> DEFINE r1(n) == F!GetFriendsListRequest_set_userid(F!GetFriendsListRequest_Clear, n)
           S == {r1(n) : n \in Ints}
<1>1. MessageSets["GetFriendsListRequest"] = WithUnknown(S)
  BY DEF MessageSets
<1>2. ASSUME NEW n \in Ints
      PROVE  r1(n) \in F!GetFriendsListRequest /\ r1(n).unknown = << >>
  <2>1. r1(n)
        = [userid |-> n, unknown |-> << >>]
    BY DEF F!GetFriendsListRequest_set_userid, F!GetFriendsListRequest_Clear
  <2>2. n \in Nat
    <3>1. n \in Nat
      BY ONLY n \in Ints DEF Ints
    <3> QED BY <3>1
  <2> HIDE DEF r1
  <2> QED BY <2>1, <2>2, EmptyBytes DEF F!GetFriendsListRequest, F!Bytes, F!Byte, Byte
<1>3. \A m \in F!GetFriendsListRequest :
        /\ [m EXCEPT !.unknown = <<120, 7>>] \in F!GetFriendsListRequest
        /\ [m EXCEPT !.unknown = <<120, 7>>].unknown = <<120, 7>>
  BY SomeBytes DEF F!GetFriendsListRequest, F!Bytes, F!Byte, Byte
<1> HIDE DEF r1
<1>4. \A m \in S : m \in F!GetFriendsListRequest /\ m.unknown = << >>
  BY <1>2
<1> HIDE DEF S
<1> QED BY <1>1, <1>3, <1>4, UnknownAdded

\* A result within an answer that is tried is a result code, with no unknown
\* field.
LEMMA ResultTried ==
  ASSUME NEW r \in {<< >>} \cup {<<c>> : c \in ResultCodes}
  PROVE  r \in U!AtMostOne(U!ResultCode) /\ Coded(r)
<1>1. CASE r = << >>
  BY <1>1 DEF U!AtMostOne, Coded
<1>2. CASE r # << >>
  <2>1. PICK c \in ResultCodes : r = <<c>>
    BY <1>2
  <2>2. c \in U!ResultCode /\ c.unknown = << >> /\ r[1] = c
    BY <2>1, CodeMessages
  <2>3. c.unknown \in Foreign
    BY <2>2, OneUnknown
  <2>4. Coded(r)
    BY <2>2, <2>3 DEF Coded
  <2> QED BY <2>1, <2>2, <2>4 DEF U!AtMostOne
<1> QED BY <1>1, <1>2

\* So are the answers, whatever their results.
LEMMA AnswerMessages ==
  \A m \in MessageSets["LoginResponse"] :
    m \in U!LoginResponse /\ m.unknown \in Foreign /\ Coded(m.result)
<1> DEFINE R == {<< >>} \cup {<<c>> : c \in ResultCodes}
           T == {m \in U!LoginResponse : Coded(m.result)}
           r1(s) == [U!LoginResponse_Clear EXCEPT !.result = s]
           r2(s, t) == U!LoginResponse_set_sucess(r1(s), t)
           S == {r2(s, t) : s \in R, t \in BOOLEAN}
<1>1. MessageSets["LoginResponse"] = WithUnknown(S)
  BY DEF MessageSets
<1>2. ASSUME NEW s \in R, NEW t \in BOOLEAN
      PROVE  r2(s, t) \in T /\ r2(s, t).unknown = << >>
  <2> DEFINE no == FALSE
             z == U!LoginResponse_Clear
  <2>1. r1(s) = [result |-> s, sucess |-> no, unknown |-> << >>]
    <3>1. z = [result |-> << >>, sucess |-> no, unknown |-> << >>]
      BY DEF U!LoginResponse_Clear
    <3>2. r1(s) = [z EXCEPT !.result = s]
      OBVIOUS
    <3> HIDE DEF no, z, r1
    <3> QED BY <3>1, <3>2
  <2>2. r2(s, t) = [result |-> s, sucess |-> t, unknown |-> << >>]
    <3> DEFINE q == r1(s)
    <3>1. r2(s, t) = [q EXCEPT !.sucess = t]
      BY DEF U!LoginResponse_set_sucess
    <3> HIDE DEF q, r2
    <3> QED BY <2>1, <3>1 DEF q
  <2>3. s \in U!AtMostOne(U!ResultCode) /\ Coded(s)
    BY ResultTried
  <2> HIDE DEF r2
  <2>4. r2(s, t).result = s /\ r2(s, t).unknown = << >>
    BY <2>2
  <2>5. r2(s, t) \in U!LoginResponse
    BY <2>2, <2>3, EmptyBytes DEF U!LoginResponse, U!Bytes, U!Byte
  <2> QED BY <2>3, <2>4, <2>5
<1>3. \A m \in T : /\ [m EXCEPT !.unknown = <<120, 7>>] \in T
                   /\ [m EXCEPT !.unknown = <<120, 7>>].unknown = <<120, 7>>
  BY SomeBytes DEF U!LoginResponse, U!Bytes, U!Byte, Byte
<1> HIDE DEF r1, r2, R, T
<1>4. \A m \in S : m \in T /\ m.unknown = << >>
  BY <1>2
<1> HIDE DEF S
<1>5. \A m \in MessageSets["LoginResponse"] : m \in T /\ m.unknown \in Foreign
  BY <1>1, <1>3, <1>4, UnknownAdded
<1> QED BY <1>5 DEF T

\* And the lists of friends.
LEMMA FriendsMessages ==
  \A m \in MessageSets["GetFriendsListResponse"] :
    m \in F!GetFriendsListResponse /\ m.unknown \in Foreign /\ Coded(m.result)
<1> DEFINE R == {<< >>} \cup {<<c>> : c \in ResultCodes}
           Q == {<< >>, <<<< >>>>, <<<<65>>, <<66>>>>}
           T == {m \in F!GetFriendsListResponse : Coded(m.result)}
           r1(s, t) == [F!GetFriendsListResponse_Clear EXCEPT !.result = s,
                                                              !.friends = t]
           S == {r1(s, t) : s \in R, t \in Q}
<1>1. MessageSets["GetFriendsListResponse"] = WithUnknown(S)
  BY DEF MessageSets
<1>2. Q \subseteq Seq(Seq(Byte))
  BY SomeBytes
<1> HIDE DEF Q
<1>3. ASSUME NEW s \in R, NEW t \in Q
      PROVE  r1(s, t) \in T /\ r1(s, t).unknown = << >>
  <2>1. r1(s, t) = [result |-> s, friends |-> t, unknown |-> << >>]
    <3> DEFINE q == F!GetFriendsListResponse_Clear
    <3>1. q = [result |-> << >>, friends |-> << >>, unknown |-> << >>]
      BY DEF F!GetFriendsListResponse_Clear
    <3>2. [q EXCEPT !.result = s]
            = [result |-> s, friends |-> << >>, unknown |-> << >>]
      BY <3>1
    <3> DEFINE w == [q EXCEPT !.result = s]
    <3>3. r1(s, t) = [w EXCEPT !.friends = t]
      OBVIOUS
    <3> HIDE DEF w, r1, q
    <3> QED BY <3>2, <3>3 DEF w
  <2>2. s \in U!AtMostOne(U!ResultCode) /\ Coded(s) /\ t \in Seq(Seq(Byte))
    BY <1>2, ResultTried
  <2> HIDE DEF r1
  <2>3. r1(s, t).result = s /\ r1(s, t).unknown = << >>
    BY <2>1
  <2>4. r1(s, t) \in F!GetFriendsListResponse
    <3>1. F!AtMostOne(F!ResultCode) = U!AtMostOne(U!ResultCode)
      BY CodesAre DEF F!AtMostOne, U!AtMostOne
    <3> QED BY <2>1, <2>2, <3>1, EmptyBytes
            DEF F!GetFriendsListResponse, F!Bytes, F!Byte, Byte
  <2> QED BY <2>2, <2>3, <2>4
<1>4. \A m \in T : /\ [m EXCEPT !.unknown = <<120, 7>>] \in T
                   /\ [m EXCEPT !.unknown = <<120, 7>>].unknown = <<120, 7>>
  BY SomeBytes DEF F!GetFriendsListResponse, F!Bytes, F!Byte, Byte
<1> HIDE DEF r1, R, T
<1>5. \A m \in S : m \in T /\ m.unknown = << >>
  BY <1>3
<1> HIDE DEF S
<1>6. \A m \in MessageSets["GetFriendsListResponse"] : m \in T /\ m.unknown \in Foreign
  BY <1>1, <1>4, <1>5, UnknownAdded
<1> QED BY <1>6 DEF T

\* The types of messages.
LEMMA TypesAre ==
  \A type \in DOMAIN MessageSets :
    type \in {"RpcHeader", "ResultCode", "LoginRequest", "RegisterRequest",
             "LoginResponse", "GetFriendsListRequest", "GetFriendsListResponse"}
BY DEF MessageSets

\* Whatever message is tried is parsed again as it was written (the messages
\* of rpcheader.pb.cc, user.pb.cc and friend.pb.cc).
LEMMA MessagesAreParsedAgain ==
  ASSUME NEW type \in DOMAIN MessageSets, NEW m \in MessageSets[type]
  PROVE  MessageIsParsedAgain(type, m)
<1> DEFINE S == MessageSets[type]
<1>1. CASE type = "RpcHeader"
  <2>1. \A n \in S : n \in H!RpcHeader /\ n.unknown \in Foreign
    BY <1>1, HeaderMessages
  <2>2. CodecIsFaithful(S, m, H!Clear, H!InternalParse, H!InternalSerialize,
          H!ByteSizeLong, H!MergeFrom, H!CopyFrom)
    <3> HIDE DEF S
    <3> QED BY <2>1, HeaderCodec, Zenon DEF CodecIsFaithful, S
  <2> QED BY <1>1, <2>2 DEF MessageIsParsedAgain
<1>2. CASE type = "ResultCode"
  <2>1. \A n \in S : n \in U!ResultCode /\ n.unknown \in Foreign
    BY <1>2, CodeMessages
  <2>2. CodecIsFaithful(S, m, U!ResultCode_Clear,
          U!ResultCode_InternalParse, U!ResultCode_InternalSerialize,
          U!ResultCode_ByteSizeLong, U!ResultCode_MergeFrom, U!ResultCode_CopyFrom)
    BY <2>1, CodeCodec, Zenon DEF CodecIsFaithful
  <2> QED BY <1>2, <2>2 DEF MessageIsParsedAgain
<1>3. CASE type = "LoginRequest"
  <2>1. \A n \in S : n \in U!LoginRequest /\ n.unknown \in Foreign
    BY <1>3, LoginRequestMessages
  <2>2. CodecIsFaithful(S, m, U!LoginRequest_Clear,
          U!LoginRequest_InternalParse, U!LoginRequest_InternalSerialize,
          U!LoginRequest_ByteSizeLong, U!LoginRequest_MergeFrom,
          U!LoginRequest_CopyFrom)
    BY <2>1, LoginRequestCodec, Zenon DEF CodecIsFaithful
  <2> QED BY <1>3, <2>2 DEF MessageIsParsedAgain
<1>4. CASE type = "RegisterRequest"
  <2>1. \A n \in S : n \in U!RegisterRequest /\ n.unknown \in Foreign
    BY <1>4, RegisterRequestMessages
  <2>2. CodecIsFaithful(S, m, U!RegisterRequest_Clear,
          U!RegisterRequest_InternalParse, U!RegisterRequest_InternalSerialize,
          U!RegisterRequest_ByteSizeLong, U!RegisterRequest_MergeFrom,
          U!RegisterRequest_CopyFrom)
    BY <2>1, RegisterRequestCodec, Zenon DEF CodecIsFaithful
  <2> QED BY <1>4, <2>2 DEF MessageIsParsedAgain
<1>5. CASE type = "LoginResponse"
  <2>1. \A n \in S : n \in U!LoginResponse /\ n.unknown \in Foreign
                       /\ Coded(n.result)
    BY <1>5, AnswerMessages
  <2>2. CodecIsFaithful(S, m, U!LoginResponse_Clear,
          U!LoginResponse_InternalParse, U!LoginResponse_InternalSerialize,
          U!LoginResponse_ByteSizeLong, U!LoginResponse_MergeFrom,
          U!LoginResponse_CopyFrom)
    BY <2>1, AnswerCodec, Zenon DEF CodecIsFaithful
  <2>3. CodecIsFaithful(S, m, U!RegisterResponse_Clear,
          U!RegisterResponse_InternalParse, U!RegisterResponse_InternalSerialize,
          U!RegisterResponse_ByteSizeLong, U!RegisterResponse_MergeFrom,
          U!RegisterResponse_CopyFrom)
    BY <2>2, RegisterAnswers DEF CodecIsFaithful
  <2> QED BY <1>5, <2>2, <2>3 DEF MessageIsParsedAgain
<1>6. CASE type = "GetFriendsListRequest"
  <2>1. \A n \in S : n \in F!GetFriendsListRequest /\ n.unknown \in Foreign
    BY <1>6, FriendsRequestMessages
  <2>2. CodecIsFaithful(S, m, F!GetFriendsListRequest_Clear,
          F!GetFriendsListRequest_InternalParse,
          F!GetFriendsListRequest_InternalSerialize,
          F!GetFriendsListRequest_ByteSizeLong,
          F!GetFriendsListRequest_MergeFrom, F!GetFriendsListRequest_CopyFrom)
    BY <2>1, FriendsRequestCodec, Zenon DEF CodecIsFaithful
  <2> QED BY <1>6, <2>2 DEF MessageIsParsedAgain
<1>7. CASE type = "GetFriendsListResponse"
  <2>1. \A n \in S : n \in F!GetFriendsListResponse /\ n.unknown \in Foreign
                       /\ Coded(n.result)
    BY <1>7, FriendsMessages
  <2>2. CodecIsFaithful(S, m, F!GetFriendsListResponse_Clear,
          F!GetFriendsListResponse_InternalParse,
          F!GetFriendsListResponse_InternalSerialize,
          F!GetFriendsListResponse_ByteSizeLong,
          F!GetFriendsListResponse_MergeFrom, F!GetFriendsListResponse_CopyFrom)
    BY <2>1, FriendsAnswerCodec, Zenon DEF CodecIsFaithful
  <2> QED BY <1>7, <2>2 DEF MessageIsParsedAgain
<1> QED BY <1>1, <1>2, <1>3, <1>4, <1>5, <1>6, <1>7, TypesAre

-----------------------------------------------------------------------------
(* The programs together.                                                  *)

\* The mazes that are drawn are mazes.
LEMMA DrawnAreMazes ==
  ASSUME NEW rows \in Drawn
  PROVE  Len(rows) \in Nat \ {0, 1} /\ Free(rows) \in SUBSET Cells(Len(rows))
<1>1. Len(rows) \in {5, 6}
  BY DEF Drawn
<1> QED BY <1>1 DEF Free

\* The lines that are tried are items, or lines that say nothing.
LEMMA LinesAre ==
  LET C == {"a", "b", "1", "2", "3", "4"} IN
  \A l \in Lines : IsItem(C, l) \/ IsOther(C, l)
<1> DEFINE C == {"a", "b", "1", "2", "3", "4"}
           V == {<<"1">>, <<"space", "2">>, <<"3", "space">>, <<"=">>}
<1>1. /\ {"1", "2", "3", "4", "space", "="} \subseteq Letters(C) \ {"newline"}
      /\ "a" \in Plain(C) /\ "b" \in Plain(C)
  BY DEF Letters, Plain
<1>2. /\ << >> \in Seq({"space"}) /\ <<"space">> \in Seq({"space"})
      /\ \A S, x, y : /\ x \in S => <<x>> \in Seq(S)
                      /\ x \in S /\ y \in S => <<x, y>> \in Seq(S)
      /\ \A x, y : /\ Len(<<x>>) = 1 /\ <<x>>[1] = x /\ <<x>> # << >>
                  /\ Len(<<x, y>>) = 2 /\ <<x, y>>[2] = y
                  /\ <<x, y>>[1] = x /\ <<x, y>> # << >>
  BY EmptyBytes
<1>3. ASSUME NEW p \in {<< >>, <<"space">>}, NEW k \in {<<"a">>, <<"b">>},
             NEW v \in V
      PROVE  IsItem(C, [kind |-> "item", pad |-> p, key |-> k, value |-> v])
  <2>1. p \in Seq({"space"})
    BY <1>2, Zenon
  <2>2. k \in Seq(Plain(C)) /\ k # << >>
    BY <1>1, <1>2, Zenon
  <2>3. v \in Seq(Letters(C) \ {"newline"}) /\ v # << >>
    <3> DEFINE N == Letters(C) \ {"newline"}
    <3>1. /\ "1" \in N /\ "2" \in N /\ "3" \in N /\ "space" \in N /\ "=" \in N
      BY <1>1
    <3> HIDE DEF C, N
    <3>2. \/ v = <<"1">> \/ v = <<"space", "2">> \/ v = <<"3", "space">>
          \/ v = <<"=">>
      OBVIOUS
    <3>3. /\ <<"1">> \in Seq(N) /\ <<"space", "2">> \in Seq(N)
          /\ <<"3", "space">> \in Seq(N) /\ <<"=">> \in Seq(N)
      BY <3>1
    <3>4. /\ <<"1">> # << >> /\ <<"space", "2">> # << >>
          /\ <<"3", "space">> # << >> /\ <<"=">> # << >>
      OBVIOUS
    <3>5. v \in Seq(N) /\ v # << >>
      BY <3>2, <3>3, <3>4, Zenon
    <3> QED BY <3>5 DEF N
  <2>4. v[Len(v)] = "space" => Len(v) > 1 /\ v[Len(v) - 1] # "space"
    <3>1. CASE v = <<"1">> \/ v = <<"=">>
      BY <1>2, <3>1
    <3>2. CASE v = <<"space", "2">>
      BY <1>2, <3>2
    <3>3. CASE v = <<"3", "space">>
      <4>1. Len(v) = 2 /\ v[2 - 1] = "3"
        BY <1>2, <3>3
      <4> QED BY <4>1
    <3> QED BY <3>1, <3>2, <3>3
  <2> HIDE DEF C, V
  <2> QED BY <2>1, <2>2, <2>3, <2>4 DEF IsItem
<1>4. ASSUME NEW k \in {"comment", "note", "blank"}
      PROVE  IsOther(C, [kind |-> k, pad |-> << >>, key |-> <<"a">>,
                         value |-> <<"4">>])
  BY DEF IsOther, Plain, Letters
<1> HIDE DEF C, V
<1>5. ASSUME NEW l \in Lines
      PROVE  IsItem(C, l) \/ IsOther(C, l)
  <2>1. CASE l \in [kind : {"item"}, pad : {<< >>, <<"space">>},
                    key : {<<"a">>, <<"b">>}, value : V]
    <3>1. l = [kind |-> "item", pad |-> l.pad, key |-> l.key, value |-> l.value]
      BY <2>1
    <3>2. /\ l.pad \in {<< >>, <<"space">>} /\ l.key \in {<<"a">>, <<"b">>}
          /\ l.value \in V
      BY <2>1
    <3>3. IsItem(C, [kind |-> "item", pad |-> l.pad, key |-> l.key,
                     value |-> l.value])
      BY <1>3, <3>2
    <3> QED BY <3>1, <3>3, Zenon
  <2>2. CASE \E k \in {"comment", "note", "blank"} :
               l = [kind |-> k, pad |-> << >>, key |-> <<"a">>, value |-> <<"4">>]
    BY <1>4, <2>2, Zenon
  <2>3. \/ l \in [kind : {"item"}, pad : {<< >>, <<"space">>},
                   key : {<<"a">>, <<"b">>}, value : V]
        \/ \E k \in {"comment", "note", "blank"} :
             l = [kind |-> k, pad |-> << >>, key |-> <<"a">>, value |-> <<"4">>]
    BY Zenon DEF Lines, V
  <2> QED BY <2>1, <2>2, <2>3
<1> QED BY <1>5 DEF C

\* An input is that of one program.
LEMMA InputIs ==
  ASSUME AlgorithmsAssumption, NEW i \in Inputs
  PROVE  \/ i.kind \in {"sum", "difference"} /\ i.l \in Nat /\ i.r \in Nat
         \/ /\ i.kind = "maze" /\ i.n \in Nat \ {0, 1}
            /\ i.free \in SUBSET Cells(i.n)
         \/ i.kind = "top" /\ i.counts \in Seq(Nat)
         \/ /\ i.kind = "config" /\ i.lines \in Seq(Lines)
            /\ i.newline \in BOOLEAN
         \/ /\ i.kind \in DOMAIN MessageSets
            /\ i.m \in MessageSets[i.kind]
<1> HIDE DEF MessageSets
<1>1. CASE i \in [kind : {"sum", "difference"}, l : Numbers, r : Numbers]
  BY <1>1 DEF AlgorithmsAssumption
<1>2. CASE \E n \in Sides : i \in [kind : {"maze"}, n : {n}, free : SUBSET Cells(n)]
  BY <1>2 DEF AlgorithmsAssumption
<1>3. CASE \E rows \in Drawn :
             i = [kind |-> "maze", n |-> Len(rows), free |-> Free(rows)]
  <2>1. PICK rows \in Drawn :
          i = [kind |-> "maze", n |-> Len(rows), free |-> Free(rows)]
    BY <1>3
  <2>2. i.kind = "maze" /\ i.n = Len(rows) /\ i.free = Free(rows)
    BY <2>1
  <2> QED BY <2>2, DrawnAreMazes
<1>4. CASE i \in [kind : {"top"}, counts : Counts]
  <2>1. i.counts \in Counts /\ i.kind = "top"
    BY <1>4
  <2>2. PICK n \in 0..MaxValues : i.counts \in [1..n -> 1..MaxCount]
    BY <2>1 DEF Counts
  <2>3. n \in Nat /\ 1..MaxCount \subseteq Nat
    BY <2>2 DEF AlgorithmsAssumption
  <2> QED BY <2>1, <2>2, <2>3
<1>5. CASE i \in [kind : {"config"}, lines : Lines \X Lines, newline : BOOLEAN]
  <2>1. i.kind = "config" /\ i.lines \in Lines \X Lines /\ i.newline \in BOOLEAN
    BY <1>5
  <2>2. PICK l1 \in Lines, l2 \in Lines : i.lines = <<l1, l2>>
    BY <2>1
  <2>3. <<l1, l2>> \in Seq(Lines)
    OBVIOUS
  <2> QED BY <2>1, <2>2, <2>3
<1>6. CASE \E type \in DOMAIN MessageSets : i \in [kind : {type}, m : MessageSets[type]]
  BY <1>6
<1>7. \/ i \in [kind : {"sum", "difference"}, l : Numbers, r : Numbers]
      \/ \E n \in Sides : i \in [kind : {"maze"}, n : {n}, free : SUBSET Cells(n)]
      \/ \E rows \in Drawn :
           i = [kind |-> "maze", n |-> Len(rows), free |-> Free(rows)]
      \/ i \in [kind : {"top"}, counts : Counts]
      \/ i \in [kind : {"config"}, lines : Lines \X Lines, newline : BOOLEAN]
      \/ \E type \in DOMAIN MessageSets : i \in [kind : {type}, m : MessageSets[type]]
  <2> DEFINE A == [kind : {"sum", "difference"}, l : Numbers, r : Numbers]
             B(n) == [kind : {"maze"}, n : {n}, free : SUBSET Cells(n)]
             M(rows) == [kind |-> "maze", n |-> Len(rows), free |-> Free(rows)]
             D == [kind : {"top"}, counts : Counts]
             E == [kind : {"config"}, lines : Lines \X Lines, newline : BOOLEAN]
             G(type) == [kind : {type}, m : MessageSets[type]]
             P == UNION {B(n) : n \in Sides}
             Q == {M(rows) : rows \in Drawn}
             R == UNION {G(type) : type \in DOMAIN MessageSets}
  <2>1. Inputs = A \cup P \cup Q \cup D \cup E \cup R
    BY DEF Inputs
  <2> HIDE DEF A, B, M, D, E, G
  <2>2. /\ i \in P => \E n \in Sides : i \in B(n)
        /\ i \in R => \E type \in DOMAIN MessageSets : i \in G(type)
    OBVIOUS
  <2>3. i \in Q => \E rows \in Drawn : i = M(rows)
    OBVIOUS
  <2> HIDE DEF P, Q, R
  <2>4. i \in A \/ i \in P \/ i \in Q \/ i \in D \/ i \in E \/ i \in R
    BY <2>1
  <2> QED BY <2>2, <2>3, <2>4, Zenon DEF A, B, M, D, E, G
<1> QED BY <1>1, <1>2, <1>3, <1>4, <1>5, <1>6, <1>7

\* Every program computes what it is for on every input that is tried: the
\* searches, the sums, the heap, the configuration and the messages.
LEMMA ProgramIsRight ==
  ASSUME AlgorithmsAssumption, input \in Inputs
  PROVE  ResultsAreRight
<1>0. \A type \in {"maze", "sum", "difference", "top", "config"} :
        type \notin DOMAIN MessageSets
  BY TypesAre
<1>1. CASE input.kind = "sum" /\ input.l \in Nat /\ input.r \in Nat
  <2>1. Plus(Decimal[input.l], Decimal[input.r]) = Decimal[input.l + input.r]
    BY <1>1, SumIsRight
  <2> QED BY <1>1, <1>0, <2>1 DEF ResultsAreRight
<1>2. CASE input.kind = "difference" /\ input.l \in Nat /\ input.r \in Nat
  <2>1. Difference(Decimal[input.l], Decimal[input.r]) =
          IF input.l < input.r THEN Append(Decimal[input.r - input.l], Minus)
          ELSE Decimal[input.l - input.r]
    BY <1>2, DifferenceIsRight
  <2> QED BY <1>2, <1>0, <2>1 DEF ResultsAreRight
<1>3. CASE /\ input.kind = "maze" /\ input.n \in Nat \ {0, 1}
           /\ input.free \in SUBSET Cells(input.n)
  <2>1. MazesAreSolved(input.n, input.free)
    BY <1>3, MazesAreRight
  <2> QED BY <1>3, <1>0, <2>1 DEF ResultsAreRight
<1>4. CASE input.kind = "top" /\ input.counts \in Seq(Nat)
  <2>1. TopIsKept(input.counts)
    BY <1>4, TopIsRight DEF AlgorithmsAssumption
  <2> QED BY <1>4, <1>0, <2>1 DEF ResultsAreRight
<1>5. CASE /\ input.kind = "config" /\ input.lines \in Seq(Lines)
           /\ input.newline \in BOOLEAN
  <2>1. FirstItemCounts(input.lines, input.newline)
    BY <1>5, LinesAre, ConfigIsRight
  <2> QED BY <1>5, <1>0, <2>1 DEF ResultsAreRight
<1>6. CASE /\ input.kind \in DOMAIN MessageSets
           /\ input.m \in MessageSets[input.kind]
  <2>1. MessageIsParsedAgain(input.kind, input.m)
    BY <1>6, MessagesAreParsedAgain
  <2>2. input.kind \notin {"maze", "sum", "difference", "top", "config"}
    BY <1>0, <1>6
  <2> QED BY <1>6, <2>1, <2>2 DEF ResultsAreRight
<1> QED BY <1>1, <1>2, <1>3, <1>4, <1>5, <1>6, InputIs

\* The results are right in every behaviour of the library, for any sides of
\* the mazes, any operands, any K and any bounds on the counts (bfs.cpp, dfs.cpp,
\* bigint.cpp, BigdataInTopK.cpp, mprpcconfig.cc and the generated messages).
THEOREM ProgramsAreRight == Spec => []ResultsAreRight
<1> USE AlgorithmsAssumption
<1>1. Init => input \in Inputs
  BY DEF Init, AlgorithmsInit
<1>2. input \in Inputs /\ [Next]_libraryVars => (input \in Inputs)'
  BY DEF Next, libraryVars
<1>3. input \in Inputs => ResultsAreRight
  BY ProgramIsRight
<1> QED BY <1>1, <1>2, <1>3, PTL DEF Spec
=============================================================================

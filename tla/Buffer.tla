------------------------------- MODULE Buffer -------------------------------
(***************************************************************************)
(* mymuduo's Buffer: a vector of bytes with a reserved prefix and two      *)
(* indices.  What lies between the indices can be read; appending moves it *)
(* to the front or lets the vector grow.                                   *)
(*                                                                         *)
(* An operation is an operator on the record b of the members.             *)
(***************************************************************************)
EXTENDS Naturals, Sequences

CONSTANTS kCheapPrepend, kInitialSize,
          ExtraSize,    \* sizeof extrabuf
          Chars,
          MaxReadable   \* bound: bytes in the buffer at a time

ASSUME BufferAssumption == /\ kCheapPrepend \in Nat /\ kInitialSize \in Nat
                           /\ ExtraSize \in Nat /\ MaxReadable \in Nat
                           /\ 0 \in Chars

VARIABLES
    buffer,             \* the members: mem, size, reader, writer
    content             \* history: what was put in and not yet taken out

bufferVars == <<buffer, content>>

Memory(size) == [0..(size - 1) -> Chars]

readableBytes(b) == b.writer - b.reader
writableBytes(b) == b.size - b.writer
prependableBytes(b) == b.reader

\* What peek() points to.
Readable(b) == [i \in 1..readableBytes(b) |-> b.mem[b.reader + i - 1]]

\* data, copied to the bytes from index at.
Copied(mem, at, data) ==
  [i \in DOMAIN mem |-> IF i \in at..(at + Len(data) - 1)
                        THEN data[i - at + 1] ELSE mem[i]]

retrieveAll(b) ==
  [b EXCEPT !.reader = kCheapPrepend, !.writer = kCheapPrepend]

retrieve(b, len) ==
  IF len < readableBytes(b) THEN [b EXCEPT !.reader = @ + len]
  ELSE retrieveAll(b)

resize(b, size) ==
  [b EXCEPT !.size = size,
            !.mem = [i \in 0..(size - 1) |-> IF i < b.size THEN b.mem[i]
                                             ELSE 0]]

\* Variant: the reserved prefix is counted as free.
makeSpace_UsePrefix(b, len) ==
  IF writableBytes(b) + prependableBytes(b) < len
  THEN resize(b, b.writer + len)
  ELSE [b EXCEPT !.mem = Copied(@, kCheapPrepend, Readable(b)),
                 !.reader = kCheapPrepend,
                 !.writer = kCheapPrepend + readableBytes(b)]

makeSpace(b, len) ==
  IF writableBytes(b) + prependableBytes(b) < len + kCheapPrepend
  THEN resize(b, b.writer + len)
  ELSE [b EXCEPT !.mem = Copied(@, kCheapPrepend, Readable(b)),
                 !.reader = kCheapPrepend,
                 !.writer = kCheapPrepend + readableBytes(b)]

ensureWriteableBytes(b, len) ==
  IF writableBytes(b) < len THEN makeSpace(b, len) ELSE b

append(b, data) ==
  LET e == ensureWriteableBytes(b, Len(data)) IN
  [e EXCEPT !.mem = Copied(@, e.writer, data), !.writer = @ + Len(data)]

\* data is what readv() delivers, into the buffer and then into extrabuf.
readFd(b, data) ==
  LET n == Len(data)
      writable == writableBytes(b) IN
  IF n < writable
  THEN [b EXCEPT !.mem = Copied(@, b.writer, data), !.writer = @ + n]
  ELSE append([b EXCEPT !.mem = Copied(@, b.writer, SubSeq(data, 1, writable)),
                        !.writer = b.size],
              SubSeq(data, writable + 1, n))

\* The bytes readv() may deliver: extrabuf is offered to a small buffer only.
Capacity(b) ==
  writableBytes(b) + IF writableBytes(b) < ExtraSize THEN ExtraSize ELSE 0

-----------------------------------------------------------------------------
BufferInit ==
  /\ buffer = [mem |-> [i \in 0..(kCheapPrepend + kInitialSize - 1) |-> 0],
               size |-> kCheapPrepend + kInitialSize,
               reader |-> kCheapPrepend, writer |-> kCheapPrepend]
  /\ content = << >>

Put(data, b) ==
  /\ Len(content) + Len(data) <= MaxReadable
  /\ buffer' = b
  /\ content' = content \o data

Append_(data) == Put(data, append(buffer, data))

\* readFd() that reads; a failed one changes nothing.
ReadFd(data) ==
  /\ Len(data) <= Capacity(buffer)
  /\ Put(data, readFd(buffer, data))

\* retrieve(), and retrieveAsString() of no more than there is.
Retrieve(len) ==
  /\ buffer' = retrieve(buffer, len)
  /\ content' = SubSeq(content, len + 1, Len(content))

\* The room another part of the program asks for in advance.
EnsureWriteableBytes(len) ==
  /\ buffer.writer + len <= kCheapPrepend + MaxReadable
  /\ buffer' = ensureWriteableBytes(buffer, len)
  /\ UNCHANGED content

Data == UNION {[1..n -> Chars] : n \in 0..MaxReadable}

BufferNext ==
  \/ \E data \in Data : Append_(data) \/ ReadFd(data)
  \/ \E len \in 0..MaxReadable : Retrieve(len) \/ EnsureWriteableBytes(len)

BufferSpec == BufferInit /\ [][BufferNext]_bufferVars

-----------------------------------------------------------------------------
\* A buffer is a queue of bytes: what can be read is what was appended or read
\* from the socket and not yet retrieved, in that order, whenever the bytes
\* are moved or the vector grows; the indices stay within the vector and
\* behind the reserved prefix, whatever an operation has been given
\* (Buffer.h:38-73, 97-113, Buffer.cc:7-33).
BufferIsFifo ==
  /\ buffer.mem \in Memory(buffer.size)
  /\ kCheapPrepend <= buffer.reader
  /\ buffer.reader <= buffer.writer
  /\ buffer.writer <= buffer.size
  /\ Readable(buffer) = content
=============================================================================

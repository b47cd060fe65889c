------------------------------ MODULE Protobuf ------------------------------
(***************************************************************************)
(* The part of libprotobuf that the generated message classes of mprpc     *)
(* call: varints, fields, and the loop of a parse.  A string is a sequence *)
(* of bytes.  A parse that fails gives the empty sequence, one that        *)
(* succeeds the sequence of the one message it built.                      *)
(***************************************************************************)
EXTENDS Naturals, Sequences, SequencesExt

Byte == 0..255
Failure == << >>

\* A varint: seven bits per byte, the lowest first, the last byte below 128.
Varint[n \in Nat] ==
  IF n < 128 THEN <<n>> ELSE <<128 + (n % 128)>> \o Varint[n \div 128]

\* << >> if the bytes end within the varint, else <<value, length>>.
ReadVarint[b \in Seq(Byte)] ==
  IF b = << >> THEN Failure
  ELSE IF b[1] < 128 THEN <<b[1], 1>>
  ELSE LET rest == ReadVarint[Tail(b)] IN
       IF rest = Failure THEN Failure
       ELSE <<b[1] - 128 + 128 * rest[1], rest[2] + 1>>

\* What is written for one field: nothing if it has its default value.
BytesField(tag, value) ==
  IF value = << >> THEN << >> ELSE <<tag>> \o Varint[Len(value)] \o value
VarintField(tag, value) == IF value = 0 THEN << >> ELSE <<tag>> \o Varint[value]
BoolField(tag, value) == IF value THEN <<tag, 1>> ELSE << >>

BytesSize(value) ==
  IF value = << >> THEN 0 ELSE 1 + Len(Varint[Len(value)]) + Len(value)
VarintSize(value) == IF value = 0 THEN 0 ELSE 1 + Len(Varint[value])
BoolSize(value) == IF value THEN 2 ELSE 0

\* The first field of b: its tag, its value and its bytes.  The low bits of
\* the tag say how the value ends; no message here has groups (3 and 4).
ReadField(b) ==
  LET t == ReadVarint[b]
      tag == t[1]
      rest == SubSeq(b, t[2] + 1, Len(b))
      v == ReadVarint[rest]
      Field(value, from, to) ==
        IF Len(rest) < to THEN Failure
        ELSE << [tag |-> tag, value |-> value,
                 raw |-> SubSeq(b, 1, t[2] + to)] >>
      Fixed(n) == Field(SubSeq(rest, 1, n), 1, n)
  IN IF t = Failure \/ tag < 8 THEN Failure
     ELSE CASE tag % 8 = 0 -> IF v = Failure THEN Failure
                              ELSE Field(v[1], 1, v[2])
            [] tag % 8 = 1 -> Fixed(8)
            [] tag % 8 = 2 -> IF v = Failure THEN Failure
                              ELSE Field(SubSeq(rest, v[2] + 1, v[2] + v[1]),
                                         v[2] + 1, v[2] + v[1])
            [] tag % 8 = 5 -> Fixed(4)
            [] OTHER -> Failure

\* The fields of b, << >> if one is malformed, else the sequence of the list.
Fields[b \in Seq(Byte)] ==
  IF b = << >> THEN << << >> >>
  ELSE LET f == ReadField(b)
           rest == Fields[SubSeq(b, Len(f[1].raw) + 1, Len(b))]
       IN IF f = Failure THEN Failure
          ELSE IF rest = Failure THEN Failure
          ELSE << f \o rest[1] >>

\* The loop of _InternalParse(): Case(m, f) is the switch of the message.
Loop(Case(_, _), m, fields) ==
  IF fields = Failure THEN Failure
  ELSE FoldLeft(LAMBDA done, f : IF done = Failure THEN Failure
                                 ELSE Case(done[1], f),
                <<m>>, fields[1])
Parse(Case(_, _), m, b) == Loop(Case, m, Fields[b])

Store(m, field, value) == << [m EXCEPT ![field] = value] >>
KeepUnknown(m, f) == Store(m, "unknown", m.unknown \o f.raw)

\* What MergeFrom() does to one field.
Merged(old, new, default) == IF new = default THEN old ELSE new
=============================================================================

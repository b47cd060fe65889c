---------------------------- MODULE MprpcProofs ----------------------------
(***************************************************************************)
(* Proofs about Mprpc, for any services of the examples and any bounds:    *)
(* the methods registered in ZooKeeper are those of sessions that live,    *)
(* whatever crashes, restarts and expired sessions come in between; and a  *)
(* request is executed as it was sent, once at most, in whatever pieces    *)
(* the provider reads it.  The second rests on what the parsers of the     *)
(* messages read back from what was written, for every message.            *)
(***************************************************************************)
EXTENDS Mprpc, ProtobufProofs

-----------------------------------------------------------------------------
(* What the messages read back.                                            *)

\* The header of a request (rpcheader.pb.cc) is read as it was written; cut
\* short, it is not read, or with the default value in place of what is
\* missing.
THEOREM HeaderIsRead ==
  ASSUME NEW m \in H!RpcHeader, m.unknown = << >>
  PROVE  LET b == H!InternalSerialize(m) IN
         /\ b \in Bytes
         /\ H!InternalParse(H!Clear, b) = <<m>>
         /\ \A k \in 0..Len(b) :
              LET p == H!InternalParse(H!Clear, SubSeq(b, 1, k)) IN
              \/ p = Failure
              \/ \E x1 \in {<< >>, m.service_name},
                    x2 \in {<< >>, m.method_name}, x3 \in {0, m.args_size} :
                   p = <<[service_name |-> x1, method_name |-> x2,
                          args_size |-> x3, unknown |-> << >>]>>
<1> DEFINE e1 == BytesField(10, m.service_name)
           e2 == BytesField(18, m.method_name)
           e3 == VarintField(24, m.args_size)
           f1 == FieldOf(10, m.service_name, BytesField(10, m.service_name), << >>)
           f2 == FieldOf(18, m.method_name, BytesField(18, m.method_name), << >>)
           f3 == FieldOf(24, m.args_size, VarintField(24, m.args_size), 0)
           b == H!InternalSerialize(m)
           P(c) == H!InternalParse(H!Clear, c)
<1>1. m = [service_name |-> m.service_name, method_name |-> m.method_name,
           args_size |-> m.args_size, unknown |-> << >>]
      /\ m.service_name \in Bytes /\ m.method_name \in Bytes /\ m.args_size \in Nat
  BY DEF H!RpcHeader, H!Byte, Byte, Bytes
<1>2. Piece(e1, f1) /\ Piece(e2, f2) /\ Piece(e3, f3)
  BY <1>1, BytesPiece, VarintPiece, NoPiece DEF Tags
<1>3. b = e1 \o (e2 \o e3)
  <2>1. e1 \in Seq(Byte) /\ e2 \in Seq(Byte) /\ e3 \in Seq(Byte)
    BY <1>2, PieceIs DEF Bytes
  <2>2. /\ (e1 \o e2) \o e3 = e1 \o (e2 \o e3)
        /\ ((e1 \o e2) \o e3) \o << >> = (e1 \o e2) \o e3
        /\ (e1 \o e2) \o << >> = e1 \o e2 /\ e1 \o << >> = e1
        /\ << >> \o << >> = << >>
    <3> HIDE DEF e1, e2, e3
    <3> QED BY <2>1, Joined, ConcatAssociative, ConcatEmptySeq, EmptyBytes
  <2>3. b = BytesField(10, m.service_name) \o BytesField(18, m.method_name)
        \o VarintField(24, m.args_size) \o << >>
    BY SameFields DEF H!InternalSerialize
  <2> QED BY <2>2, <2>3
<1> HIDE DEF e1, e2, e3, f1, f2, f3, b
<1>4. /\ b \in Bytes /\ Fields[b] = <<f1 \o (f2 \o f3)>>
      /\ \A k \in 0..Len(b) :
           PartOf(Fields[SubSeq(b, 1, k)], f1, f2, f3)
  <2> DEFINE e == e1 \o (e2 \o e3)
  <2>1. ReadsAs(e, f1, f2, f3)
    BY <1>2, MessageIsRead
  <2> HIDE DEF e
  <2>2. b = e
    BY <1>3 DEF e
  <2> QED BY <2>1, <2>2 DEF ReadsAs
<1>5. ASSUME NEW c, NEW g1 \in {<< >>, f1}, NEW g2 \in {<< >>, f2},
             NEW g3 \in {<< >>, f3}, Fields[c] = <<g1 \o (g2 \o g3)>>
      PROVE  P(c) = <<[service_name |-> IF g1 = << >> THEN << >> ELSE m.service_name,
                        method_name |-> IF g2 = << >> THEN << >> ELSE m.method_name,
                        args_size |-> IF g3 = << >> THEN 0 ELSE m.args_size,
                        unknown |-> << >>]>>
  <2> DEFINE Rec(x1, x2, x3) == [service_name |-> x1, method_name |-> x2,
                                 args_size |-> x3, unknown |-> << >>]
             A(d, fs) == After(HeaderStep, d, fs)
             x1 == IF g1 = << >> THEN << >> ELSE m.service_name
             x2 == IF g2 = << >> THEN << >> ELSE m.method_name
             x3 == IF g3 = << >> THEN 0 ELSE m.args_size
  <2>1. g1 \in Optional /\ g2 \in Optional /\ g3 \in Optional
    BY <1>2, NoPiece, PieceIs
  <2>2. g1 \o (g2 \o g3) \in Seq(FieldSet)
    <3>1. \A fs \in Optional : fs \in Seq(FieldSet)
      <4>1. << >> \in Seq(FieldSet) /\ \A f \in FieldSet : <<f>> \in Seq(FieldSet)
        BY EmptyBytes
      <4> QED BY <4>1 DEF Optional
    <3> QED BY <2>1, <3>1, Joined
  <2>3. /\ H!Clear = Rec(<< >>, << >>, 0)
        /\ H!Clear \in Headers
    BY EmptyBytes DEF H!Clear, Headers, Content, Bytes
  <2>4. Runs(HeaderStep, <<H!Clear>>, g1 \o (g2 \o g3), P(c))
    BY <1>5, <2>2, <2>3, HeaderRuns
  <2>5. P(c) = A(A(A(<<H!Clear>>, g1), g2), g3)
    BY <2>1, <2>4, RunOverFields
  <2>6. \A y1, y2, y3 \in Content : Rec(y1, y2, y3) \in Headers
    BY EmptyBytes DEF Headers, Bytes
  <2>7. /\ << >> \in Content /\ 0 \in Content
        /\ m.service_name \in Content /\ x1 \in Content
        /\ m.method_name \in Content /\ x2 \in Content
        /\ m.args_size \in Content /\ x3 \in Content
    BY <1>1, EmptyBytes DEF Content, Bytes
  <2>8. A(<<Rec(<< >>, << >>, 0)>>, g1) = <<Rec(x1, << >>, 0)>>
    <3>1. CASE g1 = << >>
      BY <3>1 DEF After
    <3>2. CASE g1 # << >>
      <4> DEFINE f == [tag |-> 10, value |-> m.service_name, raw |-> e1]
                 r == Rec(<< >>, << >>, 0)
      <4>1. g1 = <<f>> /\ f \in FieldSet
        <5>1. g1 = <<f>>
          BY <3>2 DEF f1, FieldOf, e1
        <5> QED BY <2>1, <5>1 DEF Optional
      <4>2. r \in Headers
        BY <2>6, <2>7
      <4>3. A(<<r>>, g1) = HeaderStep[<< <<r>>, f>>]
        <5> HIDE DEF r, f
        <5>1. <<f>>[1] = f /\ <<f>> # << >>
          OBVIOUS
        <5> QED BY <4>1, <5>1 DEF After, Step
      <4>4. HeaderStep[<< <<r>>, f>>]
              = <<[r EXCEPT !["service_name"] = m.service_name]>>
        <5>1. <<r>> \in Results(Headers) /\ <<r>> # Failure /\ <<r>>[1] = r
          BY <4>2 DEF Results, Failure
        <5>2. f.tag = 10 /\ f.value = m.service_name
          OBVIOUS
        <5> HIDE DEF r, f
        <5> QED BY <4>1, <5>1, <5>2 DEF HeaderStep, H!Store
      <4>5. [r EXCEPT !["service_name"] = m.service_name] = Rec(x1, << >>, 0)
        BY <3>2
      <4> QED BY <4>3, <4>4, <4>5
    <3> QED BY <3>1, <3>2
  <2>9. A(<<Rec(x1, << >>, 0)>>, g2) = <<Rec(x1, x2, 0)>>
    <3>1. CASE g2 = << >>
      BY <3>1 DEF After
    <3>2. CASE g2 # << >>
      <4> DEFINE f == [tag |-> 18, value |-> m.method_name, raw |-> e2]
                 r == Rec(x1, << >>, 0)
      <4>1. g2 = <<f>> /\ f \in FieldSet
        <5>1. g2 = <<f>>
          BY <3>2 DEF f2, FieldOf, e2
        <5> QED BY <2>1, <5>1 DEF Optional
      <4>2. r \in Headers
        BY <2>6, <2>7
      <4>3. A(<<r>>, g2) = HeaderStep[<< <<r>>, f>>]
        <5> HIDE DEF r, f
        <5>1. <<f>>[1] = f /\ <<f>> # << >>
          OBVIOUS
        <5> QED BY <4>1, <5>1 DEF After, Step
      <4>4. HeaderStep[<< <<r>>, f>>]
              = <<[r EXCEPT !["method_name"] = m.method_name]>>
        <5>1. <<r>> \in Results(Headers) /\ <<r>> # Failure /\ <<r>>[1] = r
          BY <4>2 DEF Results, Failure
        <5>2. f.tag = 18 /\ f.value = m.method_name
          OBVIOUS
        <5> HIDE DEF r, f
        <5> QED BY <4>1, <5>1, <5>2 DEF HeaderStep, H!Store
      <4>5. [r EXCEPT !["method_name"] = m.method_name] = Rec(x1, x2, 0)
        BY <3>2
      <4> QED BY <4>3, <4>4, <4>5
    <3> QED BY <3>1, <3>2
  <2>10. A(<<Rec(x1, x2, 0)>>, g3) = <<Rec(x1, x2, x3)>>
    <3>1. CASE g3 = << >>
      BY <3>1 DEF After
    <3>2. CASE g3 # << >>
      <4> DEFINE f == [tag |-> 24, value |-> m.args_size, raw |-> e3]
                 r == Rec(x1, x2, 0)
      <4>1. g3 = <<f>> /\ f \in FieldSet
        <5>1. g3 = <<f>>
          BY <3>2 DEF f3, FieldOf, e3
        <5> QED BY <2>1, <5>1 DEF Optional
      <4>2. r \in Headers
        BY <2>6, <2>7
      <4>3. A(<<r>>, g3) = HeaderStep[<< <<r>>, f>>]
        <5> HIDE DEF r, f
        <5>1. <<f>>[1] = f /\ <<f>> # << >>
          OBVIOUS
        <5> QED BY <4>1, <5>1 DEF After, Step
      <4>4. HeaderStep[<< <<r>>, f>>] = <<[r EXCEPT !["args_size"] = m.args_size]>>
        <5>1. <<r>> \in Results(Headers) /\ <<r>> # Failure /\ <<r>>[1] = r
          BY <4>2 DEF Results, Failure
        <5>2. f.tag = 24 /\ f.value = m.args_size
          OBVIOUS
        <5> HIDE DEF r, f
        <5> QED BY <4>1, <5>1, <5>2 DEF HeaderStep, H!Store
      <4>5. [r EXCEPT !["args_size"] = m.args_size] = Rec(x1, x2, x3)
        BY <3>2
      <4> QED BY <4>3, <4>4, <4>5
    <3> QED BY <3>1, <3>2
  <2> HIDE DEF Rec, A, x1, x2, x3
  <2>11. P(c) = <<Rec(x1, x2, x3)>>
    BY <2>3, <2>5, <2>8, <2>9, <2>10
  <2> QED BY <2>11 DEF Rec, x1, x2, x3
<1>6. P(b) = <<m>>
  <2>1. f1 \in {<< >>, f1} /\ f2 \in {<< >>, f2} /\ f3 \in {<< >>, f3}
    OBVIOUS
  <2>2. P(b) = <<[service_name |-> IF f1 = << >> THEN << >> ELSE m.service_name,
                  method_name |-> IF f2 = << >> THEN << >> ELSE m.method_name,
                  args_size |-> IF f3 = << >> THEN 0 ELSE m.args_size,
                  unknown |-> << >>]>>
    BY <1>4, <1>5, <2>1
  <2>3. (IF f1 = << >> THEN << >> ELSE m.service_name) = m.service_name
    BY DEF f1, FieldOf
  <2>4. (IF f2 = << >> THEN << >> ELSE m.method_name) = m.method_name
    BY DEF f2, FieldOf
  <2>5. (IF f3 = << >> THEN 0 ELSE m.args_size) = m.args_size
    BY DEF f3, FieldOf
  <2> QED BY <1>1, <2>2, <2>3, <2>4, <2>5
<1>7. ASSUME NEW k \in 0..Len(b), P(SubSeq(b, 1, k)) # Failure
      PROVE  \E x1 \in {<< >>, m.service_name}, x2 \in {<< >>, m.method_name},
                x3 \in {0, m.args_size} :
               P(SubSeq(b, 1, k))
                 = <<[service_name |-> x1, method_name |-> x2,
                      args_size |-> x3, unknown |-> << >>]>>
  <2> DEFINE c == SubSeq(b, 1, k)
  <2>1. Fields[c] # Failure
    <3> SUFFICES ASSUME Fields[c] = Failure PROVE P(c) = Failure
      BY <1>7
    <3> QED BY SameFields DEF H!InternalParse, H!Parse, H!Loop, H!Failure, Failure
  <2> HIDE DEF c
  <2>2. PICK g1 \in {<< >>, f1}, g2 \in {<< >>, f2}, g3 \in {<< >>, f3} :
          Fields[c] = <<g1 \o (g2 \o g3)>>
    BY <1>4, <2>1 DEF c, PartOf
  <2> DEFINE x1 == IF g1 = << >> THEN << >> ELSE m.service_name
             x2 == IF g2 = << >> THEN << >> ELSE m.method_name
             x3 == IF g3 = << >> THEN 0 ELSE m.args_size
  <2>3. P(c) = <<[service_name |-> x1, method_name |-> x2,
                  args_size |-> x3, unknown |-> << >>]>>
    BY <1>5, <2>2
  <2>4. x1 \in {<< >>, m.service_name} /\ x2 \in {<< >>, m.method_name}
        /\ x3 \in {0, m.args_size}
    OBVIOUS
  <2> HIDE DEF x1, x2, x3
  <2> QED BY <2>3, <2>4 DEF c
<1> HIDE DEF P
<1>8. /\ b \in Bytes /\ P(b) = <<m>>
      /\ \A k \in 0..Len(b) :
           \/ P(SubSeq(b, 1, k)) = Failure
           \/ \E x1 \in {<< >>, m.service_name}, x2 \in {<< >>, m.method_name},
                 x3 \in {0, m.args_size} :
                P(SubSeq(b, 1, k))
                  = <<[service_name |-> x1, method_name |-> x2,
                       args_size |-> x3, unknown |-> << >>]>>
  BY <1>4, <1>6, <1>7
<1> QED BY <1>8 DEF b, P

-----------------------------------------------------------------------------
\* A login request (user.pb.cc) is read as it was written; cut short, it is not
\* read, or with the default value in place of what is missing.
THEOREM LoginRequestIsRead ==
  ASSUME NEW m \in U!LoginRequest, m.unknown = << >>
  PROVE  LET b == U!LoginRequest_InternalSerialize(m) IN
         /\ b \in Bytes
         /\ U!LoginRequest_InternalParse(U!LoginRequest_Clear, b) = <<m>>
         /\ \A k \in 0..Len(b) :
              LET p == U!LoginRequest_InternalParse(U!LoginRequest_Clear,
                                                    SubSeq(b, 1, k)) IN
              \/ p = Failure
              \/ \E x1 \in {<< >>, m.name}, x2 \in {<< >>, m.pwd} :
                   p = <<[name |-> x1, pwd |-> x2, unknown |-> << >>]>>
<1> DEFINE e1 == BytesField(10, m.name)
           e2 == BytesField(18, m.pwd)
           e3 == << >>
           f1 == FieldOf(10, m.name, BytesField(10, m.name), << >>)
           f2 == FieldOf(18, m.pwd, BytesField(18, m.pwd), << >>)
           f3 == << >>
           b == U!LoginRequest_InternalSerialize(m)
           P(c) == U!LoginRequest_InternalParse(U!LoginRequest_Clear, c)
<1>1. m = [name |-> m.name, pwd |-> m.pwd, unknown |-> << >>]
      /\ m.name \in Bytes /\ m.pwd \in Bytes
  BY DEF U!LoginRequest, U!Bytes, U!Byte, Byte, Bytes
<1>2. Piece(e1, f1) /\ Piece(e2, f2) /\ Piece(e3, f3)
  BY <1>1, BytesPiece, VarintPiece, NoPiece DEF Tags
<1>3. b = e1 \o (e2 \o e3)
  <2>1. e1 \in Seq(Byte) /\ e2 \in Seq(Byte) /\ e3 \in Seq(Byte)
    BY <1>2, PieceIs DEF Bytes
  <2>2. /\ (e1 \o e2) \o e3 = e1 \o (e2 \o e3)
        /\ ((e1 \o e2) \o e3) \o << >> = (e1 \o e2) \o e3
        /\ (e1 \o e2) \o << >> = e1 \o e2 /\ e1 \o << >> = e1
        /\ << >> \o << >> = << >>
    <3> HIDE DEF e1, e2, e3
    <3> QED BY <2>1, Joined, ConcatAssociative, ConcatEmptySeq, EmptyBytes
  <2>3. b = BytesField(10, m.name) \o BytesField(18, m.pwd) \o << >>
    BY SameFields DEF U!LoginRequest_InternalSerialize
  <2> QED BY <2>2, <2>3
<1> HIDE DEF e1, e2, e3, f1, f2, f3, b
<1>4. /\ b \in Bytes /\ Fields[b] = <<f1 \o (f2 \o f3)>>
      /\ \A k \in 0..Len(b) :
           PartOf(Fields[SubSeq(b, 1, k)], f1, f2, f3)
  <2> DEFINE e == e1 \o (e2 \o e3)
  <2>1. ReadsAs(e, f1, f2, f3)
    BY <1>2, MessageIsRead
  <2> HIDE DEF e
  <2>2. b = e
    BY <1>3 DEF e
  <2> QED BY <2>1, <2>2 DEF ReadsAs
<1>5. ASSUME NEW c, NEW g1 \in {<< >>, f1}, NEW g2 \in {<< >>, f2},
             NEW g3 \in {<< >>, f3}, Fields[c] = <<g1 \o (g2 \o g3)>>
      PROVE  P(c) = <<[name |-> IF g1 = << >> THEN << >> ELSE m.name,
                        pwd |-> IF g2 = << >> THEN << >> ELSE m.pwd,
                        unknown |-> << >>]>>
  <2> DEFINE Rec(x1, x2) == [name |-> x1, pwd |-> x2, unknown |-> << >>]
             A(d, fs) == After(LoginRequestStep, d, fs)
             x1 == IF g1 = << >> THEN << >> ELSE m.name
             x2 == IF g2 = << >> THEN << >> ELSE m.pwd
  <2>1. g1 \in Optional /\ g2 \in Optional /\ g3 \in Optional
    BY <1>2, NoPiece, PieceIs
  <2>2. g1 \o (g2 \o g3) \in Seq(FieldSet)
    <3>1. \A fs \in Optional : fs \in Seq(FieldSet)
      <4>1. << >> \in Seq(FieldSet) /\ \A f \in FieldSet : <<f>> \in Seq(FieldSet)
        BY EmptyBytes
      <4> QED BY <4>1 DEF Optional
    <3> QED BY <2>1, <3>1, Joined
  <2>3. /\ U!LoginRequest_Clear = Rec(<< >>, << >>)
        /\ U!LoginRequest_Clear \in LoginRequests
    BY EmptyBytes DEF U!LoginRequest_Clear, LoginRequests, Content, Bytes
  <2>4. Runs(LoginRequestStep, <<U!LoginRequest_Clear>>, g1 \o (g2 \o g3), P(c))
    BY <1>5, <2>2, <2>3, LoginRequestRuns
  <2>5. P(c) = A(A(A(<<U!LoginRequest_Clear>>, g1), g2), g3)
    BY <2>1, <2>4, RunOverFields
  <2>6. \A y1, y2 \in Content : Rec(y1, y2) \in LoginRequests
    BY EmptyBytes DEF LoginRequests, Bytes
  <2>7. /\ << >> \in Content /\ 0 \in Content
        /\ m.name \in Content /\ x1 \in Content /\ m.pwd \in Content
        /\ x2 \in Content
    BY <1>1, EmptyBytes DEF Content, Bytes
  <2>8. A(<<Rec(<< >>, << >>)>>, g1) = <<Rec(x1, << >>)>>
    <3>1. CASE g1 = << >>
      BY <3>1 DEF After
    <3>2. CASE g1 # << >>
      <4> DEFINE f == [tag |-> 10, value |-> m.name, raw |-> e1]
                 r == Rec(<< >>, << >>)
      <4>1. g1 = <<f>> /\ f \in FieldSet
        <5>1. g1 = <<f>>
          BY <3>2 DEF f1, FieldOf, e1
        <5> QED BY <2>1, <5>1 DEF Optional
      <4>2. r \in LoginRequests
        BY <2>6, <2>7
      <4>3. A(<<r>>, g1) = LoginRequestStep[<< <<r>>, f>>]
        <5> HIDE DEF r, f
        <5>1. <<f>>[1] = f /\ <<f>> # << >>
          OBVIOUS
        <5> QED BY <4>1, <5>1 DEF After, Step
      <4>4. LoginRequestStep[<< <<r>>, f>>] = <<[r EXCEPT !["name"] = m.name]>>
        <5>1. <<r>> \in Results(LoginRequests) /\ <<r>> # Failure /\ <<r>>[1] = r
          BY <4>2 DEF Results, Failure
        <5>2. f.tag = 10 /\ f.value = m.name
          OBVIOUS
        <5> HIDE DEF r, f
        <5> QED BY <4>1, <5>1, <5>2 DEF LoginRequestStep, U!Store
      <4>5. [r EXCEPT !["name"] = m.name] = Rec(x1, << >>)
        BY <3>2
      <4> QED BY <4>3, <4>4, <4>5
    <3> QED BY <3>1, <3>2
  <2>9. A(<<Rec(x1, << >>)>>, g2) = <<Rec(x1, x2)>>
    <3>1. CASE g2 = << >>
      BY <3>1 DEF After
    <3>2. CASE g2 # << >>
      <4> DEFINE f == [tag |-> 18, value |-> m.pwd, raw |-> e2]
                 r == Rec(x1, << >>)
      <4>1. g2 = <<f>> /\ f \in FieldSet
        <5>1. g2 = <<f>>
          BY <3>2 DEF f2, FieldOf, e2
        <5> QED BY <2>1, <5>1 DEF Optional
      <4>2. r \in LoginRequests
        BY <2>6, <2>7
      <4>3. A(<<r>>, g2) = LoginRequestStep[<< <<r>>, f>>]
        <5> HIDE DEF r, f
        <5>1. <<f>>[1] = f /\ <<f>> # << >>
          OBVIOUS
        <5> QED BY <4>1, <5>1 DEF After, Step
      <4>4. LoginRequestStep[<< <<r>>, f>>] = <<[r EXCEPT !["pwd"] = m.pwd]>>
        <5>1. <<r>> \in Results(LoginRequests) /\ <<r>> # Failure /\ <<r>>[1] = r
          BY <4>2 DEF Results, Failure
        <5>2. f.tag = 18 /\ f.value = m.pwd
          OBVIOUS
        <5> HIDE DEF r, f
        <5> QED BY <4>1, <5>1, <5>2 DEF LoginRequestStep, U!Store
      <4>5. [r EXCEPT !["pwd"] = m.pwd] = Rec(x1, x2)
        BY <3>2
      <4> QED BY <4>3, <4>4, <4>5
    <3> QED BY <3>1, <3>2
  <2>10. \A d : A(d, << >>) = d
    BY DEF After
  <2>11. g3 = << >>
    BY DEF f3
  <2> HIDE DEF Rec, A, x1, x2
  <2>12. P(c) = <<Rec(x1, x2)>>
    BY <2>3, <2>5, <2>8, <2>9, <2>10, <2>11
  <2> QED BY <2>12 DEF Rec, x1, x2
<1>6. P(b) = <<m>>
  <2>1. f1 \in {<< >>, f1} /\ f2 \in {<< >>, f2} /\ f3 \in {<< >>, f3}
    OBVIOUS
  <2>2. P(b) = <<[name |-> IF f1 = << >> THEN << >> ELSE m.name,
                  pwd |-> IF f2 = << >> THEN << >> ELSE m.pwd,
                  unknown |-> << >>]>>
    BY <1>4, <1>5, <2>1
  <2>3. (IF f1 = << >> THEN << >> ELSE m.name) = m.name
    BY DEF f1, FieldOf
  <2>4. (IF f2 = << >> THEN << >> ELSE m.pwd) = m.pwd
    BY DEF f2, FieldOf
  <2> QED BY <1>1, <2>2, <2>3, <2>4
<1>7. ASSUME NEW k \in 0..Len(b), P(SubSeq(b, 1, k)) # Failure
      PROVE  \E x1 \in {<< >>, m.name}, x2 \in {<< >>, m.pwd} :
               P(SubSeq(b, 1, k)) = <<[name |-> x1, pwd |-> x2, unknown |-> << >>]>>
  <2> DEFINE c == SubSeq(b, 1, k)
  <2>1. Fields[c] # Failure
    <3> SUFFICES ASSUME Fields[c] = Failure PROVE P(c) = Failure
      BY <1>7
    <3> QED BY SameFields DEF U!LoginRequest_InternalParse, U!Parse, U!Loop,
                              U!Failure, Failure
  <2> HIDE DEF c
  <2>2. PICK g1 \in {<< >>, f1}, g2 \in {<< >>, f2}, g3 \in {<< >>, f3} :
          Fields[c] = <<g1 \o (g2 \o g3)>>
    BY <1>4, <2>1 DEF c, PartOf
  <2> DEFINE x1 == IF g1 = << >> THEN << >> ELSE m.name
             x2 == IF g2 = << >> THEN << >> ELSE m.pwd
  <2>3. P(c) = <<[name |-> x1, pwd |-> x2, unknown |-> << >>]>>
    BY <1>5, <2>2
  <2>4. x1 \in {<< >>, m.name} /\ x2 \in {<< >>, m.pwd}
    OBVIOUS
  <2> HIDE DEF x1, x2
  <2> QED BY <2>3, <2>4 DEF c
<1> HIDE DEF P
<1>8. /\ b \in Bytes /\ P(b) = <<m>>
      /\ \A k \in 0..Len(b) :
           \/ P(SubSeq(b, 1, k)) = Failure
           \/ \E x1 \in {<< >>, m.name}, x2 \in {<< >>, m.pwd} :
                P(SubSeq(b, 1, k))
                  = <<[name |-> x1, pwd |-> x2, unknown |-> << >>]>>
  BY <1>4, <1>6, <1>7
<1> QED BY <1>8 DEF b, P

-----------------------------------------------------------------------------
\* A register request (user.pb.cc) is read as it was written; cut short, it is
\* not read, or with the default value in place of what is missing.
THEOREM RegisterRequestIsRead ==
  ASSUME NEW m \in U!RegisterRequest, m.unknown = << >>
  PROVE  LET b == U!RegisterRequest_InternalSerialize(m) IN
         /\ b \in Bytes
         /\ U!RegisterRequest_InternalParse(U!RegisterRequest_Clear, b) = <<m>>
         /\ \A k \in 0..Len(b) :
              LET p == U!RegisterRequest_InternalParse(U!RegisterRequest_Clear,
                                                       SubSeq(b, 1, k)) IN
              \/ p = Failure
              \/ \E x1 \in {0, m.id}, x2 \in {<< >>, m.name},
                    x3 \in {<< >>, m.pwd} :
                   p = <<[id |-> x1, name |-> x2, pwd |-> x3, unknown |-> << >>]>>
<1> DEFINE e1 == VarintField(8, m.id)
           e2 == BytesField(18, m.name)
           e3 == BytesField(26, m.pwd)
           f1 == FieldOf(8, m.id, VarintField(8, m.id), 0)
           f2 == FieldOf(18, m.name, BytesField(18, m.name), << >>)
           f3 == FieldOf(26, m.pwd, BytesField(26, m.pwd), << >>)
           b == U!RegisterRequest_InternalSerialize(m)
           P(c) == U!RegisterRequest_InternalParse(U!RegisterRequest_Clear, c)
<1>1. m = [id |-> m.id, name |-> m.name, pwd |-> m.pwd, unknown |-> << >>]
      /\ m.id \in Nat /\ m.name \in Bytes /\ m.pwd \in Bytes
  BY DEF U!RegisterRequest, U!Bytes, U!Byte, Byte, Bytes
<1>2. Piece(e1, f1) /\ Piece(e2, f2) /\ Piece(e3, f3)
  BY <1>1, BytesPiece, VarintPiece, NoPiece DEF Tags
<1>3. b = e1 \o (e2 \o e3)
  <2>1. e1 \in Seq(Byte) /\ e2 \in Seq(Byte) /\ e3 \in Seq(Byte)
    BY <1>2, PieceIs DEF Bytes
  <2>2. /\ (e1 \o e2) \o e3 = e1 \o (e2 \o e3)
        /\ ((e1 \o e2) \o e3) \o << >> = (e1 \o e2) \o e3
        /\ (e1 \o e2) \o << >> = e1 \o e2 /\ e1 \o << >> = e1
        /\ << >> \o << >> = << >>
    <3> HIDE DEF e1, e2, e3
    <3> QED BY <2>1, Joined, ConcatAssociative, ConcatEmptySeq, EmptyBytes
  <2>3. b = VarintField(8, m.id) \o BytesField(18, m.name)
        \o BytesField(26, m.pwd) \o << >>
    BY SameFields DEF U!RegisterRequest_InternalSerialize
  <2> QED BY <2>2, <2>3
<1> HIDE DEF e1, e2, e3, f1, f2, f3, b
<1>4. /\ b \in Bytes /\ Fields[b] = <<f1 \o (f2 \o f3)>>
      /\ \A k \in 0..Len(b) :
           PartOf(Fields[SubSeq(b, 1, k)], f1, f2, f3)
  <2> DEFINE e == e1 \o (e2 \o e3)
  <2>1. ReadsAs(e, f1, f2, f3)
    BY <1>2, MessageIsRead
  <2> HIDE DEF e
  <2>2. b = e
    BY <1>3 DEF e
  <2> QED BY <2>1, <2>2 DEF ReadsAs
<1>5. ASSUME NEW c, NEW g1 \in {<< >>, f1}, NEW g2 \in {<< >>, f2},
             NEW g3 \in {<< >>, f3}, Fields[c] = <<g1 \o (g2 \o g3)>>
      PROVE  P(c) = <<[id |-> IF g1 = << >> THEN 0 ELSE m.id,
                        name |-> IF g2 = << >> THEN << >> ELSE m.name,
                        pwd |-> IF g3 = << >> THEN << >> ELSE m.pwd,
                        unknown |-> << >>]>>
  <2> DEFINE Rec(x1, x2, x3) == [id |-> x1, name |-> x2, pwd |-> x3,
                                 unknown |-> << >>]
             A(d, fs) == After(RegisterRequestStep, d, fs)
             x1 == IF g1 = << >> THEN 0 ELSE m.id
             x2 == IF g2 = << >> THEN << >> ELSE m.name
             x3 == IF g3 = << >> THEN << >> ELSE m.pwd
  <2>1. g1 \in Optional /\ g2 \in Optional /\ g3 \in Optional
    BY <1>2, NoPiece, PieceIs
  <2>2. g1 \o (g2 \o g3) \in Seq(FieldSet)
    <3>1. \A fs \in Optional : fs \in Seq(FieldSet)
      <4>1. << >> \in Seq(FieldSet) /\ \A f \in FieldSet : <<f>> \in Seq(FieldSet)
        BY EmptyBytes
      <4> QED BY <4>1 DEF Optional
    <3> QED BY <2>1, <3>1, Joined
  <2>3. /\ U!RegisterRequest_Clear = Rec(0, << >>, << >>)
        /\ U!RegisterRequest_Clear \in RegisterRequests
    BY EmptyBytes DEF U!RegisterRequest_Clear, RegisterRequests, Content, Bytes
  <2>4. Runs(RegisterRequestStep, <<U!RegisterRequest_Clear>>,
             g1 \o (g2 \o g3), P(c))
    BY <1>5, <2>2, <2>3, RegisterRequestRuns
  <2>5. P(c) = A(A(A(<<U!RegisterRequest_Clear>>, g1), g2), g3)
    BY <2>1, <2>4, RunOverFields
  <2>6. \A y1, y2, y3 \in Content : Rec(y1, y2, y3) \in RegisterRequests
    BY EmptyBytes DEF RegisterRequests, Bytes
  <2>7. /\ << >> \in Content /\ 0 \in Content
        /\ m.id \in Content /\ x1 \in Content /\ m.name \in Content
        /\ x2 \in Content /\ m.pwd \in Content /\ x3 \in Content
    BY <1>1, EmptyBytes DEF Content, Bytes
  <2>8. A(<<Rec(0, << >>, << >>)>>, g1) = <<Rec(x1, << >>, << >>)>>
    <3>1. CASE g1 = << >>
      BY <3>1 DEF After
    <3>2. CASE g1 # << >>
      <4> DEFINE f == [tag |-> 8, value |-> m.id, raw |-> e1]
                 r == Rec(0, << >>, << >>)
      <4>1. g1 = <<f>> /\ f \in FieldSet
        <5>1. g1 = <<f>>
          BY <3>2 DEF f1, FieldOf, e1
        <5> QED BY <2>1, <5>1 DEF Optional
      <4>2. r \in RegisterRequests
        BY <2>6, <2>7
      <4>3. A(<<r>>, g1) = RegisterRequestStep[<< <<r>>, f>>]
        <5> HIDE DEF r, f
        <5>1. <<f>>[1] = f /\ <<f>> # << >>
          OBVIOUS
        <5> QED BY <4>1, <5>1 DEF After, Step
      <4>4. RegisterRequestStep[<< <<r>>, f>>] = <<[r EXCEPT !["id"] = m.id]>>
        <5>1. <<r>> \in Results(RegisterRequests) /\ <<r>> # Failure /\ <<r>>[1] = r
          BY <4>2 DEF Results, Failure
        <5>2. f.tag = 8 /\ f.value = m.id
          OBVIOUS
        <5> HIDE DEF r, f
        <5> QED BY <4>1, <5>1, <5>2 DEF RegisterRequestStep, U!Store
      <4>5. [r EXCEPT !["id"] = m.id] = Rec(x1, << >>, << >>)
        BY <3>2
      <4> QED BY <4>3, <4>4, <4>5
    <3> QED BY <3>1, <3>2
  <2>9. A(<<Rec(x1, << >>, << >>)>>, g2) = <<Rec(x1, x2, << >>)>>
    <3>1. CASE g2 = << >>
      BY <3>1 DEF After
    <3>2. CASE g2 # << >>
      <4> DEFINE f == [tag |-> 18, value |-> m.name, raw |-> e2]
                 r == Rec(x1, << >>, << >>)
      <4>1. g2 = <<f>> /\ f \in FieldSet
        <5>1. g2 = <<f>>
          BY <3>2 DEF f2, FieldOf, e2
        <5> QED BY <2>1, <5>1 DEF Optional
      <4>2. r \in RegisterRequests
        BY <2>6, <2>7
      <4>3. A(<<r>>, g2) = RegisterRequestStep[<< <<r>>, f>>]
        <5> HIDE DEF r, f
        <5>1. <<f>>[1] = f /\ <<f>> # << >>
          OBVIOUS
        <5> QED BY <4>1, <5>1 DEF After, Step
      <4>4. RegisterRequestStep[<< <<r>>, f>>] = <<[r EXCEPT !["name"] = m.name]>>
        <5>1. <<r>> \in Results(RegisterRequests) /\ <<r>> # Failure /\ <<r>>[1] = r
          BY <4>2 DEF Results, Failure
        <5>2. f.tag = 18 /\ f.value = m.name
          OBVIOUS
        <5> HIDE DEF r, f
        <5> QED BY <4>1, <5>1, <5>2 DEF RegisterRequestStep, U!Store
      <4>5. [r EXCEPT !["name"] = m.name] = Rec(x1, x2, << >>)
        BY <3>2
      <4> QED BY <4>3, <4>4, <4>5
    <3> QED BY <3>1, <3>2
  <2>10. A(<<Rec(x1, x2, << >>)>>, g3) = <<Rec(x1, x2, x3)>>
    <3>1. CASE g3 = << >>
      BY <3>1 DEF After
    <3>2. CASE g3 # << >>
      <4> DEFINE f == [tag |-> 26, value |-> m.pwd, raw |-> e3]
                 r == Rec(x1, x2, << >>)
      <4>1. g3 = <<f>> /\ f \in FieldSet
        <5>1. g3 = <<f>>
          BY <3>2 DEF f3, FieldOf, e3
        <5> QED BY <2>1, <5>1 DEF Optional
      <4>2. r \in RegisterRequests
        BY <2>6, <2>7
      <4>3. A(<<r>>, g3) = RegisterRequestStep[<< <<r>>, f>>]
        <5> HIDE DEF r, f
        <5>1. <<f>>[1] = f /\ <<f>> # << >>
          OBVIOUS
        <5> QED BY <4>1, <5>1 DEF After, Step
      <4>4. RegisterRequestStep[<< <<r>>, f>>] = <<[r EXCEPT !["pwd"] = m.pwd]>>
        <5>1. <<r>> \in Results(RegisterRequests) /\ <<r>> # Failure /\ <<r>>[1] = r
          BY <4>2 DEF Results, Failure
        <5>2. f.tag = 26 /\ f.value = m.pwd
          OBVIOUS
        <5> HIDE DEF r, f
        <5> QED BY <4>1, <5>1, <5>2 DEF RegisterRequestStep, U!Store
      <4>5. [r EXCEPT !["pwd"] = m.pwd] = Rec(x1, x2, x3)
        BY <3>2
      <4> QED BY <4>3, <4>4, <4>5
    <3> QED BY <3>1, <3>2
  <2> HIDE DEF Rec, A, x1, x2, x3
  <2>11. P(c) = <<Rec(x1, x2, x3)>>
    BY <2>3, <2>5, <2>8, <2>9, <2>10
  <2> QED BY <2>11 DEF Rec, x1, x2, x3
<1>6. P(b) = <<m>>
  <2>1. f1 \in {<< >>, f1} /\ f2 \in {<< >>, f2} /\ f3 \in {<< >>, f3}
    OBVIOUS
  <2>2. P(b) = <<[id |-> IF f1 = << >> THEN 0 ELSE m.id,
                  name |-> IF f2 = << >> THEN << >> ELSE m.name,
                  pwd |-> IF f3 = << >> THEN << >> ELSE m.pwd,
                  unknown |-> << >>]>>
    BY <1>4, <1>5, <2>1
  <2>3. (IF f1 = << >> THEN 0 ELSE m.id) = m.id
    BY DEF f1, FieldOf
  <2>4. (IF f2 = << >> THEN << >> ELSE m.name) = m.name
    BY DEF f2, FieldOf
  <2>5. (IF f3 = << >> THEN << >> ELSE m.pwd) = m.pwd
    BY DEF f3, FieldOf
  <2> QED BY <1>1, <2>2, <2>3, <2>4, <2>5
<1>7. ASSUME NEW k \in 0..Len(b), P(SubSeq(b, 1, k)) # Failure
      PROVE  \E x1 \in {0, m.id}, x2 \in {<< >>, m.name}, x3 \in {<< >>, m.pwd} :
               P(SubSeq(b, 1, k))
                 = <<[id |-> x1, name |-> x2, pwd |-> x3, unknown |-> << >>]>>
  <2> DEFINE c == SubSeq(b, 1, k)
  <2>1. Fields[c] # Failure
    <3> SUFFICES ASSUME Fields[c] = Failure PROVE P(c) = Failure
      BY <1>7
    <3> QED BY SameFields DEF U!RegisterRequest_InternalParse, U!Parse, U!Loop,
                              U!Failure, Failure
  <2> HIDE DEF c
  <2>2. PICK g1 \in {<< >>, f1}, g2 \in {<< >>, f2}, g3 \in {<< >>, f3} :
          Fields[c] = <<g1 \o (g2 \o g3)>>
    BY <1>4, <2>1 DEF c, PartOf
  <2> DEFINE x1 == IF g1 = << >> THEN 0 ELSE m.id
             x2 == IF g2 = << >> THEN << >> ELSE m.name
             x3 == IF g3 = << >> THEN << >> ELSE m.pwd
  <2>3. P(c) = <<[id |-> x1, name |-> x2, pwd |-> x3, unknown |-> << >>]>>
    BY <1>5, <2>2
  <2>4. x1 \in {0, m.id} /\ x2 \in {<< >>, m.name} /\ x3 \in {<< >>, m.pwd}
    OBVIOUS
  <2> HIDE DEF x1, x2, x3
  <2> QED BY <2>3, <2>4 DEF c
<1> HIDE DEF P
<1>8. /\ b \in Bytes /\ P(b) = <<m>>
      /\ \A k \in 0..Len(b) :
           \/ P(SubSeq(b, 1, k)) = Failure
           \/ \E x1 \in {0, m.id}, x2 \in {<< >>, m.name}, x3 \in {<< >>, m.pwd} :
                P(SubSeq(b, 1, k))
                  = <<[id |-> x1, name |-> x2, pwd |-> x3, unknown |-> << >>]>>
  BY <1>4, <1>6, <1>7
<1> QED BY <1>8 DEF b, P

-----------------------------------------------------------------------------
\* A request for a list of friends (friend.pb.cc) is read as it was written;
\* cut short, it is not read, or with the default value in place of what is
\* missing.
THEOREM FriendsRequestIsRead ==
  ASSUME NEW m \in F!GetFriendsListRequest, m.unknown = << >>
  PROVE  LET b == F!GetFriendsListRequest_InternalSerialize(m) IN
         /\ b \in Bytes
         /\ F!GetFriendsListRequest_InternalParse(F!GetFriendsListRequest_Clear, b)
               = <<m>>
         /\ \A k \in 0..Len(b) :
              LET p == F!GetFriendsListRequest_InternalParse(
                         F!GetFriendsListRequest_Clear, SubSeq(b, 1, k)) IN
              \/ p = Failure
              \/ \E x1 \in {0, m.userid} :
                   p = <<[userid |-> x1, unknown |-> << >>]>>
<1> DEFINE e1 == VarintField(8, m.userid)
           e2 == << >>
           e3 == << >>
           f1 == FieldOf(8, m.userid, VarintField(8, m.userid), 0)
           f2 == << >>
           f3 == << >>
           b == F!GetFriendsListRequest_InternalSerialize(m)
           P(c) == F!GetFriendsListRequest_InternalParse(
                     F!GetFriendsListRequest_Clear, c)
<1>1. m = [userid |-> m.userid, unknown |-> << >>]
      /\ m.userid \in Nat
  BY DEF F!GetFriendsListRequest, F!Byte, F!Bytes, Byte, Bytes
<1>2. Piece(e1, f1) /\ Piece(e2, f2) /\ Piece(e3, f3)
  BY <1>1, BytesPiece, VarintPiece, NoPiece DEF Tags
<1>3. b = e1 \o (e2 \o e3)
  <2>1. e1 \in Seq(Byte) /\ e2 \in Seq(Byte) /\ e3 \in Seq(Byte)
    BY <1>2, PieceIs DEF Bytes
  <2>2. /\ (e1 \o e2) \o e3 = e1 \o (e2 \o e3)
        /\ ((e1 \o e2) \o e3) \o << >> = (e1 \o e2) \o e3
        /\ (e1 \o e2) \o << >> = e1 \o e2 /\ e1 \o << >> = e1
        /\ << >> \o << >> = << >>
    <3> HIDE DEF e1, e2, e3
    <3> QED BY <2>1, Joined, ConcatAssociative, ConcatEmptySeq, EmptyBytes
  <2>3. b = VarintField(8, m.userid) \o << >>
    BY SameFields DEF F!GetFriendsListRequest_InternalSerialize
  <2> QED BY <2>2, <2>3
<1> HIDE DEF e1, e2, e3, f1, f2, f3, b
<1>4. /\ b \in Bytes /\ Fields[b] = <<f1 \o (f2 \o f3)>>
      /\ \A k \in 0..Len(b) :
           PartOf(Fields[SubSeq(b, 1, k)], f1, f2, f3)
  <2> DEFINE e == e1 \o (e2 \o e3)
  <2>1. ReadsAs(e, f1, f2, f3)
    BY <1>2, MessageIsRead
  <2> HIDE DEF e
  <2>2. b = e
    BY <1>3 DEF e
  <2> QED BY <2>1, <2>2 DEF ReadsAs
<1>5. ASSUME NEW c, NEW g1 \in {<< >>, f1}, NEW g2 \in {<< >>, f2},
             NEW g3 \in {<< >>, f3}, Fields[c] = <<g1 \o (g2 \o g3)>>
      PROVE  P(c) = <<[userid |-> IF g1 = << >> THEN 0 ELSE m.userid,
                        unknown |-> << >>]>>
  <2> DEFINE Rec(x1) == [userid |-> x1, unknown |-> << >>]
             A(d, fs) == After(FriendsRequestStep, d, fs)
             x1 == IF g1 = << >> THEN 0 ELSE m.userid
  <2>1. g1 \in Optional /\ g2 \in Optional /\ g3 \in Optional
    BY <1>2, NoPiece, PieceIs
  <2>2. g1 \o (g2 \o g3) \in Seq(FieldSet)
    <3>1. \A fs \in Optional : fs \in Seq(FieldSet)
      <4>1. << >> \in Seq(FieldSet) /\ \A f \in FieldSet : <<f>> \in Seq(FieldSet)
        BY EmptyBytes
      <4> QED BY <4>1 DEF Optional
    <3> QED BY <2>1, <3>1, Joined
  <2>3. /\ F!GetFriendsListRequest_Clear = Rec(0)
        /\ F!GetFriendsListRequest_Clear \in FriendsRequests
    BY EmptyBytes DEF F!GetFriendsListRequest_Clear, FriendsRequests, Content, Bytes
  <2>4. Runs(FriendsRequestStep, <<F!GetFriendsListRequest_Clear>>,
             g1 \o (g2 \o g3), P(c))
    BY <1>5, <2>2, <2>3, FriendsRequestRuns
  <2>5. P(c) = A(A(A(<<F!GetFriendsListRequest_Clear>>, g1), g2), g3)
    BY <2>1, <2>4, RunOverFields
  <2>6. \A y1 \in Content : Rec(y1) \in FriendsRequests
    BY EmptyBytes DEF FriendsRequests, Bytes
  <2>7. /\ << >> \in Content /\ 0 \in Content
        /\ m.userid \in Content /\ x1 \in Content
    BY <1>1, EmptyBytes DEF Content, Bytes
  <2>8. A(<<Rec(0)>>, g1) = <<Rec(x1)>>
    <3>1. CASE g1 = << >>
      BY <3>1 DEF After
    <3>2. CASE g1 # << >>
      <4> DEFINE f == [tag |-> 8, value |-> m.userid, raw |-> e1]
                 r == Rec(0)
      <4>1. g1 = <<f>> /\ f \in FieldSet
        <5>1. g1 = <<f>>
          BY <3>2 DEF f1, FieldOf, e1
        <5> QED BY <2>1, <5>1 DEF Optional
      <4>2. r \in FriendsRequests
        BY <2>6, <2>7
      <4>3. A(<<r>>, g1) = FriendsRequestStep[<< <<r>>, f>>]
        <5> HIDE DEF r, f
        <5>1. <<f>>[1] = f /\ <<f>> # << >>
          OBVIOUS
        <5> QED BY <4>1, <5>1 DEF After, Step
      <4>4. FriendsRequestStep[<< <<r>>, f>>]
              = <<[r EXCEPT !["userid"] = m.userid]>>
        <5>1. <<r>> \in Results(FriendsRequests) /\ <<r>> # Failure /\ <<r>>[1] = r
          BY <4>2 DEF Results, Failure
        <5>2. f.tag = 8 /\ f.value = m.userid
          OBVIOUS
        <5> HIDE DEF r, f
        <5> QED BY <4>1, <5>1, <5>2 DEF FriendsRequestStep, F!Store
      <4>5. [r EXCEPT !["userid"] = m.userid] = Rec(x1)
        BY <3>2
      <4> QED BY <4>3, <4>4, <4>5
    <3> QED BY <3>1, <3>2
  <2>9. \A d : A(d, << >>) = d
    BY DEF After
  <2>10. g3 = << >> /\ g2 = << >>
    BY DEF f3, f2
  <2> HIDE DEF Rec, A, x1
  <2>11. P(c) = <<Rec(x1)>>
    BY <2>3, <2>5, <2>8, <2>9, <2>10
  <2> QED BY <2>11 DEF Rec, x1
<1>6. P(b) = <<m>>
  <2>1. f1 \in {<< >>, f1} /\ f2 \in {<< >>, f2} /\ f3 \in {<< >>, f3}
    OBVIOUS
  <2>2. P(b) = <<[userid |-> IF f1 = << >> THEN 0 ELSE m.userid,
                  unknown |-> << >>]>>
    BY <1>4, <1>5, <2>1
  <2>3. (IF f1 = << >> THEN 0 ELSE m.userid) = m.userid
    BY DEF f1, FieldOf
  <2> QED BY <1>1, <2>2, <2>3
<1>7. ASSUME NEW k \in 0..Len(b), P(SubSeq(b, 1, k)) # Failure
      PROVE  \E x1 \in {0, m.userid} :
               P(SubSeq(b, 1, k)) = <<[userid |-> x1, unknown |-> << >>]>>
  <2> DEFINE c == SubSeq(b, 1, k)
  <2>1. Fields[c] # Failure
    <3> SUFFICES ASSUME Fields[c] = Failure PROVE P(c) = Failure
      BY <1>7
    <3> QED BY SameFields DEF F!GetFriendsListRequest_InternalParse, F!Parse,
                              F!Loop, F!Failure, Failure
  <2> HIDE DEF c
  <2>2. PICK g1 \in {<< >>, f1}, g2 \in {<< >>, f2}, g3 \in {<< >>, f3} :
          Fields[c] = <<g1 \o (g2 \o g3)>>
    BY <1>4, <2>1 DEF c, PartOf
  <2> DEFINE x1 == IF g1 = << >> THEN 0 ELSE m.userid
  <2>3. P(c) = <<[userid |-> x1, unknown |-> << >>]>>
    BY <1>5, <2>2
  <2>4. x1 \in {0, m.userid}
    OBVIOUS
  <2> HIDE DEF x1
  <2> QED BY <2>3, <2>4 DEF c
<1> HIDE DEF P
<1>8. /\ b \in Bytes /\ P(b) = <<m>>
      /\ \A k \in 0..Len(b) :
           \/ P(SubSeq(b, 1, k)) = Failure
           \/ \E x1 \in {0, m.userid} :
                P(SubSeq(b, 1, k)) = <<[userid |-> x1, unknown |-> << >>]>>
  BY <1>4, <1>6, <1>7
<1> QED BY <1>8 DEF b, P

-----------------------------------------------------------------------------
(* The registry.                                                           *)

Znodes == {ServiceNode, Login, Register, GetFriendsList}
Live == {"exists", "create", "serve"}

RegistryTyped ==
  /\ pc \in [Services -> {"off", "down", "zookeeper", "exists", "create",
                          "serve"}]
  /\ zk \in [Services -> {"none", "connecting", "waiting", "ready"}]
  /\ session \in [Services -> Nat]
  /\ todo \in [Services -> SUBSET Znodes]
  /\ path \in [Services -> Znodes]
  /\ missed \in [Services -> SUBSET Znodes]
  /\ nodes = [s \in Services |-> [m \in NodesOf(s) |-> nodes[s][m]]]
  /\ lastSession \in Nat \ {0}
  /\ expired \subseteq Sessions

\* start() returns once, to a provider that has created nothing yet.
StartInv(s) ==
  /\ zk[s] \in {"connecting", "waiting"} => pc[s] = "zookeeper"
  /\ pc[s] = "zookeeper" => todo[s] = NodesOf(s)

\* What ZooKeeper keeps for a service: ephemeral znodes of sessions that live,
\* below the persistent one.
TreeInv(s) ==
  /\ nodes[s][ServiceNode] \in {Nobody, Forever}
  /\ \A m \in Methods(s) :
       nodes[s][m] # Nobody => /\ nodes[s][m] \in Sessions \ expired
                               /\ nodes[s][ServiceNode] = Forever

\* How far a provider has come with its znodes, in the order of Create().
Creating(s, m) == pc[s] = "create" /\ path[s] = m
Visited(s, m) == m \notin todo[s] /\ ~Creating(s, m)
ProviderInv(s) ==
  pc[s] \in Live =>
    /\ session[s] \in Sessions
    /\ todo[s] \subseteq NodesOf(s)
    /\ pc[s] = "serve" => todo[s] = {}
    /\ pc[s] = "create" => /\ path[s] \in NodesOf(s) \ todo[s]
                           /\ path[s] # ServiceNode => ServiceNode \notin todo[s]
    /\ session[s] \notin expired =>
         /\ Visited(s, ServiceNode) => nodes[s][ServiceNode] = Forever
         /\ \A m \in Methods(s) :
              IF Visited(s, m)
              THEN \/ nodes[s][m] = session[s]
                   \/ m \in missed[s] /\ nodes[s][m] # session[s]
              ELSE nodes[s][m] # session[s]

RegistryInv ==
  /\ RegistryTyped
  /\ \A s \in Services : StartInv(s) /\ TreeInv(s) /\ ProviderInv(s)

-----------------------------------------------------------------------------
(* Steps.                                                                  *)

LEMMA ServiceIsNoMethod ==
  ASSUME NEW s \in Services
  PROVE  /\ ServiceNode \notin Methods(s)
         /\ ServiceNode \in NodesOf(s) /\ Methods(s) \subseteq NodesOf(s)
         /\ NodesOf(s) \subseteq Znodes
<1>1. \A c : Letter(c) # ServiceNode
  BY DEF Letter, ServiceNode
<1>2. Methods(s) \subseteq {Login, Register, GetFriendsList}
  BY DEF Methods
<1>3. \A m \in {Login, Register, GetFriendsList} : m # ServiceNode
  BY <1>1 DEF Login, Register, GetFriendsList
<1> QED BY <1>2, <1>3 DEF NodesOf, Znodes

\* Steps that are no business of a service's registration; other sessions may
\* have begun.
LEMMA OthersKeepService ==
  ASSUME RegistryTyped, NEW s \in Services,
         StartInv(s), TreeInv(s), ProviderInv(s),
         lastSession' \in Nat, lastSession' >= lastSession, expired' = expired,
         pc'[s] = pc[s], session'[s] = session[s], todo'[s] = todo[s],
         path'[s] = path[s], missed'[s] = missed[s], nodes'[s] = nodes[s],
         zk'[s] = zk[s] \/ zk'[s] \notin {"connecting", "waiting"}
                        \/ zk[s] \in {"connecting", "waiting"}
  PROVE  StartInv(s)' /\ TreeInv(s)' /\ ProviderInv(s)'
<1>1. \A n \in Sessions : n \in Sessions'
  BY DEF Sessions, RegistryTyped, Forever
<1>2. StartInv(s)'
  BY DEF StartInv
<1>3. TreeInv(s)'
  BY <1>1 DEF TreeInv
<1>4. \A m : Visited(s, m)' <=> Visited(s, m)
  BY DEF Visited, Creating
<1>5. ProviderInv(s)'
  BY <1>1, <1>4 DEF ProviderInv
<1> QED BY <1>2, <1>3, <1>5

\* The end of a provider's process.
LEMMA DiesKeepsService ==
  ASSUME RegistryTyped, NEW s \in Services, TreeInv(s), Dies(s),
         UNCHANGED registryVars
  PROVE  StartInv(s)' /\ TreeInv(s)' /\ ProviderInv(s)'
<1>1. pc'[s] = "down" /\ zk'[s] = "none"
  BY DEF Dies, RegistryTyped
<1>2. TreeInv(s)'
  BY DEF TreeInv, registryVars, Sessions
<1> QED BY <1>1, <1>2 DEF StartInv, ProviderInv, Live

\* Steps that touch one provider and leave ZooKeeper alone.
LEMMA LocalStep ==
  ASSUME RegistryInv, NEW s \in Services, RegistryTyped',
         StartInv(s)' /\ TreeInv(s)' /\ ProviderInv(s)',
         expired' = expired, lastSession' >= lastSession,
         \A t \in Services \ {s} :
           /\ pc'[t] = pc[t] /\ session'[t] = session[t]
           /\ todo'[t] = todo[t] /\ path'[t] = path[t]
           /\ missed'[t] = missed[t] /\ nodes'[t] = nodes[t]
           /\ zk'[t] = zk[t]
  PROVE  RegistryInv'
<1>1. \A t \in Services : StartInv(t)' /\ TreeInv(t)' /\ ProviderInv(t)'
  <2> SUFFICES ASSUME NEW t \in Services
               PROVE  StartInv(t)' /\ TreeInv(t)' /\ ProviderInv(t)'
    OBVIOUS
  <2>1. CASE t = s
    BY <2>1
  <2>2. CASE t # s
    <3>1. lastSession' \in Nat
      BY DEF RegistryTyped
    <3> QED BY <2>2, <3>1, OthersKeepService DEF RegistryInv
  <2> QED BY <2>1, <2>2
<1> QED BY <1>1 DEF RegistryInv

\* A provider that starts has no session yet and no path.
LEMMA LaunchKeepsInv ==
  ASSUME RegistryInv, NEW s \in Services, Launch(s)
  PROVE  RegistryInv'
<1> USE DEF RegistryInv
<1>1. /\ pc[s] = "down" /\ pc' = [pc EXCEPT ![s] = "zookeeper"]
      /\ zk' = [zk EXCEPT ![s] = "connecting"]
      /\ todo' = [todo EXCEPT ![s] = NodesOf(s)]
      /\ missed' = [missed EXCEPT ![s] = {}]
      /\ UNCHANGED <<session, path, nodes, lastSession, expired>>
  BY DEF Launch, registryVars
<1>2. RegistryTyped'
  BY <1>1, ServiceIsNoMethod DEF RegistryTyped, Sessions
<1>3. TreeInv(s)'
  BY <1>1 DEF TreeInv, Sessions
<1>4. StartInv(s)' /\ ProviderInv(s)'
  BY <1>1 DEF RegistryTyped, StartInv, ProviderInv, Live
<1>5. \A t \in Services \ {s} :
        /\ pc'[t] = pc[t] /\ session'[t] = session[t]
        /\ todo'[t] = todo[t] /\ path'[t] = path[t]
        /\ missed'[t] = missed[t] /\ nodes'[t] = nodes[t] /\ zk'[t] = zk[t]
  BY <1>1 DEF RegistryTyped
<1>6. lastSession' >= lastSession
  BY <1>1 DEF RegistryTyped
<1> QED BY <1>1, <1>2, <1>3, <1>4, <1>5, <1>6, LocalStep

\* A session that begins is new: no znode has it as its owner.
LEMMA SetContextKeepsInv ==
  ASSUME RegistryInv, NEW s \in Services, SetContext(s)
  PROVE  RegistryInv'
<1> USE DEF RegistryInv
<1>1. /\ zk[s] = "connecting" /\ zk' = [zk EXCEPT ![s] = "waiting"]
      /\ UNCHANGED <<pc, session, todo, path, missed, nodes, lastSession,
                     expired>>
  BY DEF SetContext, registryVars
<1>2. RegistryTyped' /\ lastSession' \in Nat /\ lastSession' >= lastSession
  BY <1>1 DEF RegistryTyped, Sessions
<1>3. \A t \in Services : zk'[t] = zk[t] \/ zk[t] \in {"connecting", "waiting"}
  BY <1>1 DEF RegistryTyped
<1>4. \A t \in Services : StartInv(t)' /\ TreeInv(t)' /\ ProviderInv(t)'
  BY <1>1, <1>2, <1>3, OthersKeepService
<1> QED BY <1>2, <1>4

\* A provider that dies, or whose session expires, keeps the types.
LEMMA DiesTyped ==
  ASSUME RegistryTyped, NEW s \in Services, Dies(s),
         UNCHANGED <<session, path, missed, registryVars>>
  PROVE  RegistryTyped'
BY DEF RegistryTyped, Dies, registryVars, Sessions

\* A session that ends takes its ephemeral znodes with it.
LEMMA DeathKeepsInv ==
  ASSUME RegistryInv, NEW s \in Services, Dies(s),
         UNCHANGED <<session, path, missed, registryVars>>
  PROVE  RegistryInv'
<1>1. RegistryTyped'
  BY DiesTyped DEF RegistryInv
<1>2. StartInv(s)' /\ TreeInv(s)' /\ ProviderInv(s)'
  BY DiesKeepsService DEF RegistryInv
<1>3. \A t \in Services \ {s} :
        /\ pc'[t] = pc[t] /\ session'[t] = session[t]
        /\ todo'[t] = todo[t] /\ path'[t] = path[t]
        /\ missed'[t] = missed[t] /\ nodes'[t] = nodes[t] /\ zk'[t] = zk[t]
  BY DEF RegistryInv, RegistryTyped, Dies, registryVars
<1>4. expired' = expired /\ lastSession' >= lastSession
  BY DEF RegistryInv, RegistryTyped, registryVars
<1> QED BY <1>1, <1>2, <1>3, <1>4, LocalStep

\* A new session owns nothing yet.
LEMMA ConnectedKeepsInv ==
  ASSUME RegistryInv, NEW s \in Services, Connected(s)
  PROVE  RegistryInv'
<1> USE DEF RegistryInv
<1>1. CASE Dies(s) /\ UNCHANGED <<session, path, missed, registryVars>>
  BY <1>1, DeathKeepsInv
<1>2. CASE /\ zk[s] = "waiting" /\ zk' = [zk EXCEPT ![s] = "ready"]
           /\ pc' = [pc EXCEPT ![s] = "exists"]
           /\ lastSession' = lastSession + 1
           /\ session' = [session EXCEPT ![s] = lastSession']
           /\ UNCHANGED <<todo, path, missed, nodes, expired>>
  <2>1. lastSession \in Nat \ {0} /\ Sessions \subseteq Sessions'
        /\ lastSession' \in Sessions' /\ lastSession' \notin Sessions
        /\ Sessions \subseteq Nat
    <3>1. lastSession \in Nat \ {0} /\ lastSession' = lastSession + 1
      BY <1>2 DEF RegistryTyped
    <3>2. Sessions = 2..lastSession /\ Sessions' = 2..lastSession'
      BY DEF Sessions, Forever
    <3> QED BY <3>1, <3>2
  <2>2. RegistryTyped'
    BY <1>2, <2>1 DEF RegistryTyped
  <2>3. todo[s] = NodesOf(s)
    BY <1>2 DEF StartInv
  <2>4. TreeInv(s)'
    BY <1>2, <2>1 DEF TreeInv
  <2>5. /\ pc'[s] = "exists" /\ zk'[s] = "ready"
        /\ session'[s] = lastSession' /\ todo'[s] = NodesOf(s)
    BY <1>2, <2>3 DEF RegistryTyped
  <2>6. \A m \in NodesOf(s) : ~Visited(s, m)'
    BY <2>5 DEF Visited
  <2>7. ASSUME NEW m \in Methods(s)
        PROVE  nodes'[s][m] # session'[s]
    <3>1. nodes[s][m] = Nobody \/ nodes[s][m] \in Sessions
      BY DEF TreeInv
    <3>2. lastSession' # Nobody
      BY <1>2, <2>1 DEF Nobody
    <3> QED BY <1>2, <2>1, <2>5, <3>1, <3>2
  <2>8. ProviderInv(s)'
    BY <2>1, <2>5, <2>6, <2>7, ServiceIsNoMethod DEF ProviderInv
  <2>9. StartInv(s)'
    BY <2>5 DEF StartInv
  <2>10. \A t \in Services \ {s} :
        /\ pc'[t] = pc[t] /\ session'[t] = session[t]
        /\ todo'[t] = todo[t] /\ path'[t] = path[t]
        /\ missed'[t] = missed[t] /\ nodes'[t] = nodes[t] /\ zk'[t] = zk[t]
    BY <1>2 DEF RegistryTyped
  <2>11. lastSession' >= lastSession
    BY <1>2, <2>1
  <2> QED BY <1>2, <2>2, <2>4, <2>8, <2>9, <2>10, <2>11, LocalStep
<1> QED BY <1>1, <1>2 DEF Connected

\* The znode that is looked for is missed, or will be created.
LEMMA ExistsKeepsInv ==
  ASSUME RegistryInv, NEW s \in Services, Exists(s)
  PROVE  RegistryInv'
<1> USE DEF RegistryInv
<1>1. PICK m \in todo[s] :
        /\ m # ServiceNode => ServiceNode \notin todo[s]
        /\ todo' = [todo EXCEPT ![s] = @ \ {m}]
        /\ path' = [path EXCEPT ![s] = m]
        /\ IF session[s] \notin expired /\ nodes[s][m] = Nobody
           THEN pc' = [pc EXCEPT ![s] = "create"] /\ UNCHANGED missed
           ELSE missed' = [missed EXCEPT ![s] = @ \cup {m}] /\ UNCHANGED pc
  BY DEF Exists
<1>2. /\ pc[s] = "exists" /\ UNCHANGED <<zk, session, nodes, lastSession, expired>>
  BY DEF Exists, registryVars
<1>3. RegistryTyped'
  BY <1>1, <1>2 DEF RegistryTyped, Sessions
<1>4. TreeInv(s)'
  BY <1>2 DEF TreeInv, Sessions
<1>5. /\ todo'[s] = todo[s] \ {m} /\ path'[s] = m
      /\ IF session[s] \notin expired /\ nodes[s][m] = Nobody
         THEN pc'[s] = "create" /\ missed'[s] = missed[s]
         ELSE missed'[s] = missed[s] \cup {m} /\ pc'[s] = "exists"
  BY <1>1, <1>2 DEF RegistryTyped
<1>6. StartInv(s)'
  BY <1>2, <1>5 DEF StartInv
<1>7. ProviderInv(s)'
  <2>1. /\ pc[s] \in Live /\ pc'[s] \in {"exists", "create"}
        /\ m \in NodesOf(s)
        /\ session'[s] \in Sessions' /\ todo'[s] \subseteq NodesOf(s)
    BY <1>1, <1>2, <1>5 DEF ProviderInv, Live, Sessions
  <2>2. pc'[s] = "create" =>
          /\ path'[s] \in NodesOf(s) \ todo'[s]
          /\ path'[s] # ServiceNode => ServiceNode \notin todo'[s]
    BY <1>1, <1>5, <2>1
  <2>3. ASSUME session'[s] \notin expired', NEW n \in NodesOf(s)
        PROVE  /\ ~Creating(s, n)
               /\ n # m => (Visited(s, n)' <=> Visited(s, n))
               /\ ~Visited(s, m)
               /\ Visited(s, m)' <=> nodes[s][m] # Nobody
    BY <1>1, <1>2, <1>5, <2>3 DEF Visited, Creating
  <2>4. ASSUME session'[s] \notin expired', Visited(s, ServiceNode)'
        PROVE  nodes'[s][ServiceNode] = Forever
    <3>1. CASE m = ServiceNode
      BY <1>2, <2>1, <2>3, <2>4, <3>1 DEF TreeInv
    <3>2. CASE m # ServiceNode
      BY <1>2, <2>1, <2>3, <2>4, <3>2, ServiceIsNoMethod DEF ProviderInv
    <3> QED BY <3>1, <3>2
  <2>5. ASSUME session'[s] \notin expired', NEW n \in Methods(s)
        PROVE  IF Visited(s, n)'
               THEN \/ nodes'[s][n] = session'[s]
                    \/ n \in missed'[s] /\ nodes'[s][n] # session'[s]
               ELSE nodes'[s][n] # session'[s]
    <3>1. /\ n \in NodesOf(s) /\ session[s] \notin expired
          /\ nodes'[s][n] = nodes[s][n] /\ session'[s] = session[s]
          /\ missed[s] \subseteq missed'[s]
      BY <1>2, <1>5, <2>5, ServiceIsNoMethod
    <3>2. IF Visited(s, n)
          THEN \/ nodes[s][n] = session[s]
               \/ n \in missed[s] /\ nodes[s][n] # session[s]
          ELSE nodes[s][n] # session[s]
      BY <2>1, <3>1 DEF ProviderInv
    <3>3. CASE n = m
      <4>1. nodes[s][m] # session[s]
        BY <2>3, <2>5, <3>1, <3>2, <3>3
      <4>2. Visited(s, m)' => m \in missed'[s]
        BY <1>5, <2>3, <2>5, <3>1, <3>3
      <4> QED BY <3>1, <3>3, <4>1, <4>2
    <3>4. CASE n # m
      BY <2>3, <2>5, <3>1, <3>2, <3>4
    <3> QED BY <3>3, <3>4
  <2> QED BY <2>1, <2>2, <2>4, <2>5 DEF ProviderInv, Live
<1>8. \A t \in Services \ {s} :
        /\ pc'[t] = pc[t] /\ session'[t] = session[t]
        /\ todo'[t] = todo[t] /\ path'[t] = path[t]
        /\ missed'[t] = missed[t] /\ nodes'[t] = nodes[t] /\ zk'[t] = zk[t]
  BY <1>1, <1>2 DEF RegistryTyped
<1>9. expired' = expired /\ lastSession' >= lastSession
  BY <1>2 DEF RegistryTyped
<1> QED BY <1>3, <1>4, <1>6, <1>7, <1>8, <1>9, LocalStep

\* A znode that is created belongs to the session of the path it is for.
LEMMA CreateKeepsInv ==
  ASSUME RegistryInv, NEW s \in Services, Create(s)
  PROVE  RegistryInv'
<1> USE DEF RegistryInv
<1>1. CASE session[s] \in expired
  BY <1>1, DeathKeepsInv DEF Create, registryVars
<1>2. CASE session[s] \notin expired
  <2>1. /\ pc[s] = "create"
        /\ nodes' = [nodes EXCEPT ![s][path[s]] = Owner(s, path[s])]
        /\ pc' = [pc EXCEPT ![s] = "exists"]
        /\ UNCHANGED <<zk, todo, session, path, missed, lastSession, expired>>
    BY <1>2 DEF Create
  <2>2. /\ session[s] \in Sessions /\ todo[s] \subseteq NodesOf(s)
        /\ path[s] \in NodesOf(s) \ todo[s]
        /\ path[s] # ServiceNode => ServiceNode \notin todo[s]
    BY <2>1 DEF ProviderInv, Live
  <2>3. RegistryTyped'
    <3>1. nodes' = [t \in Services |-> [m \in NodesOf(t) |-> nodes'[t][m]]]
      <4> DEFINE n == [nodes EXCEPT ![s][path[s]] = Owner(s, path[s])]
      <4>1. nodes = [t \in Services |-> [m \in NodesOf(t) |-> nodes[t][m]]]
        BY DEF RegistryTyped
      <4>2. ASSUME NEW t \in Services
            PROVE  n[t] = [m \in NodesOf(t) |-> n[t][m]]
        <5>1. nodes[t] = [m \in NodesOf(t) |-> nodes[t][m]]
          BY <4>1
        <5>2. CASE t = s
          <6>1. n[t] = [nodes[t] EXCEPT ![path[s]] = Owner(s, path[s])]
            BY <4>1, <5>2
          <6> QED BY <5>1, <6>1
        <5>3. CASE t # s
          <6>1. n[t] = nodes[t]
            BY <4>1, <5>3
          <6> QED BY <5>1, <6>1
        <5> QED BY <5>2, <5>3
      <4>3. n = [t \in Services |-> n[t]]
        BY <4>1
      <4>4. nodes' = n
        BY <2>1
      <4> HIDE DEF n
      <4> QED BY <4>2, <4>3, <4>4
    <3> QED BY <2>1, <3>1 DEF RegistryTyped, Sessions
  <2>4. /\ pc'[s] = "exists" /\ session'[s] = session[s]
        /\ nodes'[s][path[s]] = Owner(s, path[s])
        /\ \A m \in NodesOf(s) \ {path[s]} : nodes'[s][m] = nodes[s][m]
    BY <2>1, <2>2 DEF RegistryTyped
  <2>5. path[s] # ServiceNode => nodes[s][ServiceNode] = Forever
    BY <1>2, <2>1, <2>2 DEF ProviderInv, Live, Visited, Creating
  <2>6. TreeInv(s)'
    <3>1. nodes'[s][ServiceNode] \in {Nobody, Forever}
      BY <2>4, ServiceIsNoMethod DEF TreeInv, Owner
    <3>2. nodes[s][ServiceNode] = Forever \/ path[s] = ServiceNode
            => nodes'[s][ServiceNode] = Forever
      BY <2>4, ServiceIsNoMethod DEF Owner
    <3>3. ASSUME NEW m \in Methods(s), nodes'[s][m] # Nobody
          PROVE  /\ nodes'[s][m] \in Sessions' \ expired'
                 /\ nodes'[s][ServiceNode] = Forever
      <4>1. m # ServiceNode /\ m \in NodesOf(s)
        BY <3>3, ServiceIsNoMethod
      <4>2. CASE m = path[s]
        BY <1>2, <2>1, <2>2, <2>4, <2>5, <3>2, <4>1, <4>2 DEF Owner, Sessions
      <4>3. CASE m # path[s]
        BY <2>1, <2>4, <3>2, <3>3, <4>1, <4>3 DEF TreeInv, Sessions
      <4> QED BY <4>2, <4>3
    <3> QED BY <3>1, <3>3 DEF TreeInv
  <2>7. StartInv(s)'
    BY <2>1, <2>4 DEF StartInv
  <2>8. ASSUME NEW m \in NodesOf(s)
        PROVE  /\ m # path[s] => (Visited(s, m)' <=> Visited(s, m))
               /\ m = path[s] => Visited(s, m)'
    BY <2>1, <2>2, <2>4 DEF Visited, Creating
  <2>9. Visited(s, ServiceNode)' => nodes'[s][ServiceNode] = Forever
    <3>1. CASE path[s] = ServiceNode
      BY <2>4, <3>1 DEF Owner
    <3>2. CASE path[s] # ServiceNode
      BY <2>4, <2>5, <3>2, ServiceIsNoMethod
    <3> QED BY <3>1, <3>2
  <2>10. ASSUME NEW m \in Methods(s)
         PROVE  IF Visited(s, m)'
                THEN \/ nodes'[s][m] = session'[s]
                     \/ m \in missed'[s] /\ nodes'[s][m] # session'[s]
                ELSE nodes'[s][m] # session'[s]
    <3>1. m # ServiceNode /\ m \in NodesOf(s)
      BY ServiceIsNoMethod
    <3>2. CASE m = path[s]
      BY <2>4, <2>8, <3>1, <3>2 DEF Owner
    <3>3. CASE m # path[s]
      <4>1. IF Visited(s, m)
            THEN \/ nodes[s][m] = session[s]
                 \/ m \in missed[s] /\ nodes[s][m] # session[s]
            ELSE nodes[s][m] # session[s]
        BY <1>2, <2>1 DEF ProviderInv, Live
      <4> QED BY <2>1, <2>4, <2>8, <3>1, <3>3, <4>1
    <3> QED BY <3>2, <3>3
  <2>11. session'[s] \in Sessions' /\ todo'[s] \subseteq NodesOf(s)
    BY <2>1, <2>2 DEF Sessions
  <2>12. ProviderInv(s)'
    BY <2>4, <2>9, <2>10, <2>11 DEF ProviderInv
  <2>13. \A t \in Services \ {s} :
        /\ pc'[t] = pc[t] /\ session'[t] = session[t]
        /\ todo'[t] = todo[t] /\ path'[t] = path[t]
        /\ missed'[t] = missed[t] /\ nodes'[t] = nodes[t] /\ zk'[t] = zk[t]
    BY <2>1 DEF RegistryTyped
  <2>14. lastSession' >= lastSession
    BY <2>1 DEF RegistryTyped
  <2> QED BY <2>1, <2>3, <2>6, <2>7, <2>12, <2>13, <2>14, LocalStep
<1> QED BY <1>1, <1>2

\* A provider that serves has visited every path it registers.
LEMMA ServeKeepsInv ==
  ASSUME RegistryInv, NEW s \in Services, Serve(s)
  PROVE  RegistryInv'
<1> USE DEF RegistryInv
<1>1. /\ pc[s] = "exists" /\ todo[s] = {} /\ pc' = [pc EXCEPT ![s] = "serve"]
      /\ UNCHANGED <<zk, session, todo, path, missed, nodes, lastSession,
                     expired>>
  BY DEF Serve, registryVars
<1>2. RegistryTyped' /\ lastSession' >= lastSession
  BY <1>1 DEF RegistryTyped, Sessions
<1>3. pc'[s] = "serve"
  BY <1>1 DEF RegistryTyped
<1>4. StartInv(s)' /\ TreeInv(s)'
  BY <1>1, <1>3 DEF StartInv, TreeInv, Sessions
<1>5. \A m : Visited(s, m)' <=> Visited(s, m)
  BY <1>1, <1>3 DEF Visited, Creating
<1>6. ProviderInv(s)'
  BY <1>1, <1>3, <1>5 DEF ProviderInv, Live, Sessions
<1>7. \A t \in Services \ {s} :
        /\ pc'[t] = pc[t] /\ session'[t] = session[t]
        /\ todo'[t] = todo[t] /\ path'[t] = path[t]
        /\ missed'[t] = missed[t] /\ nodes'[t] = nodes[t] /\ zk'[t] = zk[t]
  BY <1>1 DEF RegistryTyped
<1> QED BY <1>1, <1>2, <1>4, <1>6, <1>7, LocalStep

\* An expired session takes its znodes with it, and nobody else's.
LEMMA ExpireKeepsInv ==
  ASSUME RegistryInv, NEW id \in Sessions, Expire(id)
  PROVE  RegistryInv'
<1> USE DEF RegistryInv
<1>1. /\ expired' = expired \cup {id}
      /\ nodes' = [s \in Services |->
                    [m \in NodesOf(s) |-> IF nodes[s][m] = id THEN Nobody
                                          ELSE nodes[s][m]]]
      /\ UNCHANGED <<pc, zk, session, todo, path, missed, lastSession>>
  BY DEF Expire, providerVars
<1>2. RegistryTyped'
  <2>1. nodes' = [s \in Services |-> [m \in NodesOf(s) |-> nodes'[s][m]]]
    BY <1>1
  <2> QED BY <1>1, <2>1 DEF RegistryTyped, Sessions
<1>3. id # Forever /\ id # Nobody
  BY DEF Sessions, RegistryTyped, Forever, Nobody
<1>4. ASSUME NEW s \in Services
      PROVE  StartInv(s)' /\ TreeInv(s)' /\ ProviderInv(s)'
  <2>1. \A m \in NodesOf(s) : nodes'[s][m] = IF nodes[s][m] = id THEN Nobody
                                             ELSE nodes[s][m]
    BY <1>1
  <2>2. StartInv(s)'
    BY <1>1 DEF StartInv
  <2>3. nodes'[s][ServiceNode] = nodes[s][ServiceNode]
    BY <1>3, <2>1, ServiceIsNoMethod DEF TreeInv
  <2>4. TreeInv(s)'
    <3>1. ASSUME NEW m \in Methods(s), nodes'[s][m] # Nobody
          PROVE  /\ nodes'[s][m] \in Sessions' \ expired'
                 /\ nodes'[s][ServiceNode] = Forever
      BY <1>1, <2>1, <2>3, <3>1, ServiceIsNoMethod DEF TreeInv, Sessions
    <3> QED BY <2>3, <3>1 DEF TreeInv
  <2>5. \A m : Visited(s, m)' <=> Visited(s, m)
    BY <1>1 DEF Visited, Creating
  <2>6. ASSUME session[s] # id, pc[s] \in Live, NEW m \in Methods(s)
        PROVE  /\ nodes[s][m] = session[s] => nodes'[s][m] = session[s]
               /\ nodes[s][m] # session[s] => nodes'[s][m] # session[s]
    <3>1. session[s] # Nobody /\ m \in NodesOf(s)
      BY <2>6, ServiceIsNoMethod
         DEF ProviderInv, Sessions, RegistryTyped, Forever, Nobody
    <3> QED BY <2>1, <2>6, <3>1
  <2>7. ProviderInv(s)'
    <3>1. CASE pc[s] \in Live /\ session'[s] \notin expired'
      <4>1. session[s] \notin expired /\ session[s] # id
        BY <1>1, <3>1
      <4>2. ASSUME NEW m \in Methods(s)
            PROVE  IF Visited(s, m)'
                   THEN \/ nodes'[s][m] = session'[s]
                        \/ m \in missed'[s] /\ nodes'[s][m] # session'[s]
                   ELSE nodes'[s][m] # session'[s]
        <5>1. IF Visited(s, m)
              THEN \/ nodes[s][m] = session[s]
                   \/ m \in missed[s] /\ nodes[s][m] # session[s]
              ELSE nodes[s][m] # session[s]
          BY <3>1, <4>1 DEF ProviderInv
        <5> QED BY <1>1, <2>5, <2>6, <3>1, <4>1, <5>1
      <4>3. Visited(s, ServiceNode)' => nodes'[s][ServiceNode] = Forever
        BY <2>3, <2>5, <3>1, <4>1 DEF ProviderInv
      <4> QED BY <1>1, <3>1, <4>2, <4>3 DEF ProviderInv, Sessions
    <3>2. CASE pc[s] \in Live /\ session'[s] \in expired'
      BY <1>1, <3>2 DEF ProviderInv, Sessions
    <3>3. CASE pc[s] \notin Live
      BY <1>1, <3>3 DEF ProviderInv
    <3> QED BY <3>1, <3>2, <3>3
  <2> QED BY <2>2, <2>4, <2>7
<1> QED BY <1>2, <1>4

\* Every step keeps the invariant of the registry.
LEMMA NextKeepsInv ==
  ASSUME RegistryInv, [Next]_vars
  PROVE  RegistryInv'
<1>1. ASSUME NEW s \in Services, Launch(s)
      PROVE  RegistryInv'
  BY <1>1, LaunchKeepsInv
<1>2. ASSUME NEW s \in Services, Crash(s)
      PROVE  RegistryInv'
  BY <1>2, DeathKeepsInv DEF Crash
<1>3. ASSUME UNCHANGED <<providerVars, registryVars>>
      PROVE  RegistryInv'
  <2>1. \A s \in Services : ProviderInv(s)' <=> ProviderInv(s)
    BY <1>3 DEF ProviderInv, Visited, Creating, Sessions, providerVars,
                registryVars
  <2> QED BY <1>3, <2>1 DEF RegistryInv, RegistryTyped, StartInv, TreeInv,
                            Sessions, providerVars, registryVars
<1>4. ASSUME NEW s \in Services, Deliver(s)
      PROVE  RegistryInv'
  <2>1. /\ Dies(s) \/ UNCHANGED <<pc, zk, todo>>
        /\ UNCHANGED <<session, path, missed, registryVars>>
    BY <1>4 DEF Deliver
  <2> QED BY <2>1, <1>3, DeathKeepsInv DEF providerVars
<1>0. ASSUME NEW s \in Services, ReadRest(s)
      PROVE  RegistryInv'
  <2>1. /\ Dies(s) \/ UNCHANGED <<pc, zk, todo>>
        /\ UNCHANGED <<session, path, missed, registryVars>>
    BY <1>0 DEF ReadRest
  <2> QED BY <2>1, <1>3, DeathKeepsInv DEF providerVars
<1>5. ASSUME NEW s \in Services, Provider(s)
      PROVE  RegistryInv'
  BY <1>4, <1>5, SetContextKeepsInv, ConnectedKeepsInv, ExistsKeepsInv,
     CreateKeepsInv, ServeKeepsInv DEF Provider
<1>6. ASSUME NEW s \in Services, Caller(s)
      PROVE  RegistryInv'
  BY <1>3, <1>6 DEF Caller, Begin, CallerSetContext, CallerConnected, Lookup,
                    Send, Receive, Reset
<1>7. ASSUME NEW id \in (Forever + 1)..lastSession, Expire(id)
      PROVE  RegistryInv'
  BY <1>7, ExpireKeepsInv DEF Sessions
<1>8. CASE UNCHANGED vars
  BY <1>3, <1>8 DEF vars
<1> QED BY <1>0, <1>1, <1>2, <1>5, <1>6, <1>7, <1>8 DEF Next, Terminated

\* Nothing is registered when the programs start.
LEMMA InitRegistry == Init => RegistryInv
<1> SUFFICES ASSUME Init PROVE RegistryInv
  OBVIOUS
<1>1. \A s \in Services : pc[s] \notin Live /\ pc[s] # "zookeeper" /\ zk[s] = "none"
  BY DEF Init, Live
<1>2. RegistryTyped
  BY DEF Init, RegistryTyped, Znodes, Sessions, Nobody, Forever
<1>3. \A s \in Services : TreeInv(s)
  BY ServiceIsNoMethod DEF Init, TreeInv
<1> QED BY <1>1, <1>2, <1>3 DEF RegistryInv, StartInv, ProviderInv

\* A method is registered as long as its provider's session lives and no
\* longer, through crashes, restarts and sessions that expire beside a live
\* provider (rpcprovider.cc:58-71, zookeeperutil.cc:40-72).
THEOREM RegistryIsTrue == Spec => []RegistryFollowsSessions
<1>1. Init => RegistryInv
  BY InitRegistry
<1>2. RegistryInv /\ [Next]_vars => RegistryInv'
  BY NextKeepsInv
<1>3. RegistryInv => RegistryFollowsSessions
  <2> SUFFICES ASSUME RegistryInv, NEW s \in Services, NEW m \in Methods(s)
               PROVE  /\ nodes[s][m] # Nobody =>
                           /\ nodes[s][m] \in Sessions \ expired
                           /\ nodes[s][ServiceNode] = Forever
                      /\ pc[s] = "serve" /\ session[s] \notin expired =>
                           \/ nodes[s][m] = session[s]
                           \/ m \in missed[s] /\ nodes[s][m] # session[s]
    BY DEF RegistryFollowsSessions
  <2> QED BY DEF RegistryInv, TreeInv, ProviderInv, Live, Visited, Creating
<1> QED BY <1>1, <1>2, <1>3, PTL DEF Spec

-----------------------------------------------------------------------------
(* The messages of the example programs.                                   *)

\* At most n bytes, and none of them zero.
Clean(b, n) ==
  b \in Bytes /\ Len(b) <= n /\ \A i \in 1..Len(b) : b[i] # 0

\* The empty string, and a letter.
LEMMA CleanBytes ==
  /\ Clean(<< >>, 0)
  /\ \A c \in 1..255 : Clean(Letter(c), 1)
<1>1. Clean(<< >>, 0)
  BY EmptyBytes DEF Clean, Bytes
<1>2. ASSUME NEW c \in 1..255 PROVE Clean(<<c>>, 1)
  <2>1. c \in Byte
    BY ByteIs
  <2>2. <<c>> \in Seq(Byte) /\ Len(<<c>>) = 1 /\ <<c>>[1] = c
    BY <2>1
  <2> QED BY <2>2 DEF Clean, Bytes
<1> QED BY <1>1, <1>2 DEF Letter

\* Two of them, one behind the other.
LEMMA CleanJoined ==
  ASSUME NEW n \in Nat, NEW m \in Nat, NEW s, NEW t, Clean(s, n), Clean(t, m)
  PROVE  Clean(s \o t, n + m)
<1>1. s \in Seq(Byte) /\ t \in Seq(Byte)
  BY DEF Clean, Bytes
<1>2. /\ s \o t \in Seq(Byte) /\ Len(s \o t) = Len(s) + Len(t)
      /\ Len(s) \in Nat /\ Len(t) \in Nat
      /\ \A i \in 1..Len(s) : (s \o t)[i] = s[i]
      /\ \A i \in 1..Len(t) : (s \o t)[Len(s) + i] = t[i]
  BY <1>1, Joined
<1>3. ASSUME NEW i \in 1..Len(s \o t) PROVE (s \o t)[i] # 0
  <2>1. CASE i \in 1..Len(s)
    BY <1>2, <2>1 DEF Clean
  <2>2. CASE i \notin 1..Len(s)
    <3>1. PICK j \in 1..Len(t) : i = Len(s) + j
      <4>1. i - Len(s) \in 1..Len(t) /\ i = Len(s) + (i - Len(s))
        BY <1>2, <2>2
      <4> QED BY <4>1
    <3> QED BY <1>2, <3>1 DEF Clean
  <2> QED BY <2>1, <2>2
<1>4. Len(s) + Len(t) <= n + m
  BY <1>2 DEF Clean
<1> QED BY <1>2, <1>3, <1>4 DEF Clean, Bytes

\* A number that fits two bytes takes no more.
LEMMA CleanVarint ==
  ASSUME NEW n \in Nat, n > 0, n \div 128 < 128
  PROVE  Clean(Varint[n], 2) /\ (n < 128 => Clean(Varint[n], 1))
<1>0. ASSUME NEW k \in Nat
      PROVE  Varint[k] = IF k < 128 THEN <<k>>
                         ELSE <<128 + (k % 128)>> \o Varint[k \div 128]
  BY VarintDef, Zenon
<1>1. /\ Varint[n] \in Bytes
      /\ \A i \in 1..Len(Varint[n]) : Varint[n][i] # 0
  BY VarintIs
<1>2. CASE n < 128
  <2>1. Varint[n] = <<n>>
    BY <1>0, <1>2
  <2> QED BY <1>1, <2>1 DEF Clean
<1>3. CASE ~(n < 128)
  <2>1. n \div 128 \in Nat /\ n \div 128 < 128 /\ n % 128 \in Nat
    BY <1>3
  <2>2. Varint[n] = <<128 + (n % 128)>> \o Varint[n \div 128]
    BY <1>0, <1>3
  <2>3. Varint[n \div 128] = <<n \div 128>>
    BY <1>0, <2>1
  <2>4. /\ <<128 + (n % 128)>> \in Seq(Nat) /\ <<n \div 128>> \in Seq(Nat)
        /\ Len(<<128 + (n % 128)>>) = 1 /\ Len(<<n \div 128>>) = 1
    BY <2>1
  <2>5. Len(Varint[n]) = 2
    BY <2>2, <2>3, <2>4, Joined
  <2> QED BY <1>1, <1>3, <2>5 DEF Clean
<1> QED BY <1>2, <1>3

\* The fields of a message: a string of one letter, a number.
LEMMA CleanFields ==
  ASSUME NEW tag \in Tags
  PROVE  /\ \A c : Clean(c, 1) => Clean(BytesField(tag, c), 3)
         /\ \A n \in Nat : n \div 128 < 128 => Clean(VarintField(tag, n), 3)
         /\ \A n \in Nat : n < 128 => Clean(VarintField(tag, n), 2)
<1>0. Clean(<<tag>>, 1) /\ Clean(<< >>, 2) /\ Clean(<< >>, 3)
  <2>1. tag \in 1..255 /\ Letter(tag) = <<tag>>
    BY DEF Tags, Letter
  <2>2. Clean(Letter(tag), 1)
    BY <2>1, CleanBytes
  <2>3. Clean(<< >>, 2) /\ Clean(<< >>, 3)
    BY EmptyBytes DEF Clean, Bytes
  <2> QED BY <2>1, <2>2, <2>3
<1>1. ASSUME NEW c, Clean(c, 1) PROVE Clean(BytesField(tag, c), 3)
  <2>1. CASE c = << >>
    BY <1>0, <2>1 DEF BytesField
  <2>2. CASE c # << >>
    <3>1. Len(c) = 1
      <4>1. c \in Seq(Byte) /\ Len(c) <= 1
        BY <1>1 DEF Clean, Bytes
      <4>2. Len(c) > 0 /\ Len(c) \in Nat
        BY <2>2, <4>1, EmptyBytes, LenProperties
      <4> QED BY <4>1, <4>2
    <3>2. Clean(Varint[1], 1)
      <4>1. 1 \in Nat /\ 1 > 0 /\ 1 \div 128 < 128 /\ 1 < 128
        OBVIOUS
      <4> QED BY <4>1, CleanVarint
    <3>3. BytesField(tag, c) = <<tag>> \o Varint[1] \o c
      BY <2>2, <3>1 DEF BytesField
    <3>4. Clean(<<tag>> \o Varint[1], 1 + 1)
      BY <1>0, <3>2, CleanJoined
    <3>5. Clean(<<tag>> \o Varint[1], 2)
      BY <3>4
    <3>6. Clean((<<tag>> \o Varint[1]) \o c, 2 + 1)
      BY <1>1, <3>5, CleanJoined
    <3> QED BY <3>3, <3>6
  <2> QED BY <2>1, <2>2
<1>2. ASSUME NEW n \in Nat, n \div 128 < 128
      PROVE  /\ Clean(VarintField(tag, n), 3)
             /\ n < 128 => Clean(VarintField(tag, n), 2)
  <2>1. CASE n = 0
    BY <1>0, <2>1 DEF VarintField
  <2>2. CASE n # 0
    <3>1. n > 0
      BY <2>2
    <3>2. VarintField(tag, n) = <<tag>> \o Varint[n]
      BY <2>2 DEF VarintField
    <3>3. Clean(Varint[n], 2) /\ (n < 128 => Clean(Varint[n], 1))
      BY <1>2, <3>1, CleanVarint
    <3>4. Clean(<<tag>> \o Varint[n], 1 + 2)
      BY <1>0, <3>3, CleanJoined
    <3>5. n < 128 => Clean(<<tag>> \o Varint[n], 1 + 1)
      BY <1>0, <3>3, CleanJoined
    <3> QED BY <3>2, <3>4, <3>5
  <2> QED BY <2>1, <2>2
<1>3. \A n \in Nat : n < 128 => n \div 128 < 128
  OBVIOUS
<1> QED BY <1>1, <1>2, <1>3

\* A request of which fields may be missing.
Partly(r, q) ==
  /\ DOMAIN r = DOMAIN q
  /\ \A f \in DOMAIN q : r[f] = q[f] \/ IsDefault(f, r[f])

ReadsPart(p, q) == p = << >> \/ \E r : p = <<r>> /\ Partly(r, q)

\* The arguments of a call are read as they were written; cut short, they
\* cannot be parsed, or fields are missing.
ArgsAreRead(s, c) ==
  /\ c.method \in Methods(s) /\ Clean(c.args, 9)
  /\ ParseRequest(c.method, c.args) = <<c.request>>
  /\ \A k \in 0..Len(c.args) :
       ReadsPart(ParseRequest(c.method, SubSeq(c.args, 1, k)), c.request)

\* Each method has a request of its own.
LEMMA MethodsDiffer ==
  /\ Login # Register /\ Login # GetFriendsList /\ Register # GetFriendsList
  /\ \A b : /\ ParseRequest(Login, b)
                 = U!LoginRequest_InternalParse(U!LoginRequest_Clear, b)
            /\ ParseRequest(Register, b)
                 = U!RegisterRequest_InternalParse(U!RegisterRequest_Clear, b)
            /\ ParseRequest(GetFriendsList, b)
                 = F!GetFriendsListRequest_InternalParse(
                     F!GetFriendsListRequest_Clear, b)
<1>1. Login # Register /\ Login # GetFriendsList /\ Register # GetFriendsList
  BY DEF Login, Register, GetFriendsList, Letter
<1> QED BY <1>1 DEF ParseRequest

\* The arguments of the examples, each as its request reads it.
LEMMA LoginArgsAreRead ==
  ArgsAreRead("user", [method |-> Login, request |-> LoginArgs,
                       args |-> U!LoginRequest_InternalSerialize(LoginArgs)])
<1> DEFINE b == U!LoginRequest_InternalSerialize(LoginArgs)
           P(c) == U!LoginRequest_InternalParse(U!LoginRequest_Clear, c)
<1>1. LoginArgs = [name |-> Letter(120), pwd |-> Letter(57), unknown |-> << >>]
  <2>1. ASSUME NEW e, NEW v, NEW w
        PROVE  /\ [[name |-> e, pwd |-> e, unknown |-> e] EXCEPT !.name = v]
                    = [name |-> v, pwd |-> e, unknown |-> e]
               /\ [[name |-> v, pwd |-> e, unknown |-> e] EXCEPT !.pwd = w]
                    = [name |-> v, pwd |-> w, unknown |-> e]
    OBVIOUS
  <2> QED BY <2>1, Zenon DEF LoginArgs, U!LoginRequest_set_pwd,
                 U!LoginRequest_set_name, U!LoginRequest_Clear
<1>2. Clean(Letter(120), 1) /\ Clean(Letter(57), 1)
  BY CleanBytes
<1>3. LoginArgs \in U!LoginRequest /\ LoginArgs.unknown = << >>
  <2>1. << >> \in Bytes /\ Letter(120) \in Bytes /\ Letter(57) \in Bytes
    BY <1>2, CleanBytes DEF Clean
  <2> QED BY <1>1, <2>1 DEF U!LoginRequest, U!Bytes, U!Byte, Bytes, Byte
<1>4. Clean(b, 9)
  <2>1. b = BytesField(10, Letter(120)) \o BytesField(18, Letter(57)) \o << >>
    BY <1>1, SameFields DEF U!LoginRequest_InternalSerialize
  <2>2. /\ Clean(BytesField(10, Letter(120)), 3)
        /\ Clean(BytesField(18, Letter(57)), 3)
        /\ Clean(<< >>, 0)
    BY <1>2, CleanFields, CleanBytes DEF Tags
  <2>3. Clean(BytesField(10, Letter(120)) \o BytesField(18, Letter(57)), 3 + 3)
    BY <2>2, CleanJoined
  <2>4. Clean(BytesField(10, Letter(120)) \o BytesField(18, Letter(57)) \o << >>,
              (3 + 3) + 0)
    BY <2>2, <2>3, CleanJoined
  <2> QED BY <2>1, <2>4 DEF Clean
<1>5. /\ P(b) = <<LoginArgs>>
      /\ \A k \in 0..Len(b) :
           \/ P(SubSeq(b, 1, k)) = Failure
           \/ \E x1 \in {<< >>, LoginArgs.name}, x2 \in {<< >>, LoginArgs.pwd} :
                P(SubSeq(b, 1, k)) = <<[name |-> x1, pwd |-> x2,
                                        unknown |-> << >>]>>
  BY <1>3, LoginRequestIsRead
<1>6. ASSUME NEW x1 \in {<< >>, LoginArgs.name}, NEW x2 \in {<< >>, LoginArgs.pwd}
      PROVE  Partly([name |-> x1, pwd |-> x2, unknown |-> << >>], LoginArgs)
  BY <1>1 DEF Partly, IsDefault
<1> HIDE DEF b, P
<1>7. \A k \in 0..Len(b) : ReadsPart(P(SubSeq(b, 1, k)), LoginArgs)
  BY <1>5, <1>6 DEF ReadsPart, Failure
<1>8. Login \in Methods("user")
  BY DEF Methods
<1>9. \A c : ParseRequest(Login, c) = P(c)
  BY MethodsDiffer DEF P
<1> DEFINE call == [method |-> Login, request |-> LoginArgs, args |-> b]
<1>10. call.method = Login /\ call.request = LoginArgs /\ call.args = b
  OBVIOUS
<1> HIDE DEF call
<1>11. ArgsAreRead("user", call)
  BY <1>4, <1>5, <1>7, <1>8, <1>9, <1>10 DEF ArgsAreRead
<1> QED BY <1>11 DEF call, b

\* The same of Register.
LEMMA RegisterArgsAreRead ==
  ArgsAreRead("user",
              [method |-> Register, request |-> RegisterArgs,
               args |-> U!RegisterRequest_InternalSerialize(RegisterArgs)])
<1> DEFINE b == U!RegisterRequest_InternalSerialize(RegisterArgs)
           P(c) == U!RegisterRequest_InternalParse(U!RegisterRequest_Clear, c)
<1>1. RegisterArgs = [id |-> 1111, name |-> Letter(113), pwd |-> Letter(48),
                      unknown |-> << >>]
  <2>1. ASSUME NEW e, e = << >>, NEW n, n = 0, NEW i, NEW v, NEW w
        PROVE  U!RegisterRequest_set_pwd(U!RegisterRequest_set_name(
                 U!RegisterRequest_set_id(U!RegisterRequest_Clear, i), v), w)
               = [id |-> i, name |-> v, pwd |-> w, unknown |-> e]
    <3>1. U!RegisterRequest_Clear = [id |-> n, name |-> e, pwd |-> e,
                                     unknown |-> e]
      BY <2>1 DEF U!RegisterRequest_Clear
    <3>2. U!RegisterRequest_set_id([id |-> n, name |-> e, pwd |-> e,
                                    unknown |-> e], i)
            = [id |-> i, name |-> e, pwd |-> e, unknown |-> e]
      BY DEF U!RegisterRequest_set_id
    <3>3. U!RegisterRequest_set_name([id |-> i, name |-> e, pwd |-> e,
                                      unknown |-> e], v)
            = [id |-> i, name |-> v, pwd |-> e, unknown |-> e]
      BY DEF U!RegisterRequest_set_name
    <3>4. U!RegisterRequest_set_pwd([id |-> i, name |-> v, pwd |-> e,
                                     unknown |-> e], w)
            = [id |-> i, name |-> v, pwd |-> w, unknown |-> e]
      BY DEF U!RegisterRequest_set_pwd
    <3> QED BY <3>1, <3>2, <3>3, <3>4
  <2> QED BY <2>1 DEF RegisterArgs
<1>2. Clean(Letter(113), 1) /\ Clean(Letter(48), 1)
  BY CleanBytes
<1>3. RegisterArgs \in U!RegisterRequest /\ RegisterArgs.unknown = << >>
  <2>1. << >> \in Bytes /\ Letter(113) \in Bytes /\ Letter(48) \in Bytes
    BY <1>2, CleanBytes DEF Clean
  <2>2. 1111 \in Nat
    OBVIOUS
  <2> QED BY <1>1, <2>1, <2>2 DEF U!RegisterRequest, U!Bytes, U!Byte, Bytes, Byte
<1>4. Clean(b, 9)
  <2>1. b = VarintField(8, 1111) \o BytesField(18, Letter(113))
              \o BytesField(26, Letter(48)) \o << >>
    <3>1. /\ RegisterArgs.id = 1111 /\ RegisterArgs.name = Letter(113)
          /\ RegisterArgs.pwd = Letter(48) /\ RegisterArgs.unknown = << >>
      BY <1>1
    <3>2. b = VarintField(8, RegisterArgs.id)
                \o BytesField(18, RegisterArgs.name)
                \o BytesField(26, RegisterArgs.pwd) \o RegisterArgs.unknown
      BY SameFields DEF U!RegisterRequest_InternalSerialize
    <3> HIDE DEF b
    <3> QED BY <3>1, <3>2
  <2>2. 1111 \in Nat /\ 1111 \div 128 < 128
    OBVIOUS
  <2>3. Clean(VarintField(8, 1111), 3)
    <3>1. \A n \in Nat : n \div 128 < 128 => Clean(VarintField(8, n), 3)
      BY CleanFields DEF Tags
    <3> QED BY <2>2, <3>1
  <2>4. /\ Clean(BytesField(18, Letter(113)), 3)
        /\ Clean(BytesField(26, Letter(48)), 3)
        /\ Clean(<< >>, 0)
    BY <1>2, CleanFields, CleanBytes DEF Tags
  <2>5. Clean(VarintField(8, 1111) \o BytesField(18, Letter(113)), 3 + 3)
    BY <2>3, <2>4, CleanJoined
  <2>6. Clean(VarintField(8, 1111) \o BytesField(18, Letter(113))
                \o BytesField(26, Letter(48)), (3 + 3) + 3)
    BY <2>4, <2>5, CleanJoined
  <2>7. Clean(VarintField(8, 1111) \o BytesField(18, Letter(113))
                \o BytesField(26, Letter(48)) \o << >>, ((3 + 3) + 3) + 0)
    BY <2>4, <2>6, CleanJoined
  <2> QED BY <2>1, <2>7 DEF Clean
<1>5. /\ P(b) = <<RegisterArgs>>
      /\ \A k \in 0..Len(b) :
           \/ P(SubSeq(b, 1, k)) = Failure
           \/ \E x1 \in {0, RegisterArgs.id}, x2 \in {<< >>, RegisterArgs.name},
                 x3 \in {<< >>, RegisterArgs.pwd} :
                P(SubSeq(b, 1, k)) = <<[id |-> x1, name |-> x2, pwd |-> x3,
                                        unknown |-> << >>]>>
  BY <1>3, RegisterRequestIsRead
<1>6. ASSUME NEW x1 \in {0, RegisterArgs.id},
             NEW x2 \in {<< >>, RegisterArgs.name},
             NEW x3 \in {<< >>, RegisterArgs.pwd}
      PROVE  Partly([id |-> x1, name |-> x2, pwd |-> x3, unknown |-> << >>],
                    RegisterArgs)
  BY <1>1 DEF Partly, IsDefault
<1> HIDE DEF b, P
<1>7. \A k \in 0..Len(b) : ReadsPart(P(SubSeq(b, 1, k)), RegisterArgs)
  BY <1>5, <1>6 DEF ReadsPart, Failure
<1>8. Register \in Methods("user")
  BY DEF Methods
<1>9. \A c : ParseRequest(Register, c) = P(c)
  BY MethodsDiffer DEF P
<1> DEFINE call == [method |-> Register, request |-> RegisterArgs, args |-> b]
<1>10. call.method = Register /\ call.request = RegisterArgs /\ call.args = b
  OBVIOUS
<1> HIDE DEF call
<1>11. ArgsAreRead("user", call)
  BY <1>4, <1>5, <1>7, <1>8, <1>9, <1>10 DEF ArgsAreRead
<1> QED BY <1>11 DEF call, b

\* The same of GetFriendsList.
LEMMA FriendsArgsAreRead ==
  ArgsAreRead("friend",
              [method |-> GetFriendsList, request |-> FriendsArgs,
               args |-> F!GetFriendsListRequest_InternalSerialize(FriendsArgs)])
<1> DEFINE b == F!GetFriendsListRequest_InternalSerialize(FriendsArgs)
           P(c) == F!GetFriendsListRequest_InternalParse(
                     F!GetFriendsListRequest_Clear, c)
<1>1. FriendsArgs = [userid |-> 1001, unknown |-> << >>]
  <2>1. ASSUME NEW e, NEW i, NEW j
        PROVE  [[userid |-> j, unknown |-> e] EXCEPT !.userid = i]
                 = [userid |-> i, unknown |-> e]
    OBVIOUS
  <2>2. ASSUME NEW i
        PROVE  F!GetFriendsListRequest_set_userid(F!GetFriendsListRequest_Clear, i)
               = [userid |-> i, unknown |-> << >>]
    BY <2>1, Zenon DEF F!GetFriendsListRequest_set_userid,
               F!GetFriendsListRequest_Clear
  <2> QED BY <2>2 DEF FriendsArgs
<1>3. FriendsArgs \in F!GetFriendsListRequest /\ FriendsArgs.unknown = << >>
  <2>1. << >> \in Bytes
    BY CleanBytes DEF Clean
  <2>2. 1001 \in Nat
    OBVIOUS
  <2> QED BY <1>1, <2>1, <2>2 DEF F!GetFriendsListRequest, F!Bytes, F!Byte,
                                  Bytes, Byte
<1>4. Clean(b, 9)
  <2>1. b = VarintField(8, 1001) \o << >>
    BY <1>1, SameFields DEF F!GetFriendsListRequest_InternalSerialize
  <2>2. 1001 \in Nat /\ 1001 \div 128 < 128
    OBVIOUS
  <2>3. Clean(VarintField(8, 1001), 3)
    <3>1. \A n \in Nat : n \div 128 < 128 => Clean(VarintField(8, n), 3)
      BY CleanFields DEF Tags
    <3> QED BY <2>2, <3>1
  <2>4. Clean(<< >>, 0)
    BY CleanBytes
  <2>5. Clean(VarintField(8, 1001) \o << >>, 3 + 0)
    BY <2>3, <2>4, CleanJoined
  <2>6. b \in Bytes /\ Len(b) <= 3 + 0 /\ \A i \in 1..Len(b) : b[i] # 0
    BY <2>1, <2>5 DEF Clean
  <2>7. Len(b) \in Nat
    BY <2>6 DEF Bytes
  <2> QED BY <2>6, <2>7 DEF Clean
<1>5. /\ P(b) = <<FriendsArgs>>
      /\ \A k \in 0..Len(b) :
           \/ P(SubSeq(b, 1, k)) = Failure
           \/ \E x1 \in {0, FriendsArgs.userid} :
                P(SubSeq(b, 1, k)) = <<[userid |-> x1, unknown |-> << >>]>>
  BY <1>3, FriendsRequestIsRead
<1>6. ASSUME NEW x1 \in {0, FriendsArgs.userid}
      PROVE  Partly([userid |-> x1, unknown |-> << >>], FriendsArgs)
  BY <1>1 DEF Partly, IsDefault
<1> HIDE DEF b, P
<1>7. \A k \in 0..Len(b) : ReadsPart(P(SubSeq(b, 1, k)), FriendsArgs)
  BY <1>5, <1>6 DEF ReadsPart, Failure
<1>8. GetFriendsList \in Methods("friend")
  BY DEF Methods
<1>9. \A c : ParseRequest(GetFriendsList, c) = P(c)
  BY MethodsDiffer DEF P
<1> DEFINE call == [method |-> GetFriendsList, request |-> FriendsArgs,
                    args |-> b]
<1>10. call.method = GetFriendsList /\ call.request = FriendsArgs /\ call.args = b
  OBVIOUS
<1> HIDE DEF call
<1>11. ArgsAreRead("friend", call)
  BY <1>4, <1>5, <1>7, <1>8, <1>9, <1>10 DEF ArgsAreRead
<1> QED BY <1>11 DEF call, b

\* The calls of the example programs.
LEMMA CallsAre ==
  /\ Len(Calls["user"]) = 2 /\ Len(Calls["friend"]) = 1
  /\ \A s \in {"user", "friend"} : \A i \in 1..Len(Calls[s]) :
       ArgsAreRead(s, Calls[s][i])
<1> DEFINE l == [method |-> Login, request |-> LoginArgs,
                 args |-> U!LoginRequest_InternalSerialize(LoginArgs)]
           r == [method |-> Register, request |-> RegisterArgs,
                 args |-> U!RegisterRequest_InternalSerialize(RegisterArgs)]
           g == [method |-> GetFriendsList, request |-> FriendsArgs,
                 args |-> F!GetFriendsListRequest_InternalSerialize(FriendsArgs)]
<1>1. ArgsAreRead("user", l) /\ ArgsAreRead("user", r) /\ ArgsAreRead("friend", g)
  BY LoginArgsAreRead, RegisterArgsAreRead, FriendsArgsAreRead
<1>2. Calls["user"] = <<l, r>> /\ Calls["friend"] = <<g>>
  BY DEF Calls
<1> HIDE DEF l, r, g
<1> QED BY <1>1, <1>2

-----------------------------------------------------------------------------
(* What the provider makes of one read.                                    *)

HeaderOf(s, c) ==
  [service_name |-> ServiceName(s), method_name |-> c.method,
   args_size |-> Len(c.args), unknown |-> << >>]
HeaderBytes(s, c) == H!InternalSerialize(HeaderOf(s, c))

\* The header of a call is read as it was written.
LEMMA HeaderOfIsRead ==
  ASSUME NEW s \in {"user", "friend"}, NEW c, ArgsAreRead(s, c)
  PROVE  /\ Clean(HeaderBytes(s, c), 8)
         /\ H!InternalParse(H!Clear, HeaderBytes(s, c)) = <<HeaderOf(s, c)>>
<1> DEFINE n == Len(c.args)  v == ServiceName(s)  h == HeaderOf(s, c)
<1>1. Clean(v, 1) /\ Clean(c.method, 1)
  <2>1. /\ Clean(Letter(85), 1) /\ Clean(Letter(70), 1) /\ Clean(Letter(76), 1)
        /\ Clean(Letter(82), 1) /\ Clean(Letter(71), 1)
    BY CleanBytes
  <2>2. c.method \in {Login, Register, GetFriendsList}
    BY DEF ArgsAreRead, Methods
  <2> QED BY <2>1, <2>2 DEF Login, Register, GetFriendsList, ServiceName,
                            UserServiceRpc, FriendServiceRpc
<1>2. n \in Nat /\ n < 128
  <2>1. c.args \in Seq(Byte) /\ n <= 9
    BY DEF ArgsAreRead, Clean, Bytes
  <2>2. n \in Nat
    BY <2>1, LenProperties
  <2> QED BY <2>1, <2>2
<1> HIDE DEF n, v
<1>3. h = [service_name |-> v, method_name |-> c.method, args_size |-> n,
           unknown |-> << >>]
  BY DEF HeaderOf, n, v
<1>4. h \in H!RpcHeader /\ h.unknown = << >>
  <2>1. v \in Bytes /\ c.method \in Bytes /\ << >> \in Bytes
    BY <1>1, CleanBytes DEF Clean
  <2> QED BY <1>2, <1>3, <2>1 DEF H!RpcHeader, H!Byte, Bytes, Byte
<1>5. H!InternalParse(H!Clear, HeaderBytes(s, c)) = <<h>>
  BY <1>4, HeaderIsRead DEF HeaderBytes
<1>6. HeaderBytes(s, c) = BytesField(10, v) \o BytesField(18, c.method)
                            \o VarintField(24, n) \o << >>
  BY <1>3, SameFields DEF HeaderBytes, H!InternalSerialize
<1>7. /\ Clean(BytesField(10, v), 3) /\ Clean(BytesField(18, c.method), 3)
      /\ Clean(VarintField(24, n), 2) /\ Clean(<< >>, 0)
  <2>1. 10 \in Tags /\ 18 \in Tags /\ 24 \in Tags
    BY DEF Tags
  <2> QED BY <1>1, <1>2, <2>1, CleanFields, CleanBytes
<1>8. Clean(BytesField(10, v) \o BytesField(18, c.method), 3 + 3)
  BY <1>7, CleanJoined
<1>9. Clean(BytesField(10, v) \o BytesField(18, c.method) \o VarintField(24, n),
            (3 + 3) + 2)
  BY <1>7, <1>8, CleanJoined
<1>10. Clean(BytesField(10, v) \o BytesField(18, c.method)
               \o VarintField(24, n) \o << >>, ((3 + 3) + 2) + 0)
  BY <1>7, <1>9, CleanJoined
<1> QED BY <1>5, <1>6, <1>10

\* What CallMethod() writes: the length of the header in four bytes, then both.
LEMMA RequestBytesIs ==
  ASSUME NEW s, NEW c
  PROVE  RequestBytes(s, c) = <<Len(HeaderBytes(s, c)), 0, 0, 0>>
                                \o HeaderBytes(s, c) \o c.args
<1>1. H!set_args_size(H!set_method_name(H!set_service_name(
        H!Clear, ServiceName(s)), c.method), Len(c.args)) = HeaderOf(s, c)
  <2> SUFFICES ASSUME NEW e, e = << >>, NEW z, z = 0, NEW v, NEW m, NEW n
               PROVE  H!set_args_size(H!set_method_name(H!set_service_name(
                        H!Clear, v), m), n)
                        = [service_name |-> v, method_name |-> m,
                           args_size |-> n, unknown |-> e]
    BY DEF HeaderOf
  <2>1. H!Clear = [service_name |-> e, method_name |-> e, args_size |-> z,
                   unknown |-> e]
    BY DEF H!Clear
  <2>2. H!set_service_name([service_name |-> e, method_name |-> e,
                            args_size |-> z, unknown |-> e], v)
          = [service_name |-> v, method_name |-> e, args_size |-> z,
             unknown |-> e]
    BY DEF H!set_service_name
  <2>3. H!set_method_name([service_name |-> v, method_name |-> e,
                           args_size |-> z, unknown |-> e], m)
          = [service_name |-> v, method_name |-> m, args_size |-> z,
             unknown |-> e]
    BY DEF H!set_method_name
  <2>4. H!set_args_size([service_name |-> v, method_name |-> m,
                         args_size |-> z, unknown |-> e], n)
          = [service_name |-> v, method_name |-> m, args_size |-> n,
             unknown |-> e]
    BY DEF H!set_args_size
  <2> QED BY <2>1, <2>2, <2>3, <2>4
<1> QED BY <1>1 DEF RequestBytes, HeaderBytes, HeaderSize

\* OnMessage(), by how much of the request has come.
LEMMA OnMessageIs ==
  ASSUME NEW s, NEW b, Len(b) \in Nat, SizeIn(b) \in Nat
  PROVE  /\ Len(b) < 4 => OnMessage(s, b) = Throws
         /\ 4 + SizeIn(b) > Len(b) => OnMessage(s, b) \in {Throws, Returns}
         /\ \A header :
              /\ Len(b) >= 4 /\ 4 + SizeIn(b) <= Len(b)
              /\ H!InternalParse(H!Clear, Upto(b, 5, 4 + SizeIn(b))) = <<header>>
              => OnMessage(s, b) =
                   Dispatch(s, header, Upto(b, 5 + SizeIn(b),
                              4 + SizeIn(b) + header.args_size))
<1> DEFINE size == SizeIn(b)
           parsed == H!InternalParse(H!Clear, Upto(b, 5, 4 + size))
<1>1. OnMessage(s, b) =
        CASE Len(b) < 4 -> Throws
          [] Len(b) >= 4 /\ parsed = << >> -> Returns
          [] OTHER ->
               IF 4 + size > Len(b) THEN Throws
               ELSE Dispatch(s, parsed[1],
                             Upto(b, 5 + size, 4 + size + parsed[1].args_size))
  BY DEF OnMessage
<1>2. size \in Nat
  OBVIOUS
<1> HIDE DEF parsed, size
<1>3. Len(b) < 4 => OnMessage(s, b) = Throws
  BY <1>1
<1>4. 4 + size > Len(b) => OnMessage(s, b) \in {Throws, Returns}
  BY <1>1, <1>2
<1>5. ASSUME NEW header, Len(b) >= 4, 4 + size <= Len(b), parsed = <<header>>
      PROVE  OnMessage(s, b) =
               Dispatch(s, header,
                        Upto(b, 5 + size, 4 + size + header.args_size))
  <2>1. parsed # << >> /\ parsed[1] = header
    BY <1>5
  <2>2. ~(Len(b) < 4) /\ ~(4 + size > Len(b))
    BY <1>2, <1>5
  <2> QED BY <1>1, <2>1, <2>2
<1> QED BY <1>3, <1>4, <1>5 DEF parsed, size

\* What may be left of a request, of which some bytes have been read: no more
\* than a request has, and no zero among those that would be the fourth byte
\* of a length or come behind it.
Quiet(b) ==
  b \in Bytes /\ Len(b) <= 21 /\ \A i \in 4..Len(b) : b[i] # 0

\* A length whose last byte is not zero is longer than any request.
LEMMA TooLongIs ==
  /\ TooLong \in Nat
  /\ \A n \in Nat : n <= 21 => 4 + TooLong > n
BY DEF TooLong

\* The rest of a request is no request.
LEMMA QuietIsNoRequest ==
  ASSUME NEW s, NEW b, Quiet(b)
  PROVE  OnMessage(s, b) \in {Throws, Returns}
<1>1. Len(b) \in Nat /\ Len(b) <= 21
  BY LenProperties DEF Quiet, Bytes
<1>2. CASE Len(b) < 4
  <2>1. OnMessage(s, b) = Throws
    BY <1>2 DEF OnMessage
  <2> QED BY <2>1
<1>3. CASE ~(Len(b) < 4)
  <2>1. 4 \in 4..Len(b)
    BY <1>1, <1>3
  <2>2. b[4] # 0
    BY <2>1 DEF Quiet
  <2>3. SizeIn(b) = TooLong
    BY <2>2 DEF SizeIn
  <2>4. 4 + SizeIn(b) > Len(b) /\ SizeIn(b) \in Nat
    BY <1>1, <2>3, TooLongIs
  <2> QED BY <1>1, <2>4, OnMessageIs
<1> QED BY <1>2, <1>3

\* A part of a rest, and what is behind it, are rests too.
LEMMA QuietParts ==
  ASSUME NEW b, Quiet(b), NEW k \in 1..Len(b)
  PROVE  Quiet(SubSeq(b, 1, k)) /\ Quiet(SubSeq(b, k + 1, Len(b)))
<1> DEFINE n == Len(b)
<1>1. b \in Seq(Byte) /\ n \in Nat /\ n <= 21 /\ \A i \in 4..n : b[i] # 0
  BY LenProperties DEF Quiet, Bytes
<1>2. k \in Nat /\ 1 <= k /\ k <= n
  BY <1>1
<1>3. /\ SubSeq(b, 1, k) \in Bytes /\ Len(SubSeq(b, 1, k)) = k - 1 + 1
      /\ \A i \in 1..(k - 1 + 1) : SubSeq(b, 1, k)[i] = b[1 + i - 1]
  <2>1. 1 \in Nat /\ 1 > 0 /\ 1 <= k + 1 /\ b \in Bytes
    BY <1>1, <1>2 DEF Bytes
  <2> QED BY <1>2, <2>1, PartIs
<1>4. /\ SubSeq(b, k + 1, n) \in Bytes /\ Len(SubSeq(b, k + 1, n)) = n - (k + 1) + 1
      /\ \A i \in 1..(n - (k + 1) + 1) : SubSeq(b, k + 1, n)[i] = b[(k + 1) + i - 1]
  <2>1. k + 1 \in Nat /\ k + 1 > 0 /\ k + 1 <= n + 1 /\ b \in Bytes /\ n <= Len(b)
    BY <1>1, <1>2 DEF Bytes
  <2> QED BY <1>1, <2>1, PartIs
<1> HIDE DEF n
<1>5. Quiet(SubSeq(b, 1, k))
  <2> DEFINE c == SubSeq(b, 1, k)
  <2>1. c \in Bytes /\ Len(c) = k
    BY <1>2, <1>3
  <2>2. ASSUME NEW i \in 4..Len(c) PROVE c[i] # 0
    <3>1. i \in 1..(k - 1 + 1) /\ 1 + i - 1 = i /\ i \in 4..n
      BY <1>1, <1>2, <2>1
    <3> QED BY <1>1, <1>3, <3>1
  <2> HIDE DEF c
  <2>3. Len(c) <= 21
    BY <1>1, <1>2, <2>1
  <2>4. Quiet(c)
    BY <2>1, <2>2, <2>3 DEF Quiet
  <2> QED BY <2>4 DEF c
<1>6. Quiet(SubSeq(b, k + 1, n))
  <2> DEFINE c == SubSeq(b, k + 1, n)
  <2>1. c \in Bytes /\ Len(c) = n - k
    BY <1>1, <1>2, <1>4
  <2>2. ASSUME NEW i \in 4..Len(c) PROVE c[i] # 0
    <3>1. i \in 1..(n - (k + 1) + 1) /\ (k + 1) + i - 1 \in 4..n
      BY <1>1, <1>2, <2>1
    <3> QED BY <1>1, <1>4, <3>1
  <2> HIDE DEF c
  <2>3. Len(c) <= 21
    BY <1>1, <1>2, <2>1
  <2>4. Quiet(c)
    BY <2>1, <2>2, <2>3 DEF Quiet
  <2> QED BY <2>4 DEF c
<1> QED BY <1>5, <1>6 DEF n

\* The bytes of two strings that are joined.
LEMMA JoinedBytes ==
  ASSUME NEW s \in Seq(Byte), NEW t \in Seq(Byte)
  PROVE  /\ s \o t \in Seq(Byte) /\ Len(s \o t) = Len(s) + Len(t)
         /\ Len(s) \in Nat /\ Len(t) \in Nat
         /\ \A i \in 1..Len(s) : (s \o t)[i] = s[i]
         /\ \A i \in 1..Len(t) : (s \o t)[Len(s) + i] = t[i]
BY Joined

\* Joining is associative.
LEMMA JoinedThrice ==
  ASSUME NEW s \in Seq(Byte), NEW t \in Seq(Byte), NEW u \in Seq(Byte)
  PROVE  (s \o t) \o u = s \o (t \o u)
BY ConcatAssociative

\* A request on the wire, byte for byte.
LEMMA RequestIs ==
  ASSUME NEW s \in {"user", "friend"}, NEW c, ArgsAreRead(s, c)
  PROVE  LET R == RequestBytes(s, c)  h == Len(HeaderBytes(s, c)) IN
         /\ R \in Bytes /\ h \in Nat /\ Len(c.args) \in Nat
         /\ Len(R) = 4 + h + Len(c.args) /\ Len(R) <= 21
         /\ R[1] = h /\ R[2] = 0 /\ R[3] = 0 /\ R[4] = 0
         /\ \A i \in 5..Len(R) : R[i] # 0
<1> DEFINE R == RequestBytes(s, c)
           header == HeaderBytes(s, c)  h == Len(header)
           a == c.args  n == Len(a)
           pre == <<h, 0, 0, 0>>
<1>1. R = pre \o header \o a
  BY RequestBytesIs
<1>2. Clean(header, 8) /\ Clean(a, 9)
  BY HeaderOfIsRead DEF ArgsAreRead
<1> HIDE DEF R, header, a
<1>3. header \in Seq(Byte) /\ a \in Seq(Byte) /\ h \in Nat /\ n \in Nat
      /\ h <= 8 /\ n <= 9
  BY <1>2, LenProperties DEF Clean, Bytes
<1> HIDE DEF h, n
<1>4. pre \in Seq(Byte) /\ Len(pre) = 4
      /\ pre[1] = h /\ pre[2] = 0 /\ pre[3] = 0 /\ pre[4] = 0
  <2>1. h \in Byte /\ 0 \in Byte
    BY <1>3, ByteIs
  <2> QED BY <2>1
<1> HIDE DEF pre
<1>5. Clean(header \o a, 8 + 9)
  BY <1>2, CleanJoined
<1>6. /\ header \o a \in Seq(Byte)
      /\ Len(header \o a) = h + n
      /\ \A i \in 1..Len(header \o a) : (header \o a)[i] # 0
  BY <1>3, <1>5, Joined DEF Clean, Bytes, h, n
<1>7. R = pre \o (header \o a)
  BY <1>1, <1>3, <1>4, JoinedThrice, Zenon
<1> DEFINE t == header \o a
<1> HIDE DEF t
<1>8. /\ R \in Seq(Byte) /\ Len(R) = Len(pre) + Len(t)
      /\ \A i \in 1..Len(pre) : R[i] = pre[i]
      /\ \A i \in 1..Len(t) : R[Len(pre) + i] = t[i]
  <2>1. pre \in Seq(Byte) /\ t \in Seq(Byte) /\ R = pre \o t
    BY <1>4, <1>6, <1>7 DEF t
  <2> QED BY <2>1, JoinedBytes, Zenon
<1>9. Len(R) = 4 + h + n /\ Len(R) <= 21
  BY <1>3, <1>4, <1>6, <1>8 DEF t
<1>10. R[1] = h /\ R[2] = 0 /\ R[3] = 0 /\ R[4] = 0
  BY <1>4, <1>8
<1>11. ASSUME NEW i \in 5..Len(R) PROVE R[i] # 0
  <2>1. i - 4 \in 1..Len(t) /\ i = 4 + (i - 4)
    BY <1>3, <1>6, <1>9 DEF t
  <2>2. R[4 + (i - 4)] = t[i - 4]
    BY <1>4, <1>8, <2>1
  <2> QED BY <1>6, <2>1, <2>2 DEF t
<1>12. /\ R \in Bytes /\ h \in Nat /\ n \in Nat
       /\ Len(R) = 4 + h + n /\ Len(R) <= 21
       /\ R[1] = h /\ R[2] = 0 /\ R[3] = 0 /\ R[4] = 0
       /\ \A i \in 5..Len(R) : R[i] # 0
  BY <1>3, <1>8, <1>9, <1>10, <1>11 DEF Bytes
<1> QED BY <1>12 DEF R, h, n, header, a

\* What is left of a request after a read.
LEMMA RestIsQuiet ==
  ASSUME NEW s \in {"user", "friend"}, NEW c, ArgsAreRead(s, c),
         NEW k \in 1..Len(RequestBytes(s, c))
  PROVE  Quiet(SubSeq(RequestBytes(s, c), k + 1, Len(RequestBytes(s, c))))
<1> DEFINE b == RequestBytes(s, c)  n == Len(b)
<1>1. b \in Bytes /\ n \in Nat /\ n <= 21 /\ \A i \in 5..n : b[i] # 0
  <2>1. b \in Bytes /\ n <= 21 /\ \A i \in 5..n : b[i] # 0
    BY RequestIs
  <2> QED BY <2>1, LenProperties DEF Bytes
<1> HIDE DEF b
<1>2. k \in Nat /\ 1 <= k /\ k <= n
  BY <1>1 DEF b
<1>3. /\ SubSeq(b, k + 1, n) \in Bytes /\ Len(SubSeq(b, k + 1, n)) = n - (k + 1) + 1
      /\ \A i \in 1..(n - (k + 1) + 1) : SubSeq(b, k + 1, n)[i] = b[(k + 1) + i - 1]
  <2>1. k + 1 \in Nat /\ k + 1 > 0 /\ k + 1 <= n + 1 /\ n <= Len(b)
    BY <1>1, <1>2
  <2> QED BY <1>1, <2>1, PartIs
<1> HIDE DEF n
<1> DEFINE r == SubSeq(b, k + 1, n)
<1>4. r \in Bytes /\ Len(r) = n - k
  BY <1>1, <1>2, <1>3
<1>5. ASSUME NEW i \in 4..Len(r) PROVE r[i] # 0
  <2>1. i \in 1..(n - (k + 1) + 1) /\ (k + 1) + i - 1 \in 5..n
    BY <1>1, <1>2, <1>4
  <2> QED BY <1>1, <1>3, <2>1
<1> HIDE DEF r
<1>6. Len(r) <= 21
  BY <1>1, <1>2, <1>4
<1>7. Quiet(r)
  BY <1>4, <1>5, <1>6 DEF Quiet
<1> QED BY <1>7 DEF r, n, b

\* The call that a read makes of a request from its beginning, if it makes
\* one.
LEMMA FirstRead ==
  ASSUME NEW s \in {"user", "friend"}, NEW c, ArgsAreRead(s, c),
         NEW k \in 1..Len(RequestBytes(s, c)),
         OnMessage(s, SubSeq(RequestBytes(s, c), 1, k)) \notin {Throws, Returns}
  PROVE  \E q : /\ OnMessage(s, SubSeq(RequestBytes(s, c), 1, k))
                     = [end |-> "answers", method |-> c.method, request |-> q]
                /\ Partly(q, c.request)
                /\ k = Len(RequestBytes(s, c)) => q = c.request
<1> DEFINE R == RequestBytes(s, c)
           header == HeaderBytes(s, c)  h == Len(header)
           a == c.args  n == Len(a)
           pre == <<h, 0, 0, 0>>
           b == SubSeq(R, 1, k)
<1>1. R = pre \o header \o a
  BY RequestBytesIs
<1>2. header \in Seq(Byte) /\ a \in Seq(Byte)
  BY HeaderOfIsRead DEF ArgsAreRead, Clean, Bytes
<1>3. /\ R \in Bytes /\ h \in Nat /\ n \in Nat /\ Len(R) = 4 + h + n
      /\ R[1] = h /\ R[2] = 0 /\ R[3] = 0 /\ R[4] = 0
  BY RequestIs
<1>4. k \in Nat /\ 1 <= k /\ k <= Len(R)
  <2>1. k \in 1..Len(R)
    OBVIOUS
  <2> HIDE DEF R, h, n
  <2>2. Len(R) \in Nat
    BY <1>3
  <2> QED BY <2>1, <2>2
<1>5. OnMessage(s, b) \notin {Throws, Returns}
  OBVIOUS
<1>6. H!InternalParse(H!Clear, header) = <<HeaderOf(s, c)>>
  BY HeaderOfIsRead
<1>7. /\ h \in Byte
      /\ 0 \in Byte
  <2>1. h <= 8
    BY HeaderOfIsRead DEF Clean
  <2> QED BY <1>3, <2>1, ByteIs
<1> HIDE DEF R, header, a
<1>8. b \in Bytes /\ Len(b) = k /\ \A i \in 1..k : b[i] = R[i]
  <2>1. /\ b \in Bytes /\ Len(b) = k - 1 + 1
        /\ \A i \in 1..(k - 1 + 1) : b[i] = R[1 + i - 1]
    <3>1. 1 \in Nat /\ 1 > 0 /\ 1 <= k + 1
      BY <1>4
    <3> QED BY <1>3, <1>4, <3>1, PartIs
  <2> HIDE DEF b
  <2>2. k - 1 + 1 = k /\ \A i \in 1..k : 1 + i - 1 = i
    BY <1>4
  <2> QED BY <2>1, <2>2
<1> HIDE DEF b, h, n
<1>9. k >= 4
  <2>1. CASE k < 4
    <3>1. OnMessage(s, b) = Throws
      BY <1>8, <2>1 DEF OnMessage
    <3> QED BY <1>5, <3>1
  <2> QED BY <1>4, <2>1
<1>10. SizeIn(b) = h
  <2>1. b[1] = h /\ b[2] = 0 /\ b[3] = 0 /\ b[4] = 0
    BY <1>3, <1>4, <1>8, <1>9
  <2>2. h + 256 * 0 = h
    BY <1>3
  <2> QED BY <2>1, <2>2 DEF SizeIn
<1>11. 4 + h <= k
  <2>1. CASE 4 + h > k
    <3>1. OnMessage(s, b) \in {Throws, Returns}
      BY <1>3, <1>4, <1>8, <1>10, <2>1, OnMessageIs
    <3> QED BY <1>5, <3>1
  <2> QED BY <1>3, <1>4, <2>1
<1> DEFINE j == k - (4 + h)
           x == SubSeq(a, 1, j)
<1>12. j \in 0..n /\ j \in Nat /\ k = (4 + h) + j /\ j <= n
  BY <1>3, <1>4, <1>11
<1> HIDE DEF j
<1>13. pre \in Seq(Byte) /\ Len(pre) = 4
  BY <1>7
<1> HIDE DEF pre
<1>14. /\ pre \o header \in Seq(Byte) /\ Len(pre \o header) = 4 + h
       /\ x \in Seq(Byte) /\ Len(x) = j
  <2>1. pre \o header \in Seq(Byte) /\ Len(pre \o header) = 4 + h
    <3>1. pre \o header \in Seq(Byte)
          /\ Len(pre \o header) = Len(pre) + Len(header)
      BY <1>2, <1>13, JoinedBytes, Zenon
    <3> QED BY <1>13, <3>1 DEF h
  <2>2. x \in Bytes /\ Len(x) = j - 1 + 1
    <3>1. 1 \in Nat /\ 1 > 0 /\ 1 <= j + 1 /\ j <= Len(a) /\ a \in Bytes
      BY <1>2, <1>12 DEF n, Bytes
    <3> QED BY <1>12, <3>1, PartIs
  <2> QED BY <1>12, <2>1, <2>2 DEF Bytes
<1>15. b = (pre \o header) \o x
  <2> DEFINE p == pre \o header
  <2> HIDE DEF p
  <2>1. p \in Seq(Byte) /\ a \in Seq(Byte) /\ j \in 0..Len(a)
    BY <1>2, <1>12, <1>14 DEF p, n
  <2>2. SubSeq(p \o a, 1, Len(p) + j) = p \o SubSeq(a, 1, j)
    BY <2>1, Longer
  <2> QED BY <1>1, <1>12, <1>14, <2>2 DEF p, b
<1> HIDE DEF x
<1>16. b = pre \o (header \o x)
  BY <1>2, <1>13, <1>14, <1>15, JoinedThrice, Zenon
<1>17. Upto(b, 5, 4 + h) = header
  <2>1. Upto(b, 5, 4 + h) = SubSeq(b, 5, 4 + h)
    <3>1. (IF 4 + h < Len(b) THEN 4 + h ELSE Len(b)) = 4 + h
      BY <1>3, <1>4, <1>8, <1>11
    <3> QED BY <3>1 DEF Upto
  <2>2. /\ header \o x \in Seq(Byte) /\ Len(header \o x) = h + j
    <3>1. header \o x \in Seq(Byte) /\ Len(header \o x) = Len(header) + Len(x)
      BY <1>2, <1>14, JoinedBytes, Zenon
    <3> QED BY <1>14, <3>1 DEF h
  <2>3. h \in 0..Len(header \o x)
    BY <1>3, <1>12, <2>2
  <2>4. SubSeq(pre \o (header \o x), Len(pre) + 1, Len(pre) + h)
          = SubSeq(header \o x, 1, h)
    <3> DEFINE t == header \o x
    <3> HIDE DEF t
    <3> QED BY <1>13, <2>2, <2>3, Behind DEF t
  <2>5. SubSeq(header \o x, 1, h) = header
    <3>1. h \in 0..(Len(header) + Len(x)) /\ h <= Len(header)
      BY <1>3, <1>12, <1>14 DEF h
    <3>2. SubSeq(header \o x, 1, h) = SubSeq(header, 1, h)
      BY <1>2, <1>14, <3>1, Beginning
    <3> QED BY <1>2, <3>2, Whole DEF h
  <2>6. Len(pre) + 1 = 5 /\ Len(pre) + h = 4 + h
    BY <1>13
  <2> QED BY <1>16, <2>1, <2>4, <2>5, <2>6
<1>18. Upto(b, 5 + h, 4 + h + n) = x
  <2>1. (IF 4 + h + n < Len(b) THEN 4 + h + n ELSE Len(b)) = (4 + h) + j
    BY <1>3, <1>8, <1>12
  <2> DEFINE p == pre \o header
  <2>2. p \in Seq(Byte) /\ Len(p) = 4 + h /\ j \in 0..Len(x)
    BY <1>12, <1>14
  <2> HIDE DEF p
  <2>3. SubSeq(p \o x, Len(p) + 1, Len(p) + j) = SubSeq(x, 1, j)
    BY <1>14, <2>2, Behind
  <2>4. SubSeq(x, 1, j) = x
    BY <1>14, Whole
  <2>5. Len(p) + 1 = 5 + h /\ Len(p) + j = (4 + h) + j
    BY <1>3, <2>2
  <2>6. SubSeq(b, 5 + h, (4 + h) + j) = x
    BY <1>15, <2>3, <2>4, <2>5 DEF p
  <2> QED BY <2>1, <2>6 DEF Upto
<1>19. OnMessage(s, b) = Dispatch(s, HeaderOf(s, c), x)
  <2>1. HeaderOf(s, c).args_size = n
    BY DEF HeaderOf, n, a
  <2>2. Len(b) \in Nat /\ Len(b) >= 4 /\ 4 + SizeIn(b) <= Len(b)
        /\ SizeIn(b) \in Nat
    BY <1>3, <1>4, <1>8, <1>9, <1>10, <1>11
  <2>3. H!InternalParse(H!Clear, Upto(b, 5, 4 + SizeIn(b)))
          = <<HeaderOf(s, c)>>
    BY <1>6, <1>10, <1>17
  <2> DEFINE hdr == HeaderOf(s, c)
  <2> HIDE DEF hdr
  <2>4. OnMessage(s, b) = Dispatch(s, hdr,
                            Upto(b, 5 + SizeIn(b), 4 + SizeIn(b) + hdr.args_size))
    BY <2>2, <2>3, OnMessageIs DEF hdr
  <2> QED BY <1>10, <1>18, <2>1, <2>4 DEF hdr
<1>20. Dispatch(s, HeaderOf(s, c), x) = Execute(c.method, ParseRequest(c.method, x))
  <2>1. /\ HeaderOf(s, c).service_name = ServiceName(s)
        /\ HeaderOf(s, c).method_name = c.method
    BY DEF HeaderOf
  <2>2. c.method \in Methods(s)
    BY DEF ArgsAreRead
  <2> QED BY <2>1, <2>2 DEF Dispatch
<1>21. ReadsPart(ParseRequest(c.method, x), c.request)
  <2>1. j \in 0..Len(c.args) /\ x = SubSeq(c.args, 1, j)
    BY <1>12 DEF x, a, n
  <2> QED BY <2>1 DEF ArgsAreRead
<1>22. ParseRequest(c.method, x) # << >>
  BY <1>5, <1>19, <1>20 DEF Execute
<1>23. PICK q : ParseRequest(c.method, x) = <<q>> /\ Partly(q, c.request)
  BY <1>21, <1>22 DEF ReadsPart
<1>24. OnMessage(s, b) = [end |-> "answers", method |-> c.method, request |-> q]
  <2>1. <<q>>[1] = q
    OBVIOUS
  <2> QED BY <1>19, <1>20, <1>22, <1>23, <2>1 DEF Execute
<1>25. k = Len(R) => q = c.request
  <2> SUFFICES ASSUME k = Len(R) PROVE q = c.request
    OBVIOUS
  <2>1. j = n
    BY <1>3, <1>12
  <2>2. x = a
    BY <1>2, <2>1, Whole DEF x, n
  <2>3. <<q>> = <<c.request>>
    BY <1>23, <2>2 DEF a, ArgsAreRead
  <2> QED BY <2>3
<1>26. /\ OnMessage(s, b) = [end |-> "answers", method |-> c.method, request |-> q]
       /\ Partly(q, c.request)
       /\ k = Len(R) => q = c.request
  BY <1>23, <1>24, <1>25
<1> QED BY <1>26 DEF b, R

-----------------------------------------------------------------------------
(* The answers.                                                            *)

LEMMA NoCode ==
  /\ U!ResultCode_set_errmsg(
       U!ResultCode_set_errcode(U!ResultCode_Clear, 0), << >>)
     = U!ResultCode_Clear
  /\ F!ResultCode_set_errmsg(
       F!ResultCode_set_errcode(F!ResultCode_Clear, 0), << >>)
     = F!ResultCode_Clear
  /\ U!ResultCode_ByteSizeLong(U!ResultCode_Clear) = 0
  /\ F!ResultCode_ByteSizeLong(F!ResultCode_Clear) = 0
  /\ U!ResultCode_InternalSerialize(U!ResultCode_Clear) = << >>
  /\ F!ResultCode_InternalSerialize(F!ResultCode_Clear) = << >>
<1>1. ASSUME NEW e, e = << >>, NEW z, z = 0
      PROVE  /\ U!ResultCode_set_errmsg(
                  U!ResultCode_set_errcode(U!ResultCode_Clear, z), e)
                = U!ResultCode_Clear
             /\ F!ResultCode_set_errmsg(
                  F!ResultCode_set_errcode(F!ResultCode_Clear, z), e)
                = F!ResultCode_Clear
  <2>1. /\ U!ResultCode_Clear = [errcode |-> z, errmsg |-> e, unknown |-> e]
        /\ F!ResultCode_Clear = [errcode |-> z, errmsg |-> e, unknown |-> e]
    BY <1>1 DEF U!ResultCode_Clear, F!ResultCode_Clear
  <2> DEFINE r == [errcode |-> z, errmsg |-> e, unknown |-> e]
  <2>2. [r EXCEPT !.errcode = z] = r /\ [r EXCEPT !.errmsg = e] = r
    OBVIOUS
  <2> HIDE DEF r
  <2>3. U!ResultCode_Clear = r /\ F!ResultCode_Clear = r
    BY <2>1 DEF r
  <2> QED BY <2>2, <2>3 DEF U!ResultCode_set_errcode, F!ResultCode_set_errcode,
                      U!ResultCode_set_errmsg, F!ResultCode_set_errmsg
<1>2. /\ U!ResultCode_Clear.errcode = 0 /\ U!ResultCode_Clear.errmsg = << >>
      /\ F!ResultCode_Clear.errcode = 0 /\ F!ResultCode_Clear.errmsg = << >>
      /\ U!ResultCode_Clear.unknown = << >> /\ F!ResultCode_Clear.unknown = << >>
  BY DEF U!ResultCode_Clear, F!ResultCode_Clear
<1>3. << >> \o << >> = << >> /\ Len(<< >>) = 0
  BY ListsAre
<1>4. /\ U!ResultCode_ByteSizeLong(U!ResultCode_Clear) = 0
      /\ F!ResultCode_ByteSizeLong(F!ResultCode_Clear) = 0
  BY <1>2, <1>3 DEF U!ResultCode_ByteSizeLong, F!ResultCode_ByteSizeLong,
        U!VarintSize, F!VarintSize, U!BytesSize, F!BytesSize
<1>5. /\ U!ResultCode_InternalSerialize(U!ResultCode_Clear) = << >>
      /\ F!ResultCode_InternalSerialize(F!ResultCode_Clear) = << >>
  BY <1>2, <1>3 DEF U!ResultCode_InternalSerialize, F!ResultCode_InternalSerialize,
        U!VarintField, F!VarintField, U!BytesField, F!BytesField
<1> QED BY <1>1, <1>4, <1>5

\* What is written of a result without an error.
CodeBytes == <<10>> \o Varint[0] \o << >>

\* The result code of every answer of the examples: a field with no error in it.
LEMMA CodeBytesAre ==
  /\ CodeBytes \in Seq(Byte) /\ Len(CodeBytes) >= 1
  /\ U!ResultField(<<U!ResultCode_Clear>>) = CodeBytes
  /\ <<10>> \o F!Varint[F!ResultCode_ByteSizeLong(F!ResultCode_Clear)]
       \o F!ResultCode_InternalSerialize(F!ResultCode_Clear) = CodeBytes
<1>1. U!Varint = Varint /\ F!Varint = Varint
  BY DEF U!Varint, F!Varint, Varint
<1>2. /\ <<U!ResultCode_Clear>> # << >>
      /\ <<U!ResultCode_Clear>>[1] = U!ResultCode_Clear
  OBVIOUS
<1>3. U!ResultField(<<U!ResultCode_Clear>>) = CodeBytes
  BY <1>1, <1>2, NoCode, Zenon DEF U!ResultField, CodeBytes
<1>4. <<10>> \o F!Varint[F!ResultCode_ByteSizeLong(F!ResultCode_Clear)]
        \o F!ResultCode_InternalSerialize(F!ResultCode_Clear) = CodeBytes
  BY <1>1, NoCode, Zenon DEF CodeBytes
<1>5. CodeBytes \in Seq(Byte) /\ Len(CodeBytes) >= 1
  <2>1. 10 \in Byte /\ 0 \in Nat
    BY ByteIs
  <2>2. <<10>> \in Seq(Byte) /\ Len(<<10>>) = 1 /\ << >> \in Seq(Byte)
    BY <2>1
  <2>3. Varint[0] \in Seq(Byte)
    BY <2>1, VarintIs DEF Bytes
  <2>4. /\ <<10>> \o Varint[0] \in Seq(Byte)
        /\ Len(<<10>> \o Varint[0]) = Len(<<10>>) + Len(Varint[0])
        /\ Len(Varint[0]) \in Nat
    BY <2>2, <2>3, JoinedBytes, Zenon
  <2>5. /\ CodeBytes \in Seq(Byte)
        /\ Len(CodeBytes) = Len(<<10>> \o Varint[0]) + Len(<< >>)
        /\ Len(<< >>) \in Nat
    BY <2>2, <2>4, JoinedBytes, Zenon DEF CodeBytes
  <2> QED BY <2>2, <2>4, <2>5
<1> QED BY <1>3, <1>4, <1>5

\* An answer that starts with a field is not empty.
LEMMA SomeBytes ==
  ASSUME NEW s \in Seq(Byte), Len(s) >= 1, NEW t \in Seq(Byte)
  PROVE  s \o t \in Seq(Byte) /\ Len(s \o t) >= 1
<1>1. s \o t \in Seq(Byte) /\ Len(s \o t) = Len(s) + Len(t)
      /\ Len(s) \in Nat /\ Len(t) \in Nat
  BY JoinedBytes, Zenon
<1> QED BY <1>1

\* The answers of UserService.
LEMMA UserAnswers ==
  ASSUME NEW b \in {U!LoginResponse_InternalSerialize(UserLogin),
                    U!RegisterResponse_InternalSerialize(UserRegister)}
  PROVE  b \in Seq(Byte) /\ Len(b) >= 1
<1>1. /\ UserLogin.result = <<U!ResultCode_Clear>>
      /\ UserLogin.sucess = TRUE /\ UserLogin.unknown = << >>
  <2> DEFINE e == << >>  z == 0  c == U!ResultCode_Clear
             code == U!LoginResponse_mutable_result(U!LoginResponse_Clear)
  <2>1. code = [result |-> <<c>>, sucess |-> FALSE, unknown |-> e]
    <3>1. U!LoginResponse_Clear = [result |-> e, sucess |-> FALSE, unknown |-> e]
      BY DEF U!LoginResponse_Clear
    <3>2. U!Mutable(e) = c
      BY DEF U!Mutable
    <3> DEFINE m == U!LoginResponse_Clear
    <3> HIDE DEF e, c, m
    <3>3. code = [m EXCEPT !.result = <<U!Mutable(m.result)>>]
      BY DEF U!LoginResponse_mutable_result, m
    <3>4. m.result = e
      BY <3>1 DEF m
    <3>5. code = [m EXCEPT !.result = <<c>>]
      BY <3>2, <3>3, <3>4
    <3> HIDE DEF code
    <3> QED BY <3>1, <3>5 DEF m
  <2>2. UserLogin = [[code EXCEPT !.result = <<U!ResultCode_set_errmsg(
                        U!ResultCode_set_errcode(code.result[1], 0), << >>)>>]
                     EXCEPT !.sucess = TRUE]
    BY DEF UserLogin, U!LoginResponse_set_sucess
  <2> HIDE DEF code
  <2>3. code.result[1] = c
    BY <2>1
  <2>4. UserLogin = [[code EXCEPT !.result = <<c>>] EXCEPT !.sucess = TRUE]
    BY <2>2, <2>3, NoCode
  <2> HIDE DEF e, c
  <2>5. UserLogin.result = <<c>> /\ UserLogin.sucess = TRUE
        /\ UserLogin.unknown = e
    BY <2>1, <2>4
  <2> QED BY <2>5 DEF e, c
<1>2. /\ UserRegister.result = <<U!ResultCode_Clear>>
      /\ UserRegister.sucess = TRUE /\ UserRegister.unknown = << >>
  <2> DEFINE e == << >>  z == 0  c == U!ResultCode_Clear
             code == U!RegisterResponse_mutable_result(U!RegisterResponse_Clear)
  <2>1. code = [result |-> <<c>>, sucess |-> FALSE, unknown |-> e]
    <3>1. U!RegisterResponse_Clear = [result |-> e, sucess |-> FALSE, unknown |-> e]
      BY DEF U!RegisterResponse_Clear
    <3>2. U!Mutable(e) = c
      BY DEF U!Mutable
    <3> DEFINE m == U!RegisterResponse_Clear
    <3> HIDE DEF e, c, m
    <3>3. code = [m EXCEPT !.result = <<U!Mutable(m.result)>>]
      BY DEF U!RegisterResponse_mutable_result, m
    <3>4. m.result = e
      BY <3>1 DEF m
    <3>5. code = [m EXCEPT !.result = <<c>>]
      BY <3>2, <3>3, <3>4
    <3> HIDE DEF code
    <3> QED BY <3>1, <3>5 DEF m
  <2>2. UserRegister = [[code EXCEPT !.result = <<U!ResultCode_set_errmsg(
                        U!ResultCode_set_errcode(code.result[1], 0), << >>)>>]
                     EXCEPT !.sucess = TRUE]
    BY DEF UserRegister, U!RegisterResponse_set_sucess
  <2> HIDE DEF code
  <2>3. code.result[1] = c
    BY <2>1
  <2>4. UserRegister = [[code EXCEPT !.result = <<c>>] EXCEPT !.sucess = TRUE]
    BY <2>2, <2>3, NoCode
  <2> HIDE DEF e, c
  <2>5. UserRegister.result = <<c>> /\ UserRegister.sucess = TRUE
        /\ UserRegister.unknown = e
    BY <2>1, <2>4
  <2> QED BY <2>5 DEF e, c
<1>3. U!BoolField(16, TRUE) = <<16, 1>>
  BY DEF U!BoolField
<1>4. b = CodeBytes \o <<16, 1>> \o << >>
  <2>1. U!LoginResponse_InternalSerialize(UserLogin) = CodeBytes \o <<16, 1>>
        \o << >>
    BY <1>1, <1>3, CodeBytesAre, Zenon DEF U!LoginResponse_InternalSerialize
  <2>2. U!RegisterResponse_InternalSerialize(UserRegister)
          = CodeBytes \o <<16, 1>> \o << >>
    BY <1>2, <1>3, CodeBytesAre, Zenon DEF U!RegisterResponse_InternalSerialize
  <2> QED BY <2>1, <2>2
<1>5. <<16, 1>> \in Seq(Byte) /\ << >> \in Seq(Byte)
  <2>1. 16 \in Byte /\ 1 \in Byte
    BY ByteIs
  <2> QED BY <2>1
<1>6. CodeBytes \o <<16, 1>> \in Seq(Byte) /\ Len(CodeBytes \o <<16, 1>>) >= 1
  BY <1>5, CodeBytesAre, SomeBytes
<1> QED BY <1>4, <1>5, <1>6, SomeBytes

\* A list of three friends is bytes.
LEMMA FlatOfThree ==
  ASSUME NEW seqs \in Seq(Seq(Byte)), Len(seqs) = 3
  PROVE  F!FlattenSeq(seqs) \in Seq(Byte)
<1> DEFINE Body(f, i) == IF i = 1 THEN seqs[i] ELSE f[i - 1] \o seqs[i]
           two == seqs[1] \o seqs[2]
           three == two \o seqs[3]
           g == [i \in 1..3 |-> IF i = 1 THEN seqs[1]
                                ELSE IF i = 2 THEN two ELSE three]
           flat == CHOOSE f : f = [i \in 1..Len(seqs) |-> Body(f, i)]
<1>1. seqs[1] \in Seq(Byte) /\ seqs[2] \in Seq(Byte) /\ seqs[3] \in Seq(Byte)
  <2>1. 1 \in 1..Len(seqs) /\ 2 \in 1..Len(seqs) /\ 3 \in 1..Len(seqs)
    OBVIOUS
  <2> DEFINE S == Seq(Byte)
  <2>2. seqs \in Seq(S)
    OBVIOUS
  <2> HIDE DEF S
  <2>3. seqs[1] \in S /\ seqs[2] \in S /\ seqs[3] \in S
    BY <2>1, <2>2, ElementOfSeq
  <2> QED BY <2>3 DEF S
<1>2. g = [i \in 1..3 |-> Body(g, i)]
  <2> HIDE DEF two, three
  <2>1. g[1] = seqs[1] /\ g[2] = two
    OBVIOUS
  <2>2. \A i \in 1..3 : g[i] = Body(g, i)
    <3> SUFFICES ASSUME NEW i \in 1..3 PROVE g[i] = Body(g, i)
      OBVIOUS
    <3>1. CASE i = 1
      BY <3>1
    <3>2. CASE i = 2
      <4>1. 2 - 1 = 1 /\ g[2] = g[1] \o seqs[2]
        BY <2>1 DEF two
      <4> QED BY <3>2, <4>1
    <3>3. CASE i = 3
      <4>1. 3 - 1 = 2 /\ g[3] = g[2] \o seqs[3]
        BY <2>1 DEF three
      <4> QED BY <3>3, <4>1
    <3> QED BY <3>1, <3>2, <3>3
  <2>3. g = [i \in 1..3 |-> g[i]]
    OBVIOUS
  <2> QED BY <2>2, <2>3
<1> HIDE DEF g, Body
<1>3. flat = [i \in 1..3 |-> Body(flat, i)]
  <2>1. \E f : f = [i \in 1..Len(seqs) |-> Body(f, i)]
    BY <1>2
  <2>2. flat = [i \in 1..Len(seqs) |-> Body(flat, i)]
    BY <2>1
  <2> QED BY <2>2
<1>4. F!FlattenSeq(seqs) = flat[3]
  BY DEF F!FlattenSeq, Body
<1> HIDE DEF flat
<1>5. /\ flat[1] = seqs[1] /\ flat[2] = flat[1] \o seqs[2]
      /\ flat[3] = flat[2] \o seqs[3]
  <2>1. \A i \in 1..3 : flat[i] = Body(flat, i)
    BY <1>3
  <2>2. 2 - 1 = 1 /\ 3 - 1 = 2
    OBVIOUS
  <2> QED BY <2>1, <2>2 DEF Body
<1>6. flat[2] \in Seq(Byte)
  <2>1. flat[1] \in Seq(Byte) /\ seqs[2] \in Seq(Byte)
    BY <1>1, <1>5
  <2>2. flat[1] \o seqs[2] \in Seq(Byte)
    BY <2>1, JoinedBytes, Zenon
  <2> QED BY <1>5, <2>2
<1>7. flat[3] \in Seq(Byte)
  BY <1>1, <1>5, <1>6, JoinedBytes, Zenon
<1> QED BY <1>4, <1>7

\* The answer of FriendService.
LEMMA FriendsAnswer ==
  LET b == F!GetFriendsListResponse_InternalSerialize(FriendGetFriendsList) IN
  b \in Seq(Byte) /\ Len(b) >= 1
<1> DEFINE names == <<Letter(115), Letter(102), Letter(98)>>
           c == F!ResultCode_Clear
           m == FriendGetFriendsList
           fields == [i \in DOMAIN names |-> F!FriendField(names[i])]
           b == F!GetFriendsListResponse_InternalSerialize(FriendGetFriendsList)
<1>1. m.result = <<c>> /\ m.friends = names /\ m.unknown = << >>
  <2> DEFINE e == << >>
             clear == F!GetFriendsListResponse_Clear
             code == F!GetFriendsListResponse_mutable_result(clear)
             Add(r, name) == F!GetFriendsListResponse_add_friends(r, Letter(name))
             first == [code EXCEPT !.result = <<c>>]
  <2>1. clear = [result |-> e, friends |-> e, unknown |-> e]
    BY DEF F!GetFriendsListResponse_Clear
  <2>2. F!Mutable(e) = c
    BY DEF F!Mutable
  <2>3. code = [clear EXCEPT !.result = <<F!Mutable(clear.result)>>]
    BY DEF F!GetFriendsListResponse_mutable_result
  <2>4. m = Add(Add(Add([code EXCEPT !.result =
              <<F!ResultCode_set_errmsg(
                  F!ResultCode_set_errcode(code.result[1], 0), << >>)>>],
              115), 102), 98)
    BY DEF FriendGetFriendsList
  <2>5. ASSUME NEW r, NEW l, r = [result |-> <<c>>, friends |-> l, unknown |-> e],
               NEW name
        PROVE  Add(r, name) = [result |-> <<c>>,
                               friends |-> Append(l, Letter(name)),
                               unknown |-> e]
    <3> HIDE DEF e, c
    <3>1. Add(r, name) = [r EXCEPT !.friends = Append(r.friends, Letter(name))]
      BY DEF F!GetFriendsListResponse_add_friends
    <3>2. r.friends = l
      BY <2>5
    <3>3. Add(r, name) = [r EXCEPT !.friends = Append(l, Letter(name))]
      BY <3>1, <3>2
    <3> HIDE DEF Add
    <3> DEFINE l2 == Append(l, Letter(name))
    <3> HIDE DEF l2
    <3>4. [r EXCEPT !.friends = l2]
            = [result |-> <<c>>, friends |-> l2, unknown |-> e]
      BY <2>5
    <3> QED BY <3>3, <3>4 DEF l2
  <2> HIDE DEF clear, code, c, Add
  <2>6. code = [result |-> <<c>>, friends |-> e, unknown |-> e]
    <3> HIDE DEF e
    <3>1. clear.result = e
      BY <2>1
    <3>2. code = [clear EXCEPT !.result = <<c>>]
      BY <2>2, <2>3, <3>1
    <3> QED BY <2>1, <3>2
  <2>7. code.result[1] = c
    <3> HIDE DEF e
    <3> QED BY <2>6
  <2>8. m = Add(Add(Add(first, 115), 102), 98)
    BY <2>4, <2>7, NoCode DEF c
  <2>9. first = [result |-> <<c>>, friends |-> e, unknown |-> e]
    <3> HIDE DEF e
    <3> QED BY <2>6
  <2> HIDE DEF first, e
  <2> DEFINE l3 == Append(Append(Append(e, Letter(115)), Letter(102)), Letter(98))
  <2>10. m = [result |-> <<c>>, friends |-> l3, unknown |-> e]
    <3> DEFINE Rec(l) == [result |-> <<c>>, friends |-> l, unknown |-> e]
    <3>1. \A l, name : Add(Rec(l), name) = Rec(Append(l, Letter(name)))
      BY <2>5
    <3>2. m = Add(Add(Add(Rec(e), 115), 102), 98)
      BY <2>8, <2>9
    <3> HIDE DEF Rec, m
    <3>3. m = Rec(l3)
      BY <3>1, <3>2
    <3> QED BY <3>3 DEF Rec
  <2>11. l3 = names
    <3>1. ASSUME NEW x, NEW y, NEW z
          PROVE  Append(Append(Append(<< >>, x), y), z) = <<x, y, z>>
      <4> DEFINE S == {x, y, z}
      <4>1. /\ x \in S /\ y \in S /\ z \in S /\ << >> \in Seq(S)
            /\ <<x>> \in Seq(S) /\ <<y>> \in Seq(S) /\ <<z>> \in Seq(S)
            /\ <<x, y>> \in Seq(S)
        OBVIOUS
      <4> HIDE DEF S
      <4>2. /\ Append(<< >>, x) = << >> \o <<x>>
            /\ Append(<<x>>, y) = <<x>> \o <<y>>
            /\ Append(<<x, y>>, z) = <<x, y>> \o <<z>>
        BY <4>1, AppendIsConcat
      <4>3. (<<x>> \o <<y>>) \o <<z>> = <<x>> \o (<<y>> \o <<z>>)
        BY <4>1, ConcatAssociative
      <4> QED BY <4>2, <4>3, ListsAre, Zenon
    <3> QED BY <3>1 DEF e
  <2> HIDE DEF l3
  <2>12. m.result = <<c>> /\ m.friends = l3 /\ m.unknown = e
    BY <2>10
  <2> QED BY <2>11, <2>12 DEF e
<1>2. /\ fields \in Seq(Seq(Byte)) /\ Len(fields) = 3
  <2>1. ASSUME NEW n \in {Letter(115), Letter(102), Letter(98)}
        PROVE  F!FriendField(n) \in Seq(Byte)
    <3>1. Clean(Letter(115), 1) /\ Clean(Letter(102), 1) /\ Clean(Letter(98), 1)
      BY CleanBytes
    <3>2. n \in Seq(Byte)
      BY <3>1 DEF Clean, Bytes
    <3>3. Len(n) \in Nat
      BY <3>2, LenProperties
    <3>4. Varint[Len(n)] \in Seq(Byte)
      BY <3>3, VarintIs DEF Bytes
    <3>5. <<18>> \in Seq(Byte)
      <4>1. 18 \in Byte
        BY ByteIs
      <4> QED BY <4>1
    <3>6. <<18>> \o Varint[Len(n)] \in Seq(Byte)
      BY <3>4, <3>5, JoinedBytes, Zenon
    <3>7. <<18>> \o Varint[Len(n)] \o n \in Seq(Byte)
      BY <3>2, <3>6, JoinedBytes, Zenon
    <3>8. F!Varint = Varint
      BY DEF F!Varint, Varint
    <3> QED BY <3>7, <3>8 DEF F!FriendField
  <2>2. DOMAIN names = 1..3
    OBVIOUS
  <2>3. \A i \in 1..3 : names[i] \in {Letter(115), Letter(102), Letter(98)}
    OBVIOUS
  <2> HIDE DEF names
  <2>4. fields \in [1..3 -> Seq(Byte)]
    BY <2>1, <2>2, <2>3
  <2> HIDE DEF fields
  <2> DEFINE S == Seq(Byte)
  <2>5. fields \in [1..3 -> S] /\ 3 \in Nat
    BY <2>4
  <2> HIDE DEF S
  <2>6. fields \in Seq(S) /\ Len(fields) = 3
    <3>1. fields \in Seq(S)
      BY <2>5, SeqDef
    <3> QED BY <2>5, <3>1, LenProperties
  <2> QED BY <2>6 DEF S
<1>3. F!FlattenSeq(fields) \in Seq(Byte)
  BY <1>2, FlatOfThree
<1> DEFINE flat == F!FlattenSeq(fields)
<1>4. b = CodeBytes \o flat \o << >>
  <2>1. m.result # << >> /\ m.result[1] = c
    BY <1>1
  <2>2. b = (IF m.result = << >> THEN << >>
             ELSE <<10>> \o F!Varint[F!ResultCode_ByteSizeLong(m.result[1])]
                    \o F!ResultCode_InternalSerialize(m.result[1]))
            \o F!FlattenSeq([i \in DOMAIN m.friends |-> F!FriendField(m.friends[i])])
            \o m.unknown
    BY DEF F!GetFriendsListResponse_InternalSerialize
  <2>3. F!FlattenSeq([i \in DOMAIN m.friends |-> F!FriendField(m.friends[i])])
          = flat
    <3> HIDE DEF names, m
    <3> QED BY <1>1
  <2> HIDE DEF m, flat, b, names
  <2> QED BY <1>1, <2>1, <2>2, <2>3, CodeBytesAre, Zenon
<1> HIDE DEF flat
<1>5. CodeBytes \o flat \in Seq(Byte) /\ Len(CodeBytes \o flat) >= 1
  BY <1>3, CodeBytesAre, SomeBytes DEF flat
<1>6. b \in Seq(Byte) /\ Len(b) >= 1
  <2>1. << >> \in Seq(Byte)
    BY EmptyBytes
  <2> QED BY <1>4, <1>5, <2>1, SomeBytes
<1> QED BY <1>6

\* No answer is empty: recv() never returns 0 for one.
LEMMA AnswersAre ==
  \A m \in {Login, Register, GetFriendsList} :
    Answer[m] \in Seq(Byte) /\ Len(Answer[m]) >= 1
<1>1. /\ Answer[Login] = U!LoginResponse_InternalSerialize(UserLogin)
      /\ Answer[Register] = U!RegisterResponse_InternalSerialize(UserRegister)
      /\ Answer[GetFriendsList]
           = F!GetFriendsListResponse_InternalSerialize(FriendGetFriendsList)
  BY MethodsDiffer DEF Answer
<1> QED BY <1>1, UserAnswers, FriendsAnswer

-----------------------------------------------------------------------------
(* Calls.                                                                  *)

CallTyped ==
  /\ callerPc \in [Services -> {"call", "zookeeper", "lookup", "connect",
                                "recv", "done", "crashed"}]
  /\ calls \in [Services -> Nat]
  /\ toServer \in [Services -> Seq(Byte)]
  /\ toClient \in [Services -> Seq(Byte)]
  /\ reads \in [Services -> Nat]
  /\ executed = [s \in Services |-> executed[s]]
  /\ outcome = [s \in Services |-> outcome[s]]
  /\ cut = [s \in Services |-> cut[s]]

\* What was executed is the call c, or what came of it.
Faithful(d, c) ==
  /\ d.method = c.method /\ Partly(d.request, c.request)
  /\ d.whole => d.request = c.request

Before == {"zookeeper", "lookup", "connect"}

\* A call is executed by the first read of its request, if at all: what is on
\* its way to the provider is the whole request, or a rest that is none.
CallInv(s) ==
  /\ calls[s] <= Len(Calls[s])
  /\ callerPc[s] \in Before \cup {"recv"} => calls[s] >= 1
  /\ callerPc[s] = "call" => calls[s] < Len(Calls[s])
  /\ callerPc[s] # "recv" => toServer[s] = << >> /\ toClient[s] = << >>
  /\ callerPc[s] \in Before => reads[s] = 0
  /\ callerPc[s] \in Before \cup {"recv"} /\ reads[s] = 0 => executed[s] = << >>
  /\ toServer[s] # << >> /\ reads[s] = 0 => toServer[s] = RequestBytes(s, Call(s))
  /\ toServer[s] # << >> /\ reads[s] # 0 => Quiet(toServer[s])
  /\ toClient[s] # << >> => Len(executed[s]) = 1
  /\ \/ executed[s] = << >>
     \/ \E d : executed[s] = <<d>> /\ Faithful(d, Call(s))
  /\ outcome[s] = "success" /\ ~cut[s] => Len(executed[s]) = 1

CallsInv == CallTyped /\ \A s \in Services : CallInv(s)

\* What a closed connection leaves behind is no request; and it may be closed
\* only when what is on its way is none.
RestsInv ==
  /\ left = [s \in Services |-> [i \in 1..Len(Calls[s]) |-> left[s][i]]]
  /\ serverOpen = [s \in Services |-> serverOpen[s]]
  /\ \A s \in Services :
       /\ \A i \in 1..Len(Calls[s]) : Quiet(left[s][i])
       /\ toServer[s] = << >> \/ serverOpen[s] \/ Quiet(toServer[s])

\* What each example calls.
LEMMA LengthsAre ==
  ASSUME NEW s \in Services
  PROVE  /\ s \in {"user", "friend"} /\ Len(Calls[s]) \in Nat \ {0}
         /\ \A i \in 1..Len(Calls[s]) : ArgsAreRead(s, Calls[s][i])
<1>1. s \in {"user", "friend"}
  BY RpcAssumption
<1>2. Len(Calls[s]) \in Nat \ {0}
  <2>1. CASE s = "user"
    BY <2>1, CallsAre
  <2>2. CASE s = "friend"
    BY <2>2, CallsAre
  <2> QED BY <1>1, <2>1, <2>2
<1> QED BY <1>1, <1>2, CallsAre, Zenon

\* A caller that has not got its answer has a call to make.
LEMMA CallIs ==
  ASSUME NEW s \in Services, CallTyped, CallInv(s),
         callerPc[s] \in Before \cup {"recv"}
  PROVE  /\ s \in {"user", "friend"} /\ ArgsAreRead(s, Call(s))
         /\ Call(s).method \in {Login, Register, GetFriendsList}
<1>1. calls[s] \in 1..Len(Calls[s])
  BY LengthsAre DEF CallTyped, CallInv
<1>2. s \in {"user", "friend"} /\ ArgsAreRead(s, Call(s))
  BY <1>1, LengthsAre DEF Call
<1> QED BY <1>2 DEF ArgsAreRead, Methods

Untouched(t) ==
  /\ callerPc'[t] = callerPc[t] /\ calls'[t] = calls[t]
  /\ toServer'[t] = toServer[t] /\ toClient'[t] = toClient[t]
  /\ reads'[t] = reads[t] /\ executed'[t] = executed[t]
  /\ outcome'[t] = outcome[t] /\ cut'[t] = cut[t]

\* Who is not touched keeps its part of the invariant.
LEMMA UntouchedKeepsCall ==
  ASSUME NEW t, CallInv(t), Untouched(t)
  PROVE  CallInv(t)'
<1>1. Call(t)' = Call(t)
  BY DEF Untouched, Call
<1> QED BY <1>1 DEF CallInv, Untouched

\* A step touches one caller and one provider.
LEMMA OneCallStep ==
  ASSUME CallsInv, NEW s \in Services, CallTyped', CallInv(s)',
         \A t \in Services \ {s} : Untouched(t)
  PROVE  CallsInv'
<1>1. \A t \in Services : CallInv(t)'
  <2> SUFFICES ASSUME NEW t \in Services PROVE CallInv(t)'
    OBVIOUS
  <2>1. CASE t = s
    BY <2>1
  <2>2. CASE t # s
    <3>1. CallInv(t) /\ Untouched(t)
      BY <2>2 DEF CallsInv
    <3> QED BY <3>1, UntouchedKeepsCall
  <2> QED BY <2>1, <2>2
<1> QED BY <1>1 DEF CallsInv

\* The end of a call, whatever its result, if success is true.
LEMMA EndCallKeepsInv ==
  ASSUME CallsInv, NEW s \in Services, NEW result, EndCall(s, result),
         callerPc[s] \in Before \cup {"recv"}, executed' = executed,
         cut' = [cut EXCEPT ![s] = cut'[s]],
         result = "success" /\ ~cut'[s] => Len(executed[s]) = 1
  PROVE  CallsInv'
<1>1. /\ outcome' = [outcome EXCEPT ![s] = result]
      /\ callerPc' = [callerPc EXCEPT ![s] =
                        IF result = "failed" /\ s = "user" THEN "crashed"
                        ELSE IF MoreCalls(s) THEN "call" ELSE "done"]
      /\ toServer' = [toServer EXCEPT ![s] = << >>]
      /\ toClient' = [toClient EXCEPT ![s] = << >>]
      /\ calls' = calls /\ reads' = reads
  BY DEF EndCall
<1>2. CallTyped /\ CallInv(s)
  BY DEF CallsInv
<1>3. CallTyped'
  <2>1. << >> \in Seq(Byte)
    BY EmptyBytes
  <2>2. callerPc' \in [Services -> {"call", "zookeeper", "lookup", "connect",
                                    "recv", "done", "crashed"}]
    BY <1>1, <1>2 DEF CallTyped
  <2>3. /\ toServer' \in [Services -> Seq(Byte)]
        /\ toClient' \in [Services -> Seq(Byte)]
    BY <1>1, <1>2, <2>1 DEF CallTyped
  <2>4. /\ outcome' = [t \in Services |-> outcome'[t]]
        /\ cut' = [t \in Services |-> cut'[t]]
    BY <1>1, <1>2 DEF CallTyped
  <2> QED BY <1>1, <1>2, <2>2, <2>3, <2>4 DEF CallTyped
<1>4. \A t \in Services \ {s} : Untouched(t)
  BY <1>1, <1>2 DEF CallTyped, Untouched
<1>5. CallInv(s)'
  <2>1. /\ toServer'[s] = << >> /\ toClient'[s] = << >>
        /\ outcome'[s] = result
        /\ callerPc'[s] \in {"crashed", "call", "done"}
        /\ callerPc'[s] = "call" => MoreCalls(s)
    BY <1>1, <1>2 DEF CallTyped
  <2>2. Call(s)' = Call(s)
    BY <1>1 DEF Call
  <2>3. calls'[s] <= Len(Calls[s])
        /\ (callerPc'[s] = "call" => calls'[s] < Len(Calls[s]))
    BY <1>1, <1>2, <2>1 DEF CallInv, MoreCalls
  <2>4. \/ executed'[s] = << >>
        \/ \E d : executed'[s] = <<d>> /\ Faithful(d, Call(s)')
    BY <1>2, <2>2 DEF CallInv
  <2>5. outcome'[s] = "success" /\ ~cut'[s] => Len(executed'[s]) = 1
    BY <2>1
  <2>6. callerPc'[s] \notin Before \cup {"recv"}
    BY <2>1 DEF Before
  <2> QED BY <2>1, <2>3, <2>4, <2>5, <2>6 DEF CallInv
<1> QED BY <1>3, <1>4, <1>5, OneCallStep

\* CallMethod() starts: nothing is on its way.
LEMMA BeginKeepsCalls ==
  ASSUME CallsInv, NEW s \in Services, Begin(s)
  PROVE  CallsInv'
<1>1. /\ callerPc[s] = "call"
      /\ callerPc' = [callerPc EXCEPT ![s] = "zookeeper"]
      /\ calls' = [calls EXCEPT ![s] = calls[s] + 1]
      /\ reads' = [reads EXCEPT ![s] = 0]
      /\ cut' = [cut EXCEPT ![s] = FALSE]
      /\ executed' = [executed EXCEPT ![s] = << >>]
      /\ outcome' = [outcome EXCEPT ![s] = "none"]
      /\ UNCHANGED <<toServer, toClient>>
  BY DEF Begin
<1>2. CallTyped /\ CallInv(s)
  BY DEF CallsInv
<1>3. CallTyped'
  <2>1. /\ callerPc' \in [Services -> {"call", "zookeeper", "lookup", "connect",
                                       "recv", "done", "crashed"}]
        /\ calls' \in [Services -> Nat] /\ reads' \in [Services -> Nat]
    BY <1>1, <1>2 DEF CallTyped
  <2>2. /\ executed' = [t \in Services |-> executed'[t]]
        /\ outcome' = [t \in Services |-> outcome'[t]]
        /\ cut' = [t \in Services |-> cut'[t]]
    BY <1>1, <1>2 DEF CallTyped
  <2> QED BY <1>1, <1>2, <2>1, <2>2 DEF CallTyped
<1>4. \A t \in Services \ {s} : Untouched(t)
  BY <1>1, <1>2 DEF CallTyped, Untouched
<1>5. CallInv(s)'
  <2>1. /\ callerPc'[s] = "zookeeper" /\ calls'[s] = calls[s] + 1
        /\ reads'[s] = 0 /\ executed'[s] = << >> /\ outcome'[s] = "none"
        /\ toServer'[s] = << >> /\ toClient'[s] = << >>
    BY <1>1, <1>2 DEF CallTyped, CallInv
  <2>2. calls'[s] <= Len(Calls[s]) /\ calls'[s] >= 1
    BY <1>1, <1>2, <2>1, LengthsAre DEF CallTyped, CallInv
  <2> QED BY <2>1, <2>2 DEF CallInv, Before
<1> QED BY <1>3, <1>4, <1>5, OneCallStep

\* A step of the caller within its call, before it sends anything.
LEMMA WaitKeepsCalls ==
  ASSUME CallsInv, NEW s \in Services, NEW next \in Before \cup {"crashed"},
         callerPc[s] \in Before, callerPc' = [callerPc EXCEPT ![s] = next],
         UNCHANGED <<calls, toServer, toClient, reads, executed, outcome, cut>>
  PROVE  CallsInv'
<1>1. CallTyped /\ CallInv(s)
  BY DEF CallsInv
<1>2. CallTyped'
  BY <1>1 DEF CallTyped, Before
<1>3. \A t \in Services \ {s} : Untouched(t)
  BY <1>1 DEF CallTyped, Untouched
<1>4. CallInv(s)'
  <2>1. callerPc'[s] = next /\ Call(s)' = Call(s)
    BY <1>1 DEF CallTyped, Call
  <2> QED BY <1>1, <2>1 DEF CallInv, Before
<1> QED BY <1>2, <1>3, <1>4, OneCallStep

\* The request is sent: all of it is on its way.
LEMMA SendKeepsCalls ==
  ASSUME CallsInv, NEW s \in Services, Send(s)
  PROVE  CallsInv'
<1>1. CallTyped /\ CallInv(s) /\ callerPc[s] = "connect" /\ callerPc[s] \in Before
  BY DEF CallsInv, Send, Before
<1>2. CASE EndCall(s, "failed")
  <2>1. executed' = executed /\ cut' = [cut EXCEPT ![s] = cut'[s]]
    BY <1>1 DEF Send, CallTyped
  <2> QED BY <1>1, <1>2, <2>1, EndCallKeepsInv
<1>3. CASE ~EndCall(s, "failed")
  <2>1. /\ callerPc' = [callerPc EXCEPT ![s] = "recv"]
        /\ toServer' = [toServer EXCEPT ![s] = RequestBytes(s, Call(s))]
        /\ UNCHANGED <<calls, outcome, toClient, reads, cut, executed>>
    BY <1>3 DEF Send
  <2>2. RequestBytes(s, Call(s)) \in Seq(Byte)
    <3>1. RequestBytes(s, Call(s)) \in Bytes
      BY <1>1, CallIs, RequestIs
    <3> QED BY <3>1 DEF Bytes
  <2>3. CallTyped'
    BY <1>1, <2>1, <2>2 DEF CallTyped
  <2>4. \A t \in Services \ {s} : Untouched(t)
    BY <1>1, <2>1 DEF CallTyped, Untouched
  <2>5. CallInv(s)'
    <3>1. /\ callerPc'[s] = "recv" /\ Call(s)' = Call(s)
          /\ toServer'[s] = RequestBytes(s, Call(s))
      BY <1>1, <2>1 DEF CallTyped, Call
    <3>2. reads'[s] = 0 /\ executed'[s] = << >> /\ toClient'[s] = << >>
      BY <1>1, <2>1 DEF CallInv, Before
    <3> QED BY <1>1, <2>1, <3>1, <3>2 DEF CallInv, Before
  <2> QED BY <2>3, <2>4, <2>5, OneCallStep
<1> QED BY <1>2, <1>3

\* Only an answer from which nothing is missing counts as success.
LEMMA ReceiveKeepsCalls ==
  ASSUME CallsInv, NEW s \in Services, Receive(s)
  PROVE  CallsInv'
<1>1. CallTyped /\ CallInv(s) /\ callerPc[s] = "recv"
      /\ callerPc[s] \in Before \cup {"recv"} /\ executed' = executed
  BY DEF CallsInv, Receive
<1>2. PICK k \in 0..Len(toClient[s]) :
        /\ cut' = [cut EXCEPT ![s] = k < Len(Answer[Call(s).method])]
        /\ EndCall(s, Reported(s, SubSeq(toClient[s], 1, k)))
  BY DEF Receive
<1>3. cut'[s] = (k < Len(Answer[Call(s).method]))
  BY <1>1, <1>2 DEF CallTyped
<1>4. ~cut'[s] => Len(executed[s]) = 1
  <2> SUFFICES ASSUME ~cut'[s] PROVE Len(executed[s]) = 1
    OBVIOUS
  <2>1. /\ Answer[Call(s).method] \in Seq(Byte)
        /\ Len(Answer[Call(s).method]) >= 1
    BY <1>1, CallIs, AnswersAre
  <2>2. Len(Answer[Call(s).method]) \in Nat
    BY <2>1, LenProperties
  <2>3. toClient[s] \in Seq(Byte) /\ Len(toClient[s]) \in Nat
    BY <1>1, LenProperties DEF CallTyped
  <2>4. Len(toClient[s]) > 0
    <3> DEFINE n == Len(Answer[Call(s).method])  l == Len(toClient[s])
    <3>1. n \in Nat /\ n >= 1 /\ l \in Nat /\ ~(k < n) /\ k \in 0..l
      BY <1>3, <2>1, <2>2, <2>3
    <3> HIDE DEF n, l
    <3>2. l > 0
      BY <3>1
    <3> QED BY <3>2 DEF l
  <2>5. toClient[s] # << >>
    BY <2>3, <2>4, EmptyBytes
  <2> QED BY <1>1, <2>5 DEF CallInv
<1> DEFINE result == Reported(s, SubSeq(toClient[s], 1, k))
<1> HIDE DEF result
<1>5. EndCall(s, result)
  BY <1>2 DEF result
<1>6. cut' = [cut EXCEPT ![s] = cut'[s]]
  BY <1>1, <1>2 DEF CallTyped
<1> QED BY <1>1, <1>4, <1>5, <1>6, EndCallKeepsInv

\* Steps that lose what is on its way to the provider.
LEMMA LossKeepsCalls ==
  ASSUME CallsInv, NEW s \in Services, NEW n \in Nat,
         n = reads[s] \/ (callerPc[s] = "recv" /\ n # 0),
         toServer' = [toServer EXCEPT ![s] = << >>],
         reads' = [reads EXCEPT ![s] = n],
         UNCHANGED <<callerPc, calls, toClient, executed, outcome, cut>>
  PROVE  CallsInv'
<1>1. CallTyped /\ CallInv(s)
  BY DEF CallsInv
<1>2. CallTyped'
  <2>1. << >> \in Seq(Byte)
    BY EmptyBytes
  <2> QED BY <1>1, <2>1 DEF CallTyped
<1>3. \A t \in Services \ {s} : Untouched(t)
  BY <1>1 DEF CallTyped, Untouched
<1>4. CallInv(s)'
  <2>1. toServer'[s] = << >> /\ reads'[s] = n /\ Call(s)' = Call(s)
    BY <1>1 DEF CallTyped, Call
  <2>2. "recv" \notin Before
    BY DEF Before
  <2> QED BY <1>1, <2>1, <2>2 DEF CallInv
<1> QED BY <1>2, <1>3, <1>4, OneCallStep

\* A process that dies loses what was on its way to it.
LEMMA DeathKeepsCalls ==
  ASSUME CallsInv, NEW s \in Services, Dies(s),
         UNCHANGED <<callerVars, toClient, reads, historyVars>>
  PROVE  CallsInv'
<1>1. reads[s] \in Nat /\ reads' = [reads EXCEPT ![s] = reads[s]]
  BY DEF CallsInv, CallTyped
<1>2. /\ toServer' = [toServer EXCEPT ![s] = << >>]
      /\ UNCHANGED <<callerPc, calls, toClient, executed, outcome, cut>>
  BY DEF Dies, callerVars, historyVars
<1> QED BY <1>1, <1>2, LossKeepsCalls

\* What one read of the provider is: of a request from its beginning, or of a
\* rest, which it does not answer.
LEMMA ReadIs ==
  ASSUME CallsInv, NEW s \in Services, toServer[s] # << >>,
         NEW k \in 1..Len(toServer[s])
  PROVE  /\ callerPc[s] = "recv"
         /\ Quiet(SubSeq(toServer[s], k + 1, Len(toServer[s])))
         /\ LET m == OnMessage(s, SubSeq(toServer[s], 1, k)) IN
            \/ m \in {Throws, Returns}
            \/ /\ reads[s] = 0
               /\ \E q : /\ m = [end |-> "answers", method |-> Call(s).method,
                                 request |-> q]
                         /\ Partly(q, Call(s).request)
                         /\ k = Len(toServer[s]) => q = Call(s).request
<1>1. CallTyped /\ CallInv(s)
  BY DEF CallsInv
<1>2. callerPc[s] = "recv"
  BY <1>1 DEF CallInv
<1>3. s \in {"user", "friend"} /\ ArgsAreRead(s, Call(s))
  BY <1>1, <1>2, CallIs
<1> DEFINE m == OnMessage(s, SubSeq(toServer[s], 1, k))
           Answers == /\ reads[s] = 0
                      /\ \E q : /\ m = [end |-> "answers",
                                        method |-> Call(s).method, request |-> q]
                                /\ Partly(q, Call(s).request)
                                /\ k = Len(toServer[s]) => q = Call(s).request
<1>4. CASE reads[s] = 0
  <2> DEFINE c == Call(s)
  <2> HIDE DEF c
  <2>1. toServer[s] = RequestBytes(s, c)
    BY <1>1, <1>4 DEF CallInv, c
  <2>2. s \in {"user", "friend"} /\ ArgsAreRead(s, c)
        /\ k \in 1..Len(RequestBytes(s, c))
    BY <1>3, <2>1 DEF c
  <2>3. Quiet(SubSeq(RequestBytes(s, c), k + 1, Len(RequestBytes(s, c))))
    BY <2>2, RestIsQuiet
  <2>4. m \notin {Throws, Returns} => Answers
    <3> SUFFICES ASSUME m \notin {Throws, Returns} PROVE Answers
      OBVIOUS
    <3>1. OnMessage(s, SubSeq(RequestBytes(s, c), 1, k)) \notin {Throws, Returns}
      BY <2>1
    <3>2. PICK q : /\ OnMessage(s, SubSeq(RequestBytes(s, c), 1, k))
                        = [end |-> "answers", method |-> c.method, request |-> q]
                   /\ Partly(q, c.request)
                   /\ k = Len(RequestBytes(s, c)) => q = c.request
      BY <2>2, <3>1, FirstRead
    <3> QED BY <1>4, <2>1, <3>2 DEF c
  <2> HIDE DEF m, Answers
  <2>5. Quiet(SubSeq(toServer[s], k + 1, Len(toServer[s])))
    BY <2>1, <2>3
  <2> QED BY <1>2, <2>4, <2>5 DEF m, Answers
<1>5. CASE reads[s] # 0
  <2>1. Quiet(toServer[s])
    BY <1>1, <1>5 DEF CallInv
  <2>2. /\ Quiet(SubSeq(toServer[s], 1, k))
        /\ Quiet(SubSeq(toServer[s], k + 1, Len(toServer[s])))
    BY <2>1, QuietParts
  <2>3. m \in {Throws, Returns}
    BY <2>2, QuietIsNoRequest
  <2> QED BY <1>2, <2>2, <2>3
<1> QED BY <1>4, <1>5

\* The provider reads some of the bytes that wait for it.
LEMMA DeliverKeepsCalls ==
  ASSUME CallsInv, NEW s \in Services, Deliver(s)
  PROVE  CallsInv'
<1>1. CallTyped /\ CallInv(s) /\ toServer[s] # << >>
  BY DEF CallsInv, Deliver
<1>2. PICK k \in 1..Len(toServer[s]) :
      \E m \in {OnMessage(s, SubSeq(toServer[s], 1, k))} :
       /\ reads' = [reads EXCEPT ![s] = @ + 1]
       /\ IF m.end = "throws"
          THEN /\ Dies(s)
               /\ UNCHANGED <<toClient, executed>>
          ELSE /\ toServer' = [toServer EXCEPT
                                ![s] = SubSeq(@, k + 1, Len(@))]
               /\ IF m.end = "answers" /\ serverOpen[s]
                  THEN /\ serverOpen' = [serverOpen EXCEPT ![s] = FALSE]
                       /\ toClient' = [toClient EXCEPT
                                         ![s] = Answer[m.method]]
                  ELSE UNCHANGED <<serverOpen, toClient>>
               /\ executed' = IF m.end # "answers" THEN executed
                    ELSE [executed EXCEPT ![s] =
                           Append(@, [method |-> m.method,
                                      request |-> m.request,
                                      whole |-> /\ reads[s] = 0
                                                /\ k = Len(toServer[s])])]
  BY DEF Deliver, Executed
<1> DEFINE m == OnMessage(s, SubSeq(toServer[s], 1, k))
           rest == SubSeq(toServer[s], k + 1, Len(toServer[s]))
           Answers(q) == /\ m = [end |-> "answers", method |-> Call(s).method,
                                 request |-> q]
                         /\ Partly(q, Call(s).request)
                         /\ k = Len(toServer[s]) => q = Call(s).request
<1>3. /\ callerPc[s] = "recv" /\ Quiet(rest)
      /\ m \in {Throws, Returns} \/ (reads[s] = 0 /\ \E q : Answers(q))
  <2> HIDE DEF m
  <2>1. /\ callerPc[s] = "recv" /\ Quiet(rest)
        /\ LET n == OnMessage(s, SubSeq(toServer[s], 1, k)) IN
            \/ n \in {Throws, Returns}
            \/ /\ reads[s] = 0
               /\ \E q : /\ n = [end |-> "answers", method |-> Call(s).method,
                                 request |-> q]
                         /\ Partly(q, Call(s).request)
                         /\ k = Len(toServer[s]) => q = Call(s).request
    BY <1>1, ReadIs
  <2> QED BY <2>1 DEF m
<1>4. /\ reads' = [reads EXCEPT ![s] = reads[s] + 1] /\ reads[s] + 1 \in Nat
      /\ reads[s] + 1 # 0
      /\ UNCHANGED <<callerPc, calls, outcome, cut>>
  BY <1>1, <1>2 DEF Deliver, callerVars, CallTyped
<1>5. /\ m.end = "throws" => /\ toServer' = [toServer EXCEPT ![s] = << >>]
                             /\ UNCHANGED <<toClient, executed>>
      /\ m.end # "throws" =>
           /\ toServer' = [toServer EXCEPT ![s] = rest]
           /\ \/ UNCHANGED toClient
              \/ /\ m.end = "answers"
                 /\ toClient' = [toClient EXCEPT ![s] = Answer[m.method]]
           /\ m.end # "answers" => executed' = executed
           /\ m.end = "answers" =>
                executed' = [executed EXCEPT ![s] =
                              Append(executed[s],
                                     [method |-> m.method,
                                      request |-> m.request,
                                      whole |-> /\ reads[s] = 0
                                                /\ k = Len(toServer[s])])]
  <2> HIDE DEF m
  <2>1. \E x \in {m} :
       /\ IF x.end = "throws"
          THEN /\ Dies(s)
               /\ UNCHANGED <<toClient, executed>>
          ELSE /\ toServer' = [toServer EXCEPT ![s] = rest]
               /\ IF x.end = "answers" /\ serverOpen[s]
                  THEN /\ serverOpen' = [serverOpen EXCEPT ![s] = FALSE]
                       /\ toClient' = [toClient EXCEPT
                                         ![s] = Answer[x.method]]
                  ELSE UNCHANGED <<serverOpen, toClient>>
               /\ executed' = IF x.end # "answers" THEN executed
                    ELSE [executed EXCEPT ![s] =
                           Append(executed[s],
                                  [method |-> x.method,
                                   request |-> x.request,
                                   whole |-> /\ reads[s] = 0
                                             /\ k = Len(toServer[s])])]
    BY <1>2 DEF m
  <2> HIDE DEF rest
  <2> QED BY <2>1 DEF Dies
<1> HIDE DEF rest
<1>6. CASE m.end = "throws"
  <2> HIDE DEF m
  <2> QED BY <1>3, <1>4, <1>5, <1>6, LossKeepsCalls
<1>7. CASE m \in {Throws, Returns} /\ m.end # "throws"
  <2> HIDE DEF m
  <2>1. m.end = "returns"
    BY <1>7 DEF Throws, Returns
  <2>2. toServer' = [toServer EXCEPT ![s] = rest] /\ toClient' = toClient
        /\ executed' = executed
    BY <1>5, <2>1
  <2>3. CallTyped'
    <3>1. rest \in Seq(Byte)
      BY <1>3 DEF Quiet, Bytes
    <3> QED BY <1>1, <1>4, <2>2, <3>1 DEF CallTyped
  <2>4. \A t \in Services \ {s} : Untouched(t)
    BY <1>1, <1>4, <2>2 DEF CallTyped, Untouched
  <2>5. CallInv(s)'
    <3>1. toServer'[s] = rest /\ reads'[s] = reads[s] + 1 /\ Call(s)' = Call(s)
      BY <1>1, <1>4, <2>2 DEF CallTyped, Call
    <3>2. reads'[s] # 0
      BY <1>4, <3>1
    <3> QED BY <1>1, <1>3, <1>4, <2>2, <3>1, <3>2 DEF CallInv, Before
  <2> QED BY <2>3, <2>4, <2>5, OneCallStep
<1>8. CASE m \notin {Throws, Returns} /\ m.end # "throws"
  <2> HIDE DEF m
  <2>1. PICK q : Answers(q)
    BY <1>3, <1>8
  <2>2. reads[s] = 0 /\ executed[s] = << >>
    BY <1>1, <1>3, <1>8 DEF CallInv
  <2>3. m.end = "answers" /\ m.method = Call(s).method /\ m.request = q
    BY <2>1
  <2> DEFINE d == [method |-> Call(s).method, request |-> q,
                   whole |-> reads[s] = 0 /\ k = Len(toServer[s])]
  <2>4. Faithful(d, Call(s))
    BY <2>1 DEF Faithful
  <2>5. executed' = [executed EXCEPT ![s] = Append(executed[s], d)]
    BY <1>5, <2>3
  <2> HIDE DEF d
  <2>6. executed' = [executed EXCEPT ![s] = <<d>>]
    <3>1. Append(<< >>, d) = <<d>>
      OBVIOUS
    <3> QED BY <2>2, <2>5, <3>1
  <2>7. /\ toServer' = [toServer EXCEPT ![s] = rest]
        /\ toClient' = toClient
           \/ toClient' = [toClient EXCEPT ![s] = Answer[Call(s).method]]
    BY <1>5, <2>3
  <2>8. Answer[Call(s).method] \in Seq(Byte)
    BY <1>1, <1>3, CallIs, AnswersAre
  <2>9. CallTyped'
    <3>1. rest \in Seq(Byte)
      BY <1>3 DEF Quiet, Bytes
    <3>2. /\ toServer' \in [Services -> Seq(Byte)]
          /\ toClient' \in [Services -> Seq(Byte)]
      BY <1>1, <2>7, <2>8, <3>1 DEF CallTyped
    <3>3. executed' = [t \in Services |-> executed'[t]]
      BY <1>1, <2>6 DEF CallTyped
    <3> QED BY <1>1, <1>4, <3>2, <3>3 DEF CallTyped
  <2>10. \A t \in Services \ {s} : Untouched(t)
    BY <1>1, <1>4, <2>6, <2>7 DEF CallTyped, Untouched
  <2>11. CallInv(s)'
    <3>1. toServer'[s] = rest /\ reads'[s] = reads[s] + 1 /\ Call(s)' = Call(s)
          /\ executed'[s] = <<d>>
      BY <1>1, <1>4, <2>6, <2>7 DEF CallTyped, Call
    <3>2. reads'[s] # 0
      BY <1>4, <3>1
    <3>3. Len(executed'[s]) = 1
      BY <3>1
    <3>4. \E e : executed'[s] = <<e>> /\ Faithful(e, Call(s)')
      BY <2>4, <3>1
    <3> QED BY <1>1, <1>3, <1>4, <3>1, <3>2, <3>3, <3>4 DEF CallInv, Before
  <2> QED BY <2>9, <2>10, <2>11, OneCallStep
<1> QED BY <1>6, <1>7, <1>8

\* Steps of the registration touch no call.
LEMMA OthersKeepCalls ==
  ASSUME CallsInv,
         UNCHANGED <<callerPc, calls, toServer, toClient, reads, historyVars>>
  PROVE  CallsInv'
<1>1. \A t \in Services : CallInv(t) /\ Untouched(t)
  BY DEF CallsInv, Untouched, historyVars
<1>2. \A t \in Services : CallInv(t)'
  BY <1>1, UntouchedKeepsCall
<1>3. CallTyped'
  BY DEF CallsInv, CallTyped, historyVars
<1> QED BY <1>2, <1>3 DEF CallsInv

\* What a read finds on a closed connection is not executed, but may be the
\* provider's end.
LEMMA RestIsNotExecuted ==
  ASSUME RestsInv, NEW s \in Services, ReadRest(s)
  PROVE  /\ executed' = executed
         /\ \/ Dies(s)
            \/ /\ UNCHANGED <<pc, zk, todo, serverOpen, toServer>>
               /\ \E i \in 1..Len(Calls[s]) : \E b \in Bytes :
                    Quiet(b) /\ left' = [left EXCEPT ![s][i] = b]
<1>0. PICK i \in 1..Len(Calls[s]) :
        \E k \in 1..Len(left[s][i]) :
        \E m \in {OnMessage(s, SubSeq(left[s][i], 1, k))} :
          IF m.end = "throws"
          THEN Dies(s) /\ UNCHANGED executed
          ELSE /\ left' = [left EXCEPT ![s][i] = SubSeq(@, k + 1, Len(@))]
               /\ executed' = Executed(s, m, FALSE)
               /\ UNCHANGED <<pc, zk, todo, serverOpen, toServer>>
  BY DEF ReadRest
<1>1. PICK k \in 1..Len(left[s][i]) :
        \E m \in {OnMessage(s, SubSeq(left[s][i], 1, k))} :
          IF m.end = "throws"
          THEN Dies(s) /\ UNCHANGED executed
          ELSE /\ left' = [left EXCEPT ![s][i] = SubSeq(@, k + 1, Len(@))]
               /\ executed' = Executed(s, m, FALSE)
               /\ UNCHANGED <<pc, zk, todo, serverOpen, toServer>>
  BY <1>0
<1>2. Quiet(left[s][i])
  BY DEF RestsInv
<1>3. PICK b : b = SubSeq(left[s][i], k + 1, Len(left[s][i]))
  OBVIOUS
<1>4. Quiet(SubSeq(left[s][i], 1, k)) /\ Quiet(b)
  BY <1>2, <1>3, QuietParts
<1>5. OnMessage(s, SubSeq(left[s][i], 1, k)) \in {Throws, Returns}
  BY <1>4, QuietIsNoRequest
<1>6. PICK m \in {Throws, Returns} :
          IF m.end = "throws"
          THEN Dies(s) /\ UNCHANGED executed
          ELSE /\ left' = [left EXCEPT ![s][i] = SubSeq(@, k + 1, Len(@))]
               /\ executed' = Executed(s, m, FALSE)
               /\ UNCHANGED <<pc, zk, todo, serverOpen, toServer>>
  BY <1>1, <1>5
<1>7. CASE m.end = "throws"
  BY <1>6, <1>7
<1>8. CASE m.end # "throws"
  <2>1. m.end # "answers"
    BY DEF Throws, Returns
  <2>2. executed' = executed
    BY <1>6, <1>8, <2>1 DEF Executed
  <2>3. left' = [left EXCEPT ![s][i] = b]
    BY <1>3, <1>6, <1>8
  <2>4. b \in Bytes
    BY <1>4 DEF Quiet
  <2> QED BY <1>4, <1>6, <1>8, <2>2, <2>3, <2>4
<1> QED BY <1>7, <1>8

\* A step touches what is on its way to one provider.
LEMMA OneRestStep ==
  ASSUME RestsInv, CallTyped, NEW s \in Services, NEW f, NEW o, NEW b,
         f = [i \in 1..Len(Calls[s]) |-> f[i]],
         \A i \in 1..Len(Calls[s]) : Quiet(f[i]),
         left' = [left EXCEPT ![s] = f],
         serverOpen' = [serverOpen EXCEPT ![s] = o],
         toServer' = [toServer EXCEPT ![s] = b],
         b = << >> \/ o \/ Quiet(b)
  PROVE  RestsInv'
<1>1. /\ left'[s] = f /\ serverOpen'[s] = o /\ toServer'[s] = b
      /\ \A t \in Services \ {s} : /\ left'[t] = left[t]
                                   /\ serverOpen'[t] = serverOpen[t]
                                   /\ toServer'[t] = toServer[t]
  BY DEF RestsInv, CallTyped
<1>2. ASSUME NEW t \in Services
      PROVE  left'[t] = [i \in 1..Len(Calls[t]) |-> left'[t][i]]
  <2>1. CASE t = s
    BY <1>1, <2>1
  <2>2. CASE t # s
    <3>1. left[t] = [i \in 1..Len(Calls[t]) |-> left[t][i]]
      BY DEF RestsInv
    <3> QED BY <1>1, <2>2, <3>1
  <2> QED BY <2>1, <2>2
<1>3. left' = [t \in Services |-> left'[t]]
      /\ serverOpen' = [t \in Services |-> serverOpen'[t]]
  BY DEF RestsInv
<1>4. left' = [t \in Services |-> [i \in 1..Len(Calls[t]) |-> left'[t][i]]]
  BY <1>2, <1>3
<1>5. ASSUME NEW t \in Services
      PROVE  /\ \A i \in 1..Len(Calls[t]) : Quiet(left'[t][i])
             /\ toServer'[t] = << >> \/ serverOpen'[t] \/ Quiet(toServer'[t])
  <2>1. CASE t = s
    BY <1>1, <2>1
  <2>2. CASE t # s
    BY <1>1, <2>2 DEF RestsInv
  <2> QED BY <2>1, <2>2
<1> QED BY <1>3, <1>4, <1>5 DEF RestsInv, Quiet

LEMMA NothingIsQuiet == Quiet(<< >>)
BY EmptyBytes DEF Quiet, Bytes

\* A process that dies takes its connections with it.
LEMMA DeathKeepsRests ==
  ASSUME RestsInv, CallTyped, NEW s \in Services, Dies(s)
  PROVE  RestsInv'
<1>1. PICK f : f = [i \in 1..Len(Calls[s]) |-> << >>]
  OBVIOUS
<1>2. /\ f = [i \in 1..Len(Calls[s]) |-> f[i]]
      /\ \A i \in 1..Len(Calls[s]) : Quiet(f[i])
  BY <1>1, NothingIsQuiet
<1>3. /\ left' = [left EXCEPT ![s] = f]
      /\ serverOpen' = [serverOpen EXCEPT ![s] = FALSE]
      /\ toServer' = [toServer EXCEPT ![s] = << >>]
  BY <1>1 DEF Dies
<1> QED BY <1>2, <1>3, OneRestStep

\* A caller closes its connection.
LEMMA EndCallKeepsRests ==
  ASSUME RestsInv, CallTyped, NEW s \in Services, NEW result, EndCall(s, result),
         Quiet(toServer[s])
  PROVE  RestsInv'
<1>1. PICK f : f = [left[s] EXCEPT ![calls[s]] = toServer[s]]
  OBVIOUS
<1>2. /\ f = [i \in 1..Len(Calls[s]) |-> f[i]]
      /\ \A i \in 1..Len(Calls[s]) : Quiet(f[i])
  <2>1. left[s] = [i \in 1..Len(Calls[s]) |-> left[s][i]]
        /\ \A i \in 1..Len(Calls[s]) : Quiet(left[s][i])
    BY DEF RestsInv
  <2>2. f = [i \in 1..Len(Calls[s]) |-> f[i]]
    BY <1>1, <2>1
  <2>3. ASSUME NEW i \in 1..Len(Calls[s])
        PROVE  f[i] = toServer[s] \/ f[i] = left[s][i]
    BY <1>1, <2>1
  <2> QED BY <2>1, <2>2, <2>3
<1>3. /\ left' = [left EXCEPT ![s] = f]
      /\ serverOpen' = [serverOpen EXCEPT ![s] = FALSE]
      /\ toServer' = [toServer EXCEPT ![s] = << >>]
  BY <1>1 DEF EndCall
<1> QED BY <1>2, <1>3, OneRestStep

\* Steps that leave the connections as they are.
LEMMA OthersKeepRests ==
  ASSUME RestsInv, UNCHANGED <<left, serverOpen, toServer>>
  PROVE  RestsInv'
BY DEF RestsInv

\* A request is sent.
LEMMA SendKeepsRests ==
  ASSUME RestsInv, CallsInv, NEW s \in Services, Send(s)
  PROVE  RestsInv'
<1>1. CallTyped /\ toServer[s] = << >>
  BY DEF CallsInv, CallInv, Send
<1>2. CASE EndCall(s, "failed")
  BY <1>1, <1>2, NothingIsQuiet, EndCallKeepsRests
<1>3. CASE ~EndCall(s, "failed")
  <2>1. /\ serverOpen' = [serverOpen EXCEPT ![s] = TRUE]
        /\ toServer' = [toServer EXCEPT ![s] = RequestBytes(s, Call(s))]
        /\ left' = left
    BY <1>3 DEF Send
  <2>2. /\ left[s] = [i \in 1..Len(Calls[s]) |-> left[s][i]]
        /\ \A i \in 1..Len(Calls[s]) : Quiet(left[s][i])
        /\ left' = [left EXCEPT ![s] = left[s]]
    BY <2>1 DEF RestsInv
  <2> QED BY <1>1, <2>1, <2>2, OneRestStep
<1> QED BY <1>2, <1>3

\* The provider reads some of a request; what it leaves is a rest.
LEMMA DeliverKeepsRests ==
  ASSUME RestsInv, CallsInv, NEW s \in Services, Deliver(s)
  PROVE  RestsInv'
<1>1. CallTyped /\ toServer[s] # << >>
  BY DEF CallsInv, Deliver
<1>2. PICK k \in 1..Len(toServer[s]) :
        \/ Dies(s)
        \/ /\ toServer' = [toServer EXCEPT ![s] = SubSeq(@, k + 1, Len(@))]
           /\ \/ serverOpen' = [serverOpen EXCEPT ![s] = FALSE]
              \/ UNCHANGED serverOpen
           /\ UNCHANGED left
  BY DEF Deliver
<1>3. PICK b : b = SubSeq(toServer[s], k + 1, Len(toServer[s]))
  OBVIOUS
<1>4. Quiet(b)
  BY <1>1, <1>3, ReadIs
<1>5. CASE Dies(s)
  BY <1>1, <1>5, DeathKeepsRests
<1>6. CASE ~Dies(s)
  <2>1. toServer' = [toServer EXCEPT ![s] = b] /\ left' = left
    BY <1>2, <1>3, <1>6
  <2>2. PICK o : serverOpen' = [serverOpen EXCEPT ![s] = o]
    <3>1. serverOpen = [serverOpen EXCEPT ![s] = serverOpen[s]]
      BY DEF RestsInv
    <3> QED BY <1>2, <1>6, <3>1
  <2>3. /\ left[s] = [i \in 1..Len(Calls[s]) |-> left[s][i]]
        /\ \A i \in 1..Len(Calls[s]) : Quiet(left[s][i])
        /\ left' = [left EXCEPT ![s] = left[s]]
    BY <2>1 DEF RestsInv
  <2> QED BY <1>1, <1>4, <2>1, <2>2, <2>3, OneRestStep
<1> QED BY <1>5, <1>6

\* The provider reads some of a rest.
LEMMA RestKeepsRests ==
  ASSUME RestsInv, CallTyped, NEW s \in Services, ReadRest(s)
  PROVE  RestsInv'
<1>1. CASE Dies(s)
  BY <1>1, DeathKeepsRests
<1>2. CASE ~Dies(s)
  <2>1. PICK i \in 1..Len(Calls[s]), b \in Bytes :
          Quiet(b) /\ left' = [left EXCEPT ![s][i] = b]
    BY <1>2, RestIsNotExecuted
  <2>2. UNCHANGED <<serverOpen, toServer>>
    BY <1>2, RestIsNotExecuted
  <2>3. PICK f : f = [left[s] EXCEPT ![i] = b]
    OBVIOUS
  <2>4. /\ f = [j \in 1..Len(Calls[s]) |-> f[j]]
        /\ \A j \in 1..Len(Calls[s]) : Quiet(f[j])
    <3>1. left[s] = [j \in 1..Len(Calls[s]) |-> left[s][j]]
          /\ \A j \in 1..Len(Calls[s]) : Quiet(left[s][j])
      BY DEF RestsInv
    <3>2. f = [j \in 1..Len(Calls[s]) |-> f[j]]
      BY <2>3, <3>1
    <3>3. ASSUME NEW j \in 1..Len(Calls[s])
          PROVE  f[j] = b \/ f[j] = left[s][j]
      BY <2>3, <3>1
    <3> QED BY <2>1, <3>1, <3>2, <3>3
  <2>5. /\ left' = [left EXCEPT ![s] = f]
        /\ serverOpen' = [serverOpen EXCEPT ![s] = serverOpen[s]]
        /\ toServer' = [toServer EXCEPT ![s] = toServer[s]]
        /\ toServer[s] = << >> \/ serverOpen[s] \/ Quiet(toServer[s])
    BY <2>1, <2>2, <2>3 DEF RestsInv, CallTyped
  <2> QED BY <2>4, <2>5, OneRestStep
<1> QED BY <1>1, <1>2

\* A caller closes its connection when the provider has answered or has died.
LEMMA CallerKeepsRests ==
  ASSUME RestsInv, CallsInv, NEW s \in Services, Caller(s)
  PROVE  RestsInv'
<1>1. CallTyped /\ CallInv(s)
  BY DEF CallsInv
<1>2. CASE Begin(s) \/ CallerSetContext(s) \/ CallerConnected(s)
  BY <1>2, OthersKeepRests DEF Begin, CallerSetContext, CallerConnected, connVars
<1>3. CASE Lookup(s)
  <2>1. toServer[s] = << >>
    BY <1>1, <1>3 DEF Lookup, CallInv
  <2>2. EndCall(s, "failed") \/ UNCHANGED <<left, serverOpen, toServer>>
    BY <1>3 DEF Lookup, connVars
  <2> QED BY <1>1, <2>1, <2>2, NothingIsQuiet, EndCallKeepsRests, OthersKeepRests
<1>4. CASE Send(s)
  BY <1>4, SendKeepsRests
<1>5. CASE Receive(s)
  <2>1. PICK k \in 0..Len(toClient[s]) :
          /\ k = 0 => toClient[s] = << >> /\ ~serverOpen[s]
          /\ EndCall(s, Reported(s, SubSeq(toClient[s], 1, k)))
    BY <1>5 DEF Receive
  <2>2. callerPc[s] = "recv"
    BY <1>5 DEF Receive
  <2>3. CASE toClient[s] = << >>
    <3>1. k = 0
      BY <2>3
    <3>2. toServer[s] = << >> \/ Quiet(toServer[s])
      BY <2>1, <3>1 DEF RestsInv
    <3> QED BY <1>1, <2>1, <3>2, NothingIsQuiet, EndCallKeepsRests
  <2>4. CASE toClient[s] # << >>
    <3>1. Len(executed[s]) = 1
      BY <1>1, <2>4 DEF CallInv
    <3>2. executed[s] # << >>
      BY <3>1
    <3>3. reads[s] # 0
      BY <1>1, <2>2, <3>2 DEF CallInv
    <3>4. toServer[s] = << >> \/ Quiet(toServer[s])
      BY <1>1, <3>3 DEF CallInv
    <3> QED BY <1>1, <2>1, <3>4, NothingIsQuiet, EndCallKeepsRests
  <2> QED BY <2>3, <2>4
<1>6. CASE Reset(s)
  <2>1. EndCall(s, "failed") /\ ~serverOpen[s]
    BY <1>6 DEF Reset
  <2>2. toServer[s] = << >> \/ Quiet(toServer[s])
    BY <2>1 DEF RestsInv
  <2> QED BY <1>1, <2>1, <2>2, NothingIsQuiet, EndCallKeepsRests
<1> QED BY <1>2, <1>3, <1>4, <1>5, <1>6 DEF Caller

\* Every step keeps the rests rests.
LEMMA NextKeepsRests ==
  ASSUME RestsInv, CallsInv, [Next]_vars
  PROVE  RestsInv'
<1> USE DEF connVars
<1>0. CallTyped
  BY DEF CallsInv
<1>1. ASSUME NEW s \in Services, Launch(s) \/ SetContext(s) \/ Exists(s) \/ Serve(s)
      PROVE  RestsInv'
  BY <1>1, OthersKeepRests DEF Launch, SetContext, Exists, Serve
<1>2. ASSUME NEW s \in Services, Crash(s)
      PROVE  RestsInv'
  BY <1>0, <1>2, DeathKeepsRests DEF Crash
<1>3. ASSUME NEW s \in Services, Connected(s) \/ Create(s)
      PROVE  RestsInv'
  <2>1. Dies(s) \/ UNCHANGED <<left, serverOpen, toServer>>
    BY <1>3 DEF Connected, Create
  <2> QED BY <1>0, <2>1, DeathKeepsRests, OthersKeepRests
<1>4. ASSUME NEW s \in Services, Provider(s)
      PROVE  RestsInv'
  BY <1>1, <1>3, <1>4, DeliverKeepsRests DEF Provider
<1>5. ASSUME NEW id \in (Forever + 1)..lastSession, Expire(id)
      PROVE  RestsInv'
  BY <1>5, OthersKeepRests DEF Expire
<1>6. CASE UNCHANGED vars
  BY <1>6, OthersKeepRests DEF vars
<1> QED BY <1>0, <1>1, <1>2, <1>4, <1>5, <1>6, RestKeepsRests, CallerKeepsRests
        DEF Next, Terminated

\* Every step keeps the invariant of the calls.
LEMMA NextKeepsCalls ==
  ASSUME CallsInv, RestsInv, [Next]_vars
  PROVE  CallsInv'
<1> USE DEF connVars, callerVars
<1>1. ASSUME NEW s \in Services, Launch(s) \/ SetContext(s) \/ Exists(s) \/ Serve(s)
      PROVE  CallsInv'
  BY <1>1, OthersKeepCalls DEF Launch, SetContext, Exists, Serve
<1>2. ASSUME NEW s \in Services, Crash(s)
      PROVE  CallsInv'
  BY <1>2, DeathKeepsCalls DEF Crash
<1>3. ASSUME NEW s \in Services, Connected(s)
      PROVE  CallsInv'
  BY <1>3, OthersKeepCalls, DeathKeepsCalls DEF Connected
<1>4. ASSUME NEW s \in Services, Create(s)
      PROVE  CallsInv'
  BY <1>4, OthersKeepCalls, DeathKeepsCalls DEF Create
<1>5. ASSUME NEW s \in Services, Provider(s)
      PROVE  CallsInv'
  BY <1>1, <1>3, <1>4, <1>5, DeliverKeepsCalls DEF Provider
<1>6. ASSUME NEW s \in Services, CallerSetContext(s)
      PROVE  CallsInv'
  BY <1>6, OthersKeepCalls DEF CallerSetContext
<1>7. ASSUME NEW s \in Services, CallerConnected(s)
      PROVE  CallsInv'
  <2>1. PICK next \in {"lookup", "crashed"} :
          callerPc' = [callerPc EXCEPT ![s] = next]
    BY <1>7 DEF CallerConnected
  <2>2. next \in Before \cup {"crashed"} /\ callerPc[s] \in Before
    BY <1>7 DEF Before, CallerConnected
  <2>3. UNCHANGED <<calls, toServer, toClient, reads, executed, outcome, cut>>
    BY <1>7 DEF CallerConnected, historyVars
  <2> QED BY <2>1, <2>2, <2>3, WaitKeepsCalls
<1>8. ASSUME NEW s \in Services, Lookup(s)
      PROVE  CallsInv'
  <2>1. callerPc[s] \in Before /\ UNCHANGED <<cut, executed>>
    BY <1>8 DEF Before, Lookup
  <2>2. CASE EndCall(s, "failed")
    <3>1. cut' = [cut EXCEPT ![s] = cut'[s]]
      BY <2>1 DEF CallsInv, CallTyped
    <3> QED BY <2>1, <2>2, <3>1, EndCallKeepsInv
  <2>3. CASE ~EndCall(s, "failed")
    <3>1. callerPc' = [callerPc EXCEPT ![s] = "connect"]
          /\ UNCHANGED <<calls, toServer, toClient, reads, outcome>>
      BY <1>8, <2>3 DEF Lookup
    <3>2. "connect" \in Before \cup {"crashed"}
      BY DEF Before
    <3> QED BY <2>1, <3>1, <3>2, WaitKeepsCalls
  <2> QED BY <2>2, <2>3
<1>9. ASSUME NEW s \in Services, Reset(s)
      PROVE  CallsInv'
  <2>1. /\ callerPc[s] \in Before \cup {"recv"} /\ EndCall(s, "failed")
        /\ UNCHANGED <<cut, executed>>
    BY <1>9 DEF Reset
  <2>2. cut' = [cut EXCEPT ![s] = cut'[s]]
    BY <2>1 DEF CallsInv, CallTyped
  <2> QED BY <2>1, <2>2, EndCallKeepsInv
<1>10. ASSUME NEW s \in Services, Caller(s)
       PROVE  CallsInv'
  BY <1>6, <1>7, <1>8, <1>9, <1>10, BeginKeepsCalls, SendKeepsCalls,
     ReceiveKeepsCalls DEF Caller
<1>0. ASSUME NEW s \in Services, ReadRest(s)
      PROVE  CallsInv'
  <2>1. executed' = executed /\ (Dies(s) \/ UNCHANGED toServer)
    BY <1>0, RestIsNotExecuted
  <2>2. UNCHANGED <<callerVars, toClient, reads, historyVars>>
    BY <1>0, <2>1 DEF ReadRest, historyVars
  <2> QED BY <2>1, <2>2, DeathKeepsCalls, OthersKeepCalls
<1>11. ASSUME NEW id \in (Forever + 1)..lastSession, Expire(id)
       PROVE  CallsInv'
  BY <1>11, OthersKeepCalls DEF Expire
<1>12. CASE UNCHANGED vars
  BY <1>12, OthersKeepCalls DEF vars
<1> QED BY <1>0, <1>1, <1>2, <1>5, <1>10, <1>11, <1>12 DEF Next, Terminated

\* No call has been made when the programs start.
LEMMA InitCalls == Init => CallsInv
<1> SUFFICES ASSUME Init PROVE CallsInv
  OBVIOUS
<1>1. << >> \in Seq(Byte)
  BY EmptyBytes
<1>2. /\ toServer = [s \in Services |-> << >>]
      /\ toClient = [s \in Services |-> << >>]
      /\ executed = [s \in Services |-> << >>]
      /\ outcome = [s \in Services |-> "none"]
      /\ calls = [s \in Services |-> 0] /\ reads = [s \in Services |-> 0]
      /\ cut = [s \in Services |-> FALSE]
      /\ callerPc \in [Services -> {"call", "done"}]
  BY DEF Init
<1>3. CallTyped
  BY <1>1, <1>2 DEF CallTyped
<1>4. ASSUME NEW s \in Services PROVE CallInv(s)
  <2>1. /\ toServer[s] = << >> /\ toClient[s] = << >> /\ executed[s] = << >>
        /\ outcome[s] = "none" /\ calls[s] = 0
        /\ callerPc[s] \in {"call", "done"}
    BY <1>2
  <2>2. calls[s] <= Len(Calls[s]) /\ calls[s] < Len(Calls[s])
    BY <2>1, LengthsAre
  <2> QED BY <2>1, <2>2 DEF CallInv, Before
<1> QED BY <1>3, <1>4 DEF CallsInv

\* Nothing is left when they start.
LEMMA InitRests == Init => RestsInv
<1> SUFFICES ASSUME Init PROVE RestsInv
  OBVIOUS
<1>1. /\ left = [s \in Services |-> [i \in 1..Len(Calls[s]) |-> << >>]]
      /\ serverOpen = [s \in Services |-> FALSE]
      /\ toServer = [s \in Services |-> << >>]
  BY DEF Init
<1>2. left = [s \in Services |-> [i \in 1..Len(Calls[s]) |-> left[s][i]]]
      /\ serverOpen = [s \in Services |-> serverOpen[s]]
  BY <1>1
<1>3. \A s \in Services : \A i \in 1..Len(Calls[s]) : Quiet(left[s][i])
  BY <1>1, NothingIsQuiet
<1>4. \A s \in Services : toServer[s] = << >>
  BY <1>1
<1> QED BY <1>2, <1>3, <1>4 DEF RestsInv

\* The invariant of the calls holds throughout.
LEMMA CallsInvariant == Spec => [](CallsInv /\ RestsInv)
<1>1. Init => CallsInv /\ RestsInv
  BY InitCalls, InitRests
<1>2. CallsInv /\ RestsInv /\ [Next]_vars => (CallsInv /\ RestsInv)'
  BY NextKeepsCalls, NextKeepsRests
<1> QED BY <1>1, <1>2, PTL DEF Spec

\* What the provider executes is what the caller asked for, however TCP cuts
\* a request or an answer and whenever a provider dies
\* (rpcprovider.cc:101-154, mprpcchannel.cc:22-152).
THEOREM RequestsAreExecutedAsSent == Spec => []CallsAreFaithful
<1>1. CallsInv => CallsAreFaithful
  <2> SUFFICES ASSUME CallsInv, NEW s \in Services
               PROVE  /\ Len(executed[s]) <= 1
                      /\ \A i \in 1..Len(executed[s]) :
                           /\ executed[s][i].method = Call(s).method
                           /\ DOMAIN executed[s][i].request = DOMAIN Call(s).request
                           /\ \A f \in DOMAIN Call(s).request :
                                \/ executed[s][i].request[f] = Call(s).request[f]
                                \/ IsDefault(f, executed[s][i].request[f])
                           /\ executed[s][i].whole =>
                                executed[s][i].request = Call(s).request
                      /\ outcome[s] = "success" /\ ~cut[s] => Len(executed[s]) = 1
    BY DEF CallsAreFaithful
  <2>1. CallInv(s)
    BY DEF CallsInv
  <2>2. outcome[s] = "success" /\ ~cut[s] => Len(executed[s]) = 1
    BY <2>1 DEF CallInv
  <2>3. CASE executed[s] = << >>
    <3>1. Len(executed[s]) = 0
      BY <2>3
    <3> QED BY <2>2, <3>1
  <2>4. CASE executed[s] # << >>
    <3>1. PICK d : executed[s] = <<d>> /\ Faithful(d, Call(s))
      BY <2>1, <2>4 DEF CallInv
    <3>2. Len(executed[s]) = 1 /\ executed[s][1] = d
      BY <3>1
    <3>3. \A i \in 1..Len(executed[s]) : executed[s][i] = d
      BY <3>2
    <3> QED BY <2>2, <3>1, <3>2, <3>3 DEF Faithful, Partly
  <2> QED BY <2>3, <2>4
<1> QED BY <1>1, CallsInvariant, PTL

-----------------------------------------------------------------------------
\* What the type invariant says beyond the two invariants.
Bounded ==
  /\ session \in [Services -> Sessions \cup {Nobody}]
  /\ \A s \in Services : /\ todo[s] \subseteq NodesOf(s)
                         /\ missed[s] \subseteq NodesOf(s)
                         /\ path[s] \in NodesOf(s)
  /\ crashes \in 0..MaxCrashes /\ partitions \in 0..MaxPartitions

\* Every step keeps the bounds.
LEMMA NextKeepsBounds ==
  ASSUME RegistryTyped, Bounded, [Next]_vars
  PROVE  Bounded'
<1> USE DEF registryVars, providerVars, boundVars
<1>1. ASSUME NEW s \in Services, Dies(s), UNCHANGED <<session, path, missed>>,
             lastSession' = lastSession, partitions' = partitions,
             crashes' = crashes \/ (crashes < MaxCrashes /\ crashes' = crashes + 1)
      PROVE  Bounded'
  <2>1. crashes' \in 0..MaxCrashes
    BY <1>1, RpcAssumption DEF Bounded
  <2>2. \A t \in Services : todo'[t] \subseteq NodesOf(t)
    BY <1>1 DEF Bounded, Dies, RegistryTyped
  <2> QED BY <1>1, <2>1, <2>2 DEF Bounded, Sessions
<1>2. ASSUME UNCHANGED <<session, todo, missed, path, lastSession, boundVars>>
      PROVE  Bounded'
  BY <1>2 DEF Bounded, Sessions
<1>3. ASSUME NEW s \in Services, Launch(s)
      PROVE  Bounded'
  <2>1. /\ todo' = [todo EXCEPT ![s] = NodesOf(s)]
        /\ missed' = [missed EXCEPT ![s] = {}]
        /\ UNCHANGED <<session, path, lastSession, boundVars>>
    BY <1>3 DEF Launch
  <2>2. \A t \in Services : /\ todo'[t] \subseteq NodesOf(t)
                            /\ missed'[t] \subseteq NodesOf(t)
    BY <2>1 DEF Bounded, RegistryTyped
  <2> QED BY <2>1, <2>2 DEF Bounded, Sessions
<1>4. ASSUME NEW s \in Services, Crash(s)
      PROVE  Bounded'
  BY <1>1, <1>4 DEF Crash
<1>5. ASSUME NEW s \in Services, Connected(s)
      PROVE  Bounded'
  <2>1. CASE Dies(s) /\ UNCHANGED <<session, path, missed>>
             /\ lastSession' = lastSession /\ partitions' = partitions
             /\ crashes < MaxCrashes /\ crashes' = crashes + 1
    BY <1>1, <2>1
  <2>2. CASE /\ lastSession' = lastSession + 1
             /\ session' = [session EXCEPT ![s] = lastSession']
             /\ UNCHANGED <<todo, path, missed, boundVars>>
    <3>1. lastSession \in Nat /\ lastSession >= 1
      BY DEF RegistryTyped
    <3>2. lastSession' \in Sessions' /\ \A n \in Sessions : n \in Sessions'
      BY <2>2, <3>1 DEF Sessions, Forever
    <3>3. session' \in [Services -> Sessions' \cup {Nobody}]
      BY <2>2, <3>2 DEF Bounded
    <3> QED BY <2>2, <3>3 DEF Bounded
  <2> QED BY <1>5, <2>1, <2>2 DEF Connected
<1>6. ASSUME NEW s \in Services, Exists(s)
      PROVE  Bounded'
  <2>1. PICK m \in todo[s] :
          /\ todo' = [todo EXCEPT ![s] = @ \ {m}]
          /\ path' = [path EXCEPT ![s] = m]
          /\ missed' \in {missed, [missed EXCEPT ![s] = @ \cup {m}]}
    BY <1>6 DEF Exists
  <2>2. UNCHANGED <<session, lastSession, boundVars>>
    BY <1>6 DEF Exists
  <2>3. m \in NodesOf(s)
    BY DEF Bounded
  <2>4. ASSUME NEW t \in Services
        PROVE  /\ todo'[t] \subseteq NodesOf(t) /\ missed'[t] \subseteq NodesOf(t)
               /\ path'[t] \in NodesOf(t)
    BY <2>1, <2>3 DEF Bounded, RegistryTyped
  <2> QED BY <2>2, <2>4 DEF Bounded, Sessions
<1>7. ASSUME NEW s \in Services, Create(s)
      PROVE  Bounded'
  BY <1>1, <1>2, <1>7 DEF Create
<1>8. ASSUME NEW s \in Services, Deliver(s)
      PROVE  Bounded'
  <2>1. Dies(s) \/ UNCHANGED todo
    BY <1>8 DEF Deliver
  <2>2. UNCHANGED <<session, path, missed, lastSession, boundVars>>
    BY <1>8 DEF Deliver
  <2> QED BY <1>1, <1>2, <2>1, <2>2
<1>0. ASSUME NEW s \in Services, ReadRest(s)
      PROVE  Bounded'
  <2>1. Dies(s) \/ UNCHANGED todo
    BY <1>0 DEF ReadRest
  <2>2. UNCHANGED <<session, path, missed, lastSession, boundVars>>
    BY <1>0 DEF ReadRest
  <2> QED BY <1>1, <1>2, <2>1, <2>2
<1>9. ASSUME NEW s \in Services, Provider(s)
      PROVE  Bounded'
  BY <1>2, <1>5, <1>6, <1>7, <1>8, <1>9 DEF Provider, SetContext, Serve
<1>10. ASSUME NEW s \in Services, Caller(s)
       PROVE  Bounded'
  BY <1>2, <1>10 DEF Caller, Begin, CallerSetContext, CallerConnected, Lookup,
                     Send, Receive, Reset
<1>11. ASSUME NEW id \in (Forever + 1)..lastSession, Expire(id)
       PROVE  Bounded'
  <2>1. /\ UNCHANGED <<session, todo, missed, path, lastSession, crashes>>
        /\ \/ UNCHANGED partitions
           \/ partitions < MaxPartitions /\ partitions' = partitions + 1
    BY <1>11 DEF Expire
  <2>2. partitions' \in 0..MaxPartitions
    BY <2>1, RpcAssumption DEF Bounded
  <2> QED BY <2>1, <2>2 DEF Bounded, Sessions
<1>12. CASE UNCHANGED vars
  BY <1>2, <1>12 DEF vars
<1> QED BY <1>0, <1>3, <1>4, <1>9, <1>10, <1>11, <1>12 DEF Next, Terminated

\* The types of what registration, lookup and calls keep, and the bounds of
\* crashes and partitions (rpcprovider.cc, mprpcchannel.cc, zookeeperutil.cc).
THEOREM MprpcTyped == Spec => []MprpcTypeOK
<1>1. Init => Bounded
  <2> SUFFICES ASSUME Init PROVE Bounded
    OBVIOUS
  <2>1. /\ session = [s \in Services |-> Nobody]
        /\ todo = [s \in Services |-> {}] /\ missed = [s \in Services |-> {}]
        /\ path = [s \in Services |-> ServiceNode]
        /\ crashes = 0 /\ partitions = 0
    BY DEF Init
  <2>2. crashes \in 0..MaxCrashes /\ partitions \in 0..MaxPartitions
    BY <2>1, RpcAssumption
  <2> QED BY <2>1, <2>2 DEF Bounded, NodesOf
<1>2. RegistryInv /\ Bounded /\ [Next]_vars => Bounded'
  BY NextKeepsBounds DEF RegistryInv
<1>3. RegistryInv /\ CallsInv /\ RestsInv /\ Bounded => MprpcTypeOK
  <2> SUFFICES ASSUME RegistryInv, CallsInv, RestsInv, Bounded PROVE MprpcTypeOK
    OBVIOUS
  <2>1. ASSUME NEW s \in Services, NEW m \in NodesOf(s)
        PROVE  nodes[s][m] \in 0..lastSession
    <3>1. lastSession \in Nat /\ lastSession >= 1
      BY DEF RegistryInv, RegistryTyped
    <3>2. nodes[s][m] \in {Nobody, Forever} \/ nodes[s][m] \in Sessions
      BY DEF RegistryInv, TreeInv, NodesOf
    <3> QED BY <3>1, <3>2 DEF Nobody, Forever, Sessions
  <2>2. ASSUME NEW s \in Services
        PROVE  calls[s] \in 0..Len(Calls[s])
    BY LengthsAre DEF CallsInv, CallTyped, CallInv
  <2>3. ASSUME NEW s \in Services
        PROVE  toServer[s] \in Seq(H!Byte) /\ toClient[s] \in Seq(H!Byte)
    BY DEF CallsInv, CallTyped, Byte, H!Byte
  <2>4. ASSUME NEW s \in Services
        PROVE  todo[s] \cup missed[s] \cup {path[s]} \subseteq NodesOf(s)
    BY DEF Bounded
  <2>5. pc \in [Services -> {"off", "down", "zookeeper", "exists", "create",
                             "serve"}]
        /\ zk \in [Services -> {"none", "connecting", "waiting", "ready"}]
        /\ expired \subseteq Sessions
    BY DEF RegistryInv, RegistryTyped
  <2>6. callerPc \in [Services -> {"call", "zookeeper", "lookup", "connect",
                                   "recv", "done", "crashed"}]
    BY DEF CallsInv, CallTyped
  <2>7. ASSUME NEW s \in Services
        PROVE  left[s] \in [1..Len(Calls[s]) -> Seq(H!Byte)]
    <3>1. left[s] = [i \in 1..Len(Calls[s]) |-> left[s][i]]
      BY DEF RestsInv
    <3>2. \A i \in 1..Len(Calls[s]) : left[s][i] \in Seq(H!Byte)
      BY DEF RestsInv, Quiet, Bytes, Byte, H!Byte
    <3> QED BY <3>1, <3>2
  <2> QED BY <2>1, <2>2, <2>3, <2>4, <2>5, <2>6, <2>7 DEF Bounded, MprpcTypeOK
<1>4. Spec => []RegistryInv
  BY InitRegistry, NextKeepsInv, PTL DEF Spec
<1> QED BY <1>1, <1>2, <1>3, <1>4, CallsInvariant, PTL DEF Spec
=============================================================================

--------------------------- MODULE ProtobufProofs ---------------------------
(***************************************************************************)
(* What the recursive functions of Protobuf compute, for every number and  *)
(* every sequence of bytes, and that every generated message is parsed as  *)
(* it was serialized.  Induction over data is by least counterexample, and *)
(* that a recursive function exists is a theorem about a set, a measure    *)
(* and one step of the recursion, all of them constants.                   *)
(***************************************************************************)
EXTENDS Protobuf, Messages, SequenceTheorems, FiniteSetTheorems,
        WellFoundedInduction, TLAPS

-----------------------------------------------------------------------------
(* Recursion.                                                              *)

\* A set of numbers has a least element.
LEMMA Least ==
  ASSUME NEW T \in SUBSET Nat, T # {}
  PROVE  \E x \in T : \A y \in T : x <= y
<1> DEFINE R == {ss \in Nat \X Nat : ss[1] < ss[2]}
<1>1. IsWellFoundedOn(R, Nat)
  BY NatLessThanWellFounded DEF OpToRel
<1>2. \A x, y \in Nat : <<y, x>> \in R <=> y < x
  OBVIOUS
<1> HIDE DEF R
<1>3. PICK x \in T : \A y \in T : ~ (<<y, x>> \in R)
  BY <1>1, WFMin
<1>4. ASSUME NEW y \in T PROVE x <= y
  <2>1. x \in Nat /\ y \in Nat /\ ~(y < x)
    BY <1>2, <1>3
  <2> QED BY <2>1
<1> QED BY <1>4

\* f follows the step G of a recursion up to the measure n.
Follows(S, r, G, f, n) == \A x \in S : r[x] < n => f[x] = G[<<f, x>>]

\* What the step needs of f is f on smaller arguments.
LooksDown(S, V, r, G) ==
  /\ r \in [S -> Nat]
  /\ \A f \in [S -> V], x \in S : G[<<f, x>>] \in V
  /\ \A f, h \in [S -> V] : \A x \in S :
       (\A y \in S : r[y] < r[x] => f[y] = h[y]) => G[<<f, x>>] = G[<<h, x>>]

\* Two functions that follow the recursion to a depth agree up to it.
LEMMA FollowersAgree ==
  ASSUME NEW S, NEW V, NEW r, NEW G, LooksDown(S, V, r, G),
         NEW f \in [S -> V], NEW n \in Nat, Follows(S, r, G, f, n),
         NEW h \in [S -> V], NEW m \in Nat, Follows(S, r, G, h, m)
  PROVE  \A x \in S : r[x] < n /\ r[x] < m => f[x] = h[x]
<1> DEFINE T == {r[x] : x \in {x \in S : /\ r[x] < n /\ r[x] < m
                                         /\ f[x] # h[x]}}
<1>1. CASE T = {}
  BY <1>1
<1>2. CASE T # {}
  <2>1. T \in SUBSET Nat
    BY DEF LooksDown
  <2> HIDE DEF T
  <2>2. PICK k \in T : \A l \in T : k <= l
    BY <1>2, <2>1, Least
  <2>3. PICK x \in S : r[x] = k /\ r[x] < n /\ r[x] < m /\ f[x] # h[x]
    BY <2>2 DEF T
  <2>4. ASSUME NEW y \in S, r[y] < r[x] PROVE f[y] = h[y]
    <3>1. r[y] \in Nat /\ k \in Nat
      BY <2>1, <2>2 DEF LooksDown
    <3>2. r[y] \notin T
      BY <2>2, <2>3, <2>4, <3>1
    <3> QED BY <2>3, <2>4, <3>1, <3>2 DEF T
  <2>5. G[<<f, x>>] = G[<<h, x>>]
    BY <2>4 DEF LooksDown
  <2> QED BY <2>3, <2>5 DEF Follows
<1> QED BY <1>1, <1>2

\* The recursion defines a function.
Defines(S, V, G) == \E f \in [S -> V] : \A x \in S : f[x] = G[<<f, x>>]

\* If each step looks only at smaller arguments, the recursion defines a function.
LEMMA RecursionDefines ==
  ASSUME NEW S, NEW V, NEW v \in V, NEW r, NEW G, LooksDown(S, V, r, G)
  PROVE  Defines(S, V, G)
<1>1. \A n \in Nat : \E f \in [S -> V] : Follows(S, r, G, f, n)
  <2> DEFINE T == {n \in Nat : ~\E f \in [S -> V] : Follows(S, r, G, f, n)}
  <2>1. CASE T = {}
    BY <2>1
  <2>2. CASE T # {}
    <3>1. PICK n \in T : \A l \in T : n <= l
      BY <2>2, Least
    <3>2. CASE n = 0
      <4>2. [x \in S |-> v] \in [S -> V]
        OBVIOUS
      <4>3. Follows(S, r, G, [x \in S |-> v], 0)
        BY DEF Follows, LooksDown
      <4> QED BY <3>1, <3>2, <4>2, <4>3
    <3>3. CASE n # 0
      <4>1. n - 1 \in Nat /\ n - 1 \notin T
        BY <3>1, <3>3
      <4>2. PICK f \in [S -> V] : Follows(S, r, G, f, n - 1)
        BY <4>1
      <4> DEFINE h == [x \in S |-> IF r[x] < n - 1 THEN f[x] ELSE G[<<f, x>>]]
      <4>3. h \in [S -> V]
        BY DEF LooksDown
      <4>4. ASSUME NEW x \in S, r[x] < n PROVE h[x] = G[<<h, x>>]
        <5>1. r[x] \in Nat /\ n \in Nat /\ \A y \in S : r[y] \in Nat
          BY <3>1 DEF LooksDown
        <5>2. h[x] = G[<<f, x>>]
          BY <4>2 DEF Follows
        <5>3. \A y \in S : r[y] < r[x] => f[y] = h[y]
          BY <4>4, <5>1
        <5>4. G[<<f, x>>] = G[<<h, x>>]
          <6> HIDE DEF h
          <6> QED BY <4>3, <5>3 DEF LooksDown
        <5> QED BY <5>2, <5>4
      <4>5. Follows(S, r, G, h, n)
        BY <4>4 DEF Follows
      <4> QED BY <3>1, <4>3, <4>5
    <3> QED BY <3>2, <3>3
  <2> QED BY <2>1, <2>2
<1> DEFINE g(x) == CHOOSE f \in [S -> V] : Follows(S, r, G, f, r[x] + 1)
           whole == [x \in S |-> g(x)[x]]
<1>2. \A x \in S : g(x) \in [S -> V] /\ Follows(S, r, G, g(x), r[x] + 1)
  <2> TAKE x \in S
  <2>1. r[x] + 1 \in Nat
    BY DEF LooksDown
  <2>2. \E f \in [S -> V] : Follows(S, r, G, f, r[x] + 1)
    BY <1>1, <2>1
  <2> QED BY <2>2
<1> HIDE DEF g
<1>3. whole \in [S -> V]
  BY <1>2
<1>4. ASSUME NEW x \in S PROVE whole[x] = G[<<whole, x>>]
  <2>1. \A y \in S : r[y] \in Nat
    BY DEF LooksDown
  <2>2. whole[x] = G[<<g(x), x>>]
    BY <1>2, <2>1 DEF Follows
  <2>3. ASSUME NEW y \in S, r[y] < r[x] PROVE whole[y] = g(x)[y]
    <3>1. /\ r[y] + 1 \in Nat /\ r[x] + 1 \in Nat
          /\ r[y] < r[y] + 1 /\ r[y] < r[x] + 1
      BY <2>1, <2>3
    <3>2. g(y)[y] = g(x)[y]
      BY <1>2, <3>1, FollowersAgree
    <3> QED BY <3>2
  <2>4. G[<<whole, x>>] = G[<<g(x), x>>]
    <3> HIDE DEF whole
    <3> QED BY <1>2, <1>3, <2>3 DEF LooksDown
  <2> QED BY <2>2, <2>4
<1> QED BY <1>3, <1>4 DEF Defines

-----------------------------------------------------------------------------
(* Sequences of bytes.                                                     *)

Bytes == Seq(Byte)

\* What a byte is.
LEMMA ByteIs ==
  /\ Byte \subseteq Nat
  /\ \A x \in Nat : x <= 255 => x \in Byte
BY DEF Byte

\* Only the empty sequence has no element.
LEMMA EmptyBytes ==
  ASSUME NEW S
  PROVE  << >> \in Seq(S) /\ \A s \in Seq(S) : s # << >> <=> Len(s) > 0
OBVIOUS

\* The length and the elements of two sequences that are joined.
LEMMA Joined ==
  ASSUME NEW S, NEW s \in Seq(S), NEW t \in Seq(S)
  PROVE  /\ s \o t \in Seq(S) /\ Len(s \o t) = Len(s) + Len(t)
         /\ Len(s) \in Nat /\ Len(t) \in Nat
         /\ \A i \in 1..Len(s) : (s \o t)[i] = s[i]
         /\ \A i \in 1..Len(t) : (s \o t)[Len(s) + i] = t[i]
<1>1. /\ s \o t \in Seq(S) /\ Len(s \o t) = Len(s) + Len(t)
      /\ \A i \in 1..(Len(s) + Len(t)) :
           (s \o t)[i] = IF i <= Len(s) THEN s[i] ELSE t[i - Len(s)]
  BY ConcatProperties
<1>2. Len(s) \in Nat /\ Len(t) \in Nat
  OBVIOUS
<1>3. ASSUME NEW i \in 1..Len(t) PROVE (s \o t)[Len(s) + i] = t[i]
  <2>1. /\ Len(s) + i \in 1..(Len(s) + Len(t)) /\ ~(Len(s) + i <= Len(s))
        /\ (Len(s) + i) - Len(s) = i
    BY <1>2
  <2> QED BY <1>1, <2>1
<1> QED BY <1>1, <1>2, <1>3

\* A part from the beginning of a concatenation.
LEMMA Beginning ==
  ASSUME NEW S, NEW s \in Seq(S), NEW t \in Seq(S),
         NEW k \in 0..(Len(s) + Len(t))
  PROVE  SubSeq(s \o t, 1, k) = IF k <= Len(s) THEN SubSeq(s, 1, k)
                                ELSE s \o SubSeq(t, 1, k - Len(s))
<1> DEFINE p == SubSeq(s \o t, 1, k)
<1>1. /\ s \o t \in Seq(S) /\ Len(s \o t) = Len(s) + Len(t)
      /\ Len(s) \in Nat /\ Len(t) \in Nat /\ k \in Nat
      /\ \A i \in 1..Len(s) : (s \o t)[i] = s[i]
      /\ \A i \in 1..Len(t) : (s \o t)[Len(s) + i] = t[i]
  BY Joined
<1>2. /\ p \in Seq(S) /\ Len(p) = k
      /\ \A i \in 1..k : p[i] = (s \o t)[i]
  <2>1. \A i \in 1..k : (s \o t)[i] \in S
    BY <1>1, ElementOfSeq
  <2> HIDE DEF p
  <2> QED BY <1>1, <2>1, SubSeqProperties DEF p
<1> HIDE DEF p
<1>3. CASE k <= Len(s)
  <2> DEFINE q == SubSeq(s, 1, k)
  <2>1. q \in Seq(S) /\ Len(q) = k /\ \A i \in 1..k : q[i] = s[i]
    <3>1. \A i \in 1..k : s[i] \in S
      BY <1>1, <1>3
    <3> HIDE DEF q
    <3> QED BY <1>1, <3>1, SubSeqProperties DEF q
  <2> HIDE DEF q
  <2>2. \A i \in 1..k : p[i] = q[i]
    BY <1>1, <1>2, <1>3, <2>1
  <2>3. p = q
    BY <1>2, <2>1, <2>2, SeqEqual
  <2> QED BY <1>3, <2>3 DEF p, q
<1>4. CASE ~(k <= Len(s))
  <2> DEFINE q == SubSeq(t, 1, k - Len(s))
  <2>1. /\ q \in Seq(S) /\ Len(q) = k - Len(s)
        /\ \A i \in 1..(k - Len(s)) : q[i] = t[i]
    <3>1. \A i \in 1..(k - Len(s)) : t[i] \in S
      BY <1>1, <1>4
    <3> HIDE DEF q
    <3> QED BY <1>1, <1>4, <3>1, SubSeqProperties DEF q
  <2> HIDE DEF q
  <2>2. /\ s \o q \in Seq(S) /\ Len(s \o q) = k
        /\ \A i \in 1..Len(s) : (s \o q)[i] = s[i]
        /\ \A i \in 1..(k - Len(s)) : (s \o q)[Len(s) + i] = q[i]
    BY <1>1, <2>1, Joined
  <2>3. ASSUME NEW i \in 1..k PROVE p[i] = (s \o q)[i]
    <3>1. CASE i \in 1..Len(s)
      BY <1>1, <1>2, <2>2, <3>1
    <3>2. CASE i \notin 1..Len(s)
      <4>1. /\ i - Len(s) \in 1..(k - Len(s)) /\ i - Len(s) \in 1..Len(t)
            /\ Len(s) + (i - Len(s)) = i
        BY <1>1, <1>4, <3>2
      <4>2. p[i] = t[i - Len(s)]
        BY <1>1, <1>2, <4>1
      <4> QED BY <2>1, <2>2, <4>1, <4>2
    <3> QED BY <3>1, <3>2
  <2>4. p = s \o q
    BY <1>2, <2>2, <2>3, SeqEqual
  <2> QED BY <1>4, <2>4 DEF p, q
<1> QED BY <1>3, <1>4

\* A part of a concatenation behind its first half.
LEMMA Behind ==
  ASSUME NEW S, NEW s \in Seq(S), NEW t \in Seq(S),
         NEW k \in 0..Len(t)
  PROVE  SubSeq(s \o t, Len(s) + 1, Len(s) + k) = SubSeq(t, 1, k)
<1>1. /\ s \o t \in Seq(S) /\ Len(s \o t) = Len(s) + Len(t)
      /\ Len(s) \in Nat /\ Len(t) \in Nat /\ k \in Nat
      /\ \A i \in 1..Len(t) : (s \o t)[Len(s) + i] = t[i]
  BY Joined
<1> DEFINE p == SubSeq(s \o t, Len(s) + 1, Len(s) + k)
           q == SubSeq(t, 1, k)
<1>2. q \in Seq(S) /\ Len(q) = k /\ \A i \in 1..k : q[i] = t[i]
  <2>1. \A i \in 1..k : t[i] \in S
    BY <1>1
  <2> HIDE DEF q
  <2> QED BY <1>1, <2>1, SubSeqProperties DEF q
<1>3. p \in Seq(S) /\ Len(p) = k /\ \A i \in 1..k : p[i] = t[i]
  <2> DEFINE m == Len(s) + 1
             n == Len(s) + k
             st == s \o t
  <2>1. /\ m \in Int /\ n \in Int /\ n - m + 1 = k
        /\ ~(m <= n) => k = 0
        /\ \A i \in 1..k : m + i - 1 = Len(s) + i
    BY <1>1
  <2>2. \A i \in m..n : st[i] \in S
    BY <1>1, ElementOfSeq
  <2>3. p = SubSeq(st, m, n)
    OBVIOUS
  <2>4. \A i \in 1..k : st[m + i - 1] = t[i]
    BY <1>1, <2>1
  <2> HIDE DEF p, m, n, st
  <2>5. /\ SubSeq(st, m, n) \in Seq(S)
        /\ Len(SubSeq(st, m, n)) = IF m <= n THEN n - m + 1 ELSE 0
        /\ \A i \in 1..(n - m + 1) : SubSeq(st, m, n)[i] = st[m + i - 1]
    BY <2>1, <2>2, SubSeqProperties
  <2> QED BY <2>1, <2>3, <2>4, <2>5
<1> HIDE DEF p, q
<1>4. p = q
  BY <1>2, <1>3, SeqEqual
<1> QED BY <1>4 DEF p, q

\* A sequence cut at its end is itself.
LEMMA Whole ==
  ASSUME NEW S, NEW s \in Seq(S)
  PROVE  SubSeq(s, 1, Len(s)) = s
BY SubSeqFull

\* A sequence with one more element in front.
LEMMA OneMore ==
  ASSUME NEW S, NEW e \in S, NEW s \in Seq(S)
  PROVE  /\ <<e>> \o s \in Seq(S) /\ Len(<<e>> \o s) = Len(s) + 1
         /\ <<e>> \o s # << >> /\ (<<e>> \o s)[1] = e
         /\ Tail(<<e>> \o s) = s /\ Len(s) \in Nat
<1> DEFINE es == <<e>> \o s
<1>1. <<e>> \in Seq(S) /\ Len(<<e>>) = 1 /\ <<e>>[1] = e
  OBVIOUS
<1>2. /\ es \in Seq(S) /\ Len(es) = Len(s) + 1 /\ Len(s) \in Nat
      /\ es[1] = e /\ \A i \in 1..Len(s) : es[1 + i] = s[i]
  <2> HIDE DEF es
  <2> QED BY <1>1, Joined DEF es
<1> HIDE DEF es
<1>3. es # << >>
  BY <1>2
<1>4. Tail(es) = s
  <2>1. /\ Tail(es) \in Seq(S) /\ Len(Tail(es)) = Len(s)
        /\ \A i \in 1..Len(s) : Tail(es)[i] = es[i + 1]
    BY <1>2, <1>3, HeadTailProperties
  <2>2. \A i \in 1..Len(s) : Tail(es)[i] = s[i]
    BY <1>2, <2>1
  <2> HIDE DEF es
  <2> QED BY <2>1, <2>2, SeqEqual
<1> QED BY <1>2, <1>3, <1>4 DEF es

-----------------------------------------------------------------------------
(* Varints.                                                                *)

\* The recursion of Varint defines a function.
LEMMA VarintDef ==
  \A n \in Nat :
    Varint[n] = IF n < 128 THEN <<n>>
                ELSE <<128 + (n % 128)>> \o Varint[n \div 128]
<1> DEFINE Body(f, n) == IF n < 128 THEN <<n>>
                         ELSE <<128 + (n % 128)>> \o f[n \div 128]
           V == Seq(Nat)
           r == [n \in Nat |-> n]
           G == [fn \in [Nat -> V] \X Nat |-> Body(fn[1], fn[2])]
<1>1. \A n \in Nat : n \div 128 \in Nat /\ n % 128 \in Nat
                     /\ (n >= 128 => n \div 128 < n)
  OBVIOUS
<1>2. \A f \in [Nat -> V], n \in Nat : G[<<f, n>>] = Body(f, n)
  OBVIOUS
<1>3. ASSUME NEW f \in [Nat -> V], NEW n \in Nat PROVE Body(f, n) \in V
  <2>1. f[n \div 128] \in Seq(Nat) /\ 128 + (n % 128) \in Nat
    BY <1>1
  <2>2. <<n>> \in Seq(Nat) /\ <<128 + (n % 128)>> \in Seq(Nat)
    BY <2>1
  <2> QED BY <2>1, <2>2, Joined
<1>4. ASSUME NEW f \in [Nat -> V], NEW h \in [Nat -> V], NEW n \in Nat,
             \A k \in Nat : k < n => f[k] = h[k]
      PROVE  Body(f, n) = Body(h, n)
  BY <1>1, <1>4
<1> HIDE DEF Body, G
<1>5. LooksDown(Nat, V, r, G)
  <2>1. \A f \in [Nat -> V], n \in Nat : G[<<f, n>>] \in V
    BY <1>2, <1>3
  <2>2. \A f, h \in [Nat -> V] : \A n \in Nat :
          (\A k \in Nat : r[k] < r[n] => f[k] = h[k])
            => G[<<f, n>>] = G[<<h, n>>]
    <3> TAKE f, h \in [Nat -> V]
    <3> TAKE n \in Nat
    <3> HAVE \A k \in Nat : r[k] < r[n] => f[k] = h[k]
    <3>1. \A k \in Nat : k < n => f[k] = h[k]
      OBVIOUS
    <3>2. Body(f, n) = Body(h, n)
      BY <1>4, <3>1
    <3> QED BY <1>2, <3>2
  <2> QED BY <2>1, <2>2 DEF LooksDown
<1>6. \E f \in [Nat -> V] : \A n \in Nat : f[n] = Body(f, n)
  <2>1. << >> \in V
    BY EmptyBytes
  <2> HIDE DEF V, r
  <2>2. Defines(Nat, V, G)
    BY <1>5, <2>1, RecursionDefines
  <2> QED BY <1>2, <2>2 DEF Defines
<1>7. PICK f : f = [n \in Nat |-> Body(f, n)]
  <2>1. PICK f \in [Nat -> V] : \A n \in Nat : f[n] = Body(f, n)
    BY <1>6
  <2>2. f = [n \in Nat |-> Body(f, n)]
    BY <2>1
  <2> QED BY <2>2
<1>8. Varint = [n \in Nat |-> Body(Varint, n)]
  BY <1>7 DEF Varint, Body
<1> QED BY <1>8 DEF Body

\* The bytes of a number: each but the last is at least 128, and none is zero
\* but for zero itself.
LEMMA VarintIs ==
  ASSUME NEW n \in Nat
  PROVE  /\ Varint[n] \in Bytes /\ Len(Varint[n]) \in Nat \ {0}
         /\ n > 0 => \A i \in 1..Len(Varint[n]) : Varint[n][i] # 0
<1> DEFINE Good(k) == /\ Varint[k] \in Bytes /\ Len(Varint[k]) \in Nat \ {0}
                      /\ k > 0 => \A i \in 1..Len(Varint[k]) :
                                    Varint[k][i] # 0
           T == {k \in Nat : ~Good(k)}
<1>1. CASE T = {}
  BY <1>1
<1>2. CASE T # {}
  <2>1. PICK k \in T : \A l \in T : k <= l
    BY <1>2, Least
  <2>2. CASE k < 128
    <3>1. k \in Nat /\ k \in Byte
      <4> HIDE DEF Good
      <4>1. k \in Nat
        BY <2>1
      <4> HIDE DEF T
      <4> QED BY <2>2, <4>1 DEF Byte
    <3> HIDE DEF T
    <3>2. Varint[k] = <<k>>
      BY <2>2, <3>1, VarintDef
    <3>3. <<k>> \in Bytes /\ Len(<<k>>) = 1 /\ <<k>>[1] = k
      BY <3>1 DEF Bytes
    <3>4. Good(k)
      BY <3>1, <3>2, <3>3
    <3> QED BY <2>1, <3>4 DEF T
  <2>3. CASE ~(k < 128)
    <3> DEFINE d == k \div 128
               e == 128 + (k % 128)
    <3>1. /\ d \in Nat /\ 0 < d /\ d < k /\ e \in Byte /\ e # 0
      BY <2>1, <2>3 DEF Byte
    <3>2. Varint[k] = <<e>> \o Varint[d]
      BY <2>1, <2>3, VarintDef
    <3> HIDE DEF d, e
    <3>3. Good(d)
      BY <2>1, <3>1
    <3> DEFINE s == Varint[d]
    <3>4. /\ s \in Seq(Byte) /\ Len(s) \in Nat /\ Len(s) # 0
          /\ \A i \in 1..Len(s) : s[i] # 0
      BY <3>1, <3>3 DEF Bytes
    <3> HIDE DEF s
    <3>5. /\ <<e>> \in Seq(Byte) /\ Len(<<e>>) = 1 /\ <<e>>[1] = e
      BY <3>1
    <3>6. /\ <<e>> \o s \in Seq(Byte) /\ Len(<<e>> \o s) = 1 + Len(s)
          /\ (<<e>> \o s)[1] = e
          /\ \A i \in 1..Len(s) : (<<e>> \o s)[1 + i] = s[i]
      BY <3>4, <3>5, Joined
    <3>7. \A i \in 1..(1 + Len(s)) : i # 1 => i - 1 \in 1..Len(s) /\ 1 + (i - 1) = i
      BY <3>4
    <3>8. \A i \in 1..(1 + Len(s)) : (<<e>> \o s)[i] # 0
      BY <3>1, <3>4, <3>6, <3>7
    <3>9. Varint[k] = <<e>> \o s
      BY <3>2 DEF s
    <3>10. Good(k)
      BY <3>4, <3>6, <3>8, <3>9 DEF Bytes
    <3> QED BY <2>1, <3>10
  <2> QED BY <2>2, <2>3
<1> QED BY <1>1, <1>2

\* ReadVarint is the function its recursion says.
LEMMA ReadVarintDef ==
  \A b \in Bytes :
    ReadVarint[b] =
      IF b = << >> THEN Failure
      ELSE IF b[1] < 128 THEN <<b[1], 1>>
      ELSE LET rest == ReadVarint[Tail(b)] IN
           IF rest = Failure THEN Failure
           ELSE <<b[1] - 128 + 128 * rest[1], rest[2] + 1>>
<1> DEFINE Body(f, b) ==
             IF b = << >> THEN Failure
             ELSE IF b[1] < 128 THEN <<b[1], 1>>
             ELSE LET rest == f[Tail(b)] IN
                  IF rest = Failure THEN Failure
                  ELSE <<b[1] - 128 + 128 * rest[1], rest[2] + 1>>
           V == {Failure} \cup (Nat \X Nat)
           r == [b \in Bytes |-> Len(b)]
           G == [fb \in [Bytes -> V] \X Bytes |-> Body(fb[1], fb[2])]
<1>1. ASSUME NEW b \in Bytes, b # << >>
      PROVE  /\ Tail(b) \in Bytes /\ Len(Tail(b)) < Len(b)
             /\ b[1] \in Nat /\ Len(b) \in Nat
  <2>1. /\ Tail(b) \in Seq(Byte) /\ Len(Tail(b)) = Len(b) - 1
        /\ Len(b) \in Nat /\ Len(b) # 0
    BY <1>1, HeadTailProperties, EmptyBytes DEF Bytes
  <2>2. b[1] \in Byte
    BY <2>1, ElementOfSeq DEF Bytes
  <2>3. b[1] \in Nat
    BY <2>2, ByteIs
  <2> QED BY <2>1, <2>3 DEF Bytes
<1>2. \A f \in [Bytes -> V], b \in Bytes : G[<<f, b>>] = Body(f, b)
  OBVIOUS
<1>3. ASSUME NEW f \in [Bytes -> V], NEW b \in Bytes PROVE Body(f, b) \in V
  <2>1. CASE b = << >> \/ b[1] < 128
    BY <1>1, <2>1
  <2>2. CASE b # << >> /\ ~(b[1] < 128)
    <3>1. b[1] - 128 \in Nat /\ Tail(b) \in Bytes
      BY <1>1, <2>2
    <3>2. f[Tail(b)] \in V
      BY <3>1
    <3>3. CASE f[Tail(b)] = Failure
      BY <2>2, <3>3
    <3>4. CASE f[Tail(b)] # Failure
      <4>1. f[Tail(b)][1] \in Nat /\ f[Tail(b)][2] \in Nat
        BY <3>2, <3>4
      <4> QED BY <2>2, <3>1, <3>4, <4>1
    <3> QED BY <3>3, <3>4
  <2> QED BY <2>1, <2>2
<1>4. ASSUME NEW f \in [Bytes -> V], NEW h \in [Bytes -> V], NEW b \in Bytes,
             \A c \in Bytes : Len(c) < Len(b) => f[c] = h[c]
      PROVE  Body(f, b) = Body(h, b)
  <2>1. b # << >> => f[Tail(b)] = h[Tail(b)]
    BY <1>1, <1>4
  <2> QED BY <2>1
<1> HIDE DEF Body, G
<1>5. LooksDown(Bytes, V, r, G)
  <2>1. \A f \in [Bytes -> V], b \in Bytes : G[<<f, b>>] \in V
    BY <1>2, <1>3
  <2>2. \A f, h \in [Bytes -> V] : \A b \in Bytes :
          (\A c \in Bytes : r[c] < r[b] => f[c] = h[c])
            => G[<<f, b>>] = G[<<h, b>>]
    <3> TAKE f, h \in [Bytes -> V]
    <3> TAKE b \in Bytes
    <3> HAVE \A c \in Bytes : r[c] < r[b] => f[c] = h[c]
    <3>1. \A c \in Bytes : Len(c) < Len(b) => f[c] = h[c]
      OBVIOUS
    <3>2. Body(f, b) = Body(h, b)
      BY <1>4, <3>1
    <3> QED BY <1>2, <3>2
  <2>3. r \in [Bytes -> Nat]
    BY DEF Bytes
  <2> QED BY <2>1, <2>2, <2>3 DEF LooksDown
<1>6. \E f \in [Bytes -> V] : \A b \in Bytes : f[b] = Body(f, b)
  <2>1. Failure \in V
    OBVIOUS
  <2> HIDE DEF V, r
  <2>2. Defines(Bytes, V, G)
    BY <1>5, <2>1, RecursionDefines
  <2> QED BY <1>2, <2>2 DEF Defines
<1>7. PICK f : f = [b \in Bytes |-> Body(f, b)]
  <2>1. PICK f \in [Bytes -> V] : \A b \in Bytes : f[b] = Body(f, b)
    BY <1>6
  <2>2. f = [b \in Bytes |-> Body(f, b)]
    BY <2>1
  <2> QED BY <2>2
<1>8. ReadVarint = [b \in Bytes |-> Body(ReadVarint, b)]
  BY <1>7 DEF ReadVarint, Body, Bytes
<1> QED BY <1>8 DEF Body

\* A number that is read is one, from at least one byte.
LEMMA ReadVarintIs ==
  ASSUME NEW b \in Bytes
  PROVE  ReadVarint[b] = Failure \/ ReadVarint[b] \in Nat \X (1..Len(b))
<1> DEFINE Good(c) == ReadVarint[c] = Failure
                        \/ ReadVarint[c] \in Nat \X (1..Len(c))
           T == {Len(c) : c \in {c \in Bytes : ~Good(c)}}
<1>1. CASE T = {}
  BY <1>1
<1>2. CASE T # {}
  <2>1. T \in SUBSET Nat
    BY DEF Bytes
  <2> HIDE DEF T
  <2>2. PICK k \in T : \A l \in T : k <= l
    BY <1>2, <2>1, Least
  <2>3. PICK c \in Bytes : ~Good(c) /\ Len(c) = k
    BY <2>2 DEF T
  <2>4. c # << >> /\ ~(c[1] < 128)
    <3>1. CASE c = << >>
      BY <2>3, <3>1, ReadVarintDef
    <3>2. CASE c # << >> /\ c[1] < 128
      <4>1. Len(c) \in Nat /\ Len(c) # 0 /\ c[1] \in Byte
        BY <3>2, EmptyBytes, ElementOfSeq DEF Bytes
      <4>2. ReadVarint[c] = <<c[1], 1>>
        BY <3>2, ReadVarintDef
      <4>3. c[1] \in Nat
        BY <4>1, ByteIs
      <4>4. 1 \in 1..Len(c)
        BY <4>1
      <4> QED BY <2>3, <4>2, <4>3, <4>4
    <3> QED BY <3>1, <3>2
  <2> DEFINE t == Tail(c)
  <2>5. t \in Bytes /\ Len(t) = Len(c) - 1 /\ Len(c) \in Nat /\ Len(t) \in Nat
    BY <2>4, HeadTailProperties DEF Bytes
  <2>6. ReadVarint[c] = IF ReadVarint[t] = Failure THEN Failure
                        ELSE <<c[1] - 128 + 128 * ReadVarint[t][1],
                               ReadVarint[t][2] + 1>>
    BY <2>4, ReadVarintDef
  <2> HIDE DEF t
  <2>7. Good(t)
    <3>1. Len(t) \notin T
      BY <2>2, <2>3, <2>5
    <3> QED BY <2>5, <3>1 DEF T
  <2>8. c[1] - 128 \in Nat
    <3>1. c[1] \in Byte
      BY <2>4, <2>5, EmptyBytes, ElementOfSeq DEF Bytes
    <3>2. c[1] \in Nat
      BY <3>1, ByteIs
    <3> QED BY <2>4, <3>2
  <2>9. CASE ReadVarint[t] # Failure
    <3>1. PICK v \in Nat, n \in 1..Len(t) : ReadVarint[t] = <<v, n>>
      BY <2>7, <2>9
    <3>2. ReadVarint[c] = <<c[1] - 128 + 128 * v, n + 1>>
      BY <2>6, <2>9, <3>1
    <3>3. c[1] - 128 + 128 * v \in Nat /\ n + 1 \in 1..Len(c)
      BY <2>5, <2>8, <3>1
    <3> QED BY <2>3, <3>2, <3>3
  <2> QED BY <2>3, <2>6, <2>9
<1> QED BY <1>1, <1>2

\* A number is read back as it was written, whatever follows.
THEOREM VarintIsRead ==
  ASSUME NEW n \in Nat, NEW s \in Bytes
  PROVE  ReadVarint[Varint[n] \o s] = <<n, Len(Varint[n])>>
<1> DEFINE T == {k \in Nat : ReadVarint[Varint[k] \o s]
                               # <<k, Len(Varint[k])>>}
<1>1. CASE T = {}
  BY <1>1
<1>2. CASE T # {}
  <2>1. PICK k \in T : \A l \in T : k <= l
    BY <1>2, Least
  <2>2. k \in Nat /\ ReadVarint[Varint[k] \o s] # <<k, Len(Varint[k])>>
    BY <2>1
  <2>3. CASE k < 128
    <3>1. Varint[k] = <<k>> /\ k \in Byte
      <4> HIDE DEF T
      <4>1. k <= 255
        BY <2>2, <2>3
      <4>2. k \in Byte
        BY <2>2, <4>1, ByteIs
      <4> QED BY <2>2, <2>3, <4>2, VarintDef
    <3> DEFINE b == <<k>> \o s
    <3>2. b \in Bytes /\ b # << >> /\ b[1] = k
      BY <3>1, OneMore DEF Bytes
    <3> HIDE DEF b
    <3>3. ReadVarint[b] = <<k, 1>>
      BY <2>3, <3>2, ReadVarintDef
    <3>4. Len(<<k>>) = 1
      OBVIOUS
    <3> QED BY <2>2, <3>1, <3>3, <3>4 DEF b
  <2>4. CASE ~(k < 128)
    <3> DEFINE d == k \div 128
               e == 128 + (k % 128)
    <3>1. /\ d \in Nat /\ d < k /\ e \in Byte /\ ~(e < 128)
          /\ e - 128 + 128 * d = k
      BY <2>2, <2>4 DEF Byte
    <3>2. Varint[k] = <<e>> \o Varint[d]
      BY <2>2, <2>4, VarintDef
    <3> HIDE DEF d, e
    <3>3. ReadVarint[Varint[d] \o s] = <<d, Len(Varint[d])>>
      <4> HIDE DEF T
      <4>1. d \notin T
        BY <2>1, <2>2, <3>1
      <4> QED BY <3>1, <4>1 DEF T
    <3> DEFINE v == Varint[d]
               b == <<e>> \o (v \o s)
    <3>4. v \in Bytes
      BY <3>1, VarintIs
    <3> HIDE DEF v
    <3>5. v \o s \in Bytes
      BY <3>4, Joined DEF Bytes
    <3>6. b \in Bytes /\ b # << >> /\ b[1] = e /\ Tail(b) = v \o s
      BY <3>1, <3>5, OneMore DEF Bytes
    <3>7. Varint[k] \o s = b
      <4>1. <<e>> \in Seq(Byte)
        BY <3>1
      <4>2. Varint[k] = <<e>> \o v
        BY <3>2 DEF v
      <4>3. (<<e>> \o v) \o s = <<e>> \o (v \o s)
        BY <3>4, <4>1, ConcatAssociative DEF Bytes
      <4> QED BY <4>2, <4>3
    <3> HIDE DEF b
    <3>8. ReadVarint[v \o s] = <<d, Len(v)>>
      BY <3>3 DEF v
    <3>9. ReadVarint[b] = <<e - 128 + 128 * d, Len(v) + 1>>
      <4> DEFINE rest == ReadVarint[v \o s]
      <4>1. rest # Failure /\ rest[1] = d /\ rest[2] = Len(v)
        BY <3>8 DEF Failure
      <4>2. b \in Bytes
        BY <3>6
      <4>3. ReadVarint[b] =
              IF b = << >> THEN Failure
              ELSE IF b[1] < 128 THEN <<b[1], 1>>
              ELSE IF ReadVarint[Tail(b)] = Failure THEN Failure
              ELSE <<b[1] - 128 + 128 * ReadVarint[Tail(b)][1],
                     ReadVarint[Tail(b)][2] + 1>>
        BY ONLY <4>2, ReadVarintDef, Zenon
      <4>4. ReadVarint[b] = <<e - 128 + 128 * rest[1], rest[2] + 1>>
        BY ONLY <3>1, <3>6, <4>1, <4>3
      <4> QED BY <4>1, <4>4
    <3>10. Len(Varint[k]) = Len(v) + 1
      BY <3>1, <3>2, <3>4, OneMore DEF Bytes, v
    <3> QED BY <2>2, <3>1, <3>7, <3>9, <3>10
  <2> QED BY <2>3, <2>4
<1> QED BY <1>1, <1>2

\* A number that has not arrived whole is not read.
LEMMA VarintIsCut ==
  ASSUME NEW n \in Nat, NEW j \in Nat, j < Len(Varint[n])
  PROVE  ReadVarint[SubSeq(Varint[n], 1, j)] = Failure
<1> DEFINE Cut(k, i) == ReadVarint[SubSeq(Varint[k], 1, i)]
           T == {k \in Nat : ~ \A i \in Nat : i < Len(Varint[k])
                                                => Cut(k, i) = Failure}
<1>1. CASE T = {}
  BY <1>1
<1>2. CASE T # {}
  <2>1. PICK k \in T : \A l \in T : k <= l
    BY <1>2, Least
  <2>2. PICK i \in Nat : i < Len(Varint[k]) /\ Cut(k, i) # Failure
    BY <2>1
  <2>3. CASE i = 0
    <3>1. SubSeq(Varint[k], 1, 0) = << >> /\ << >> \in Bytes
      BY SubSeqEmpty, EmptyBytes DEF Bytes
    <3>2. ReadVarint[<< >>] = Failure
      BY <3>1, ReadVarintDef
    <3> QED BY <2>2, <2>3, <3>1, <3>2
  <2>4. CASE i # 0
    <3> DEFINE d == k \div 128
               e == 128 + (k % 128)
    <3>1. ~(k < 128)
      <4>1. k < 128 => Varint[k] = <<k>> /\ Len(<<k>>) = 1
        BY <2>1, VarintDef
      <4>2. k < 128 => Len(Varint[k]) = 1
        BY <4>1
      <4> HIDE DEF Cut, T
      <4>3. i \in Nat /\ i < Len(Varint[k])
        BY <2>2
      <4>4. Len(Varint[k]) \in Nat
        BY <2>1, VarintIs DEF T
      <4> DEFINE len == Len(Varint[k])
      <4> HIDE DEF len
      <4>5. len # 1
        <5>1. len \in Nat /\ i \in Nat /\ i < len /\ i # 0
          BY <2>4, <4>3, <4>4 DEF len
        <5> QED BY <5>1
      <4> QED BY <4>2, <4>5 DEF len
    <3>2. d \in Nat /\ d < k /\ e \in Byte /\ ~(e < 128)
      BY <2>1, <3>1 DEF Byte
    <3>3. Varint[k] = <<e>> \o Varint[d]
      BY <2>1, <3>1, VarintDef
    <3> HIDE DEF d, e
    <3> DEFINE v == Varint[d]
    <3>4. v \in Bytes /\ Len(v) \in Nat
      BY <3>2, VarintIs
    <3>5. Len(Varint[k]) = Len(v) + 1
      BY <3>2, <3>3, <3>4, OneMore DEF Bytes
    <3>6. Cut(d, i - 1) = Failure
      <4>1. d \notin T
        BY <2>1, <3>2
      <4>2. i - 1 \in Nat /\ i - 1 < Len(Varint[d])
        BY <2>2, <2>4, <3>4, <3>5
      <4> QED BY <3>2, <4>1, <4>2
    <3> DEFINE q == SubSeq(v, 1, i - 1)
               b == <<e>> \o q
    <3> HIDE DEF v
    <3>7. q \in Bytes
      <4>1. \A x \in 1..(i - 1) : v[x] \in Byte
        BY <2>2, <3>4, <3>5, ElementOfSeq DEF Bytes
      <4>2. 1 \in Int /\ i - 1 \in Int
        OBVIOUS
      <4> QED BY <4>1, <4>2, SubSeqProperties DEF Bytes
    <3>8. SubSeq(Varint[k], 1, i) = b
      <4>1. <<e>> \in Seq(Byte) /\ Len(<<e>>) = 1
        BY <3>2
      <4>2. i \in 0..(Len(<<e>>) + Len(v)) /\ i - Len(<<e>>) = i - 1
        BY <2>2, <3>4, <3>5, <4>1
      <4>3. SubSeq(<<e>> \o v, 1, i) =
              IF i <= Len(<<e>>) THEN SubSeq(<<e>>, 1, i)
              ELSE <<e>> \o SubSeq(v, 1, i - Len(<<e>>))
        BY <3>4, <4>1, <4>2, Beginning DEF Bytes
      <4>4. CASE i > 1
        BY <3>3, <4>1, <4>2, <4>3, <4>4 DEF v
      <4>5. CASE i = 1
        <5>1. q = << >> /\ <<e>> \o << >> = <<e>>
          BY <4>1, <4>5, SubSeqEmpty, ConcatEmptySeq
        <5>2. SubSeq(<<e>>, 1, Len(<<e>>)) = <<e>>
          BY <4>1, Whole
        <5> QED BY <3>3, <4>1, <4>3, <4>5, <5>1, <5>2 DEF v
      <4> QED BY <2>2, <2>4, <4>4, <4>5
    <3>9. ReadVarint[q] = Failure
      BY <3>6 DEF v
    <3> HIDE DEF q
    <3>10. b \in Bytes /\ b # << >> /\ b[1] = e /\ Tail(b) = q
      BY <3>2, <3>7, OneMore DEF Bytes
    <3> HIDE DEF b
    <3>11. ReadVarint[b] = Failure
      BY <3>2, <3>9, <3>10, ReadVarintDef
    <3> QED BY <2>2, <3>8, <3>11
  <2> QED BY <2>3, <2>4
<1> QED BY <1>1, <1>2

-----------------------------------------------------------------------------
(* Fields.                                                                 *)

FieldSet == [tag : Nat, value : Nat \cup Bytes, raw : Bytes]

\* A part of a sequence of bytes.
LEMMA PartIs ==
  ASSUME NEW b \in Bytes, NEW i \in Nat, i > 0, NEW j \in Nat,
         i <= j + 1, j <= Len(b)
  PROVE  /\ SubSeq(b, i, j) \in Bytes /\ Len(SubSeq(b, i, j)) = j - i + 1
         /\ \A k \in 1..(j - i + 1) : SubSeq(b, i, j)[k] = b[i + k - 1]
<1>1. \A k \in i..j : b[k] \in Byte
  <2>1. \A k \in i..j : k \in 1..Len(b)
    BY DEF Bytes
  <2> QED BY <2>1, ElementOfSeq DEF Bytes
<1>2. i \in Int /\ j \in Int
  OBVIOUS
<1>3. /\ SubSeq(b, i, j) \in Seq(Byte)
      /\ Len(SubSeq(b, i, j)) = IF i <= j THEN j - i + 1 ELSE 0
      /\ \A k \in 1..(j - i + 1) : SubSeq(b, i, j)[k] = b[i + k - 1]
  BY <1>1, <1>2, SubSeqProperties
<1>4. ~(i <= j) => j - i + 1 = 0
  OBVIOUS
<1> QED BY <1>3, <1>4 DEF Bytes

\* What is read of a field is a field, of at least one byte.
LEMMA ReadFieldIs ==
  ASSUME NEW b \in Bytes
  PROVE  \/ ReadField(b) = Failure
         \/ \E f \in FieldSet : /\ ReadField(b) = <<f>>
                                /\ Len(f.raw) \in 1..Len(b)
<1> DEFINE t == ReadVarint[b]
           tag == t[1]
           rest == SubSeq(b, t[2] + 1, Len(b))
           v == ReadVarint[rest]
           Field(value, to) ==
             IF Len(rest) < to THEN Failure
             ELSE << [tag |-> tag, value |-> value,
                      raw |-> SubSeq(b, 1, t[2] + to)] >>
<1>1. ReadField(b) =
        IF t = Failure \/ tag < 8 THEN Failure
        ELSE CASE tag % 8 = 0 -> IF v = Failure THEN Failure
                                 ELSE Field(v[1], v[2])
               [] tag % 8 = 1 -> Field(SubSeq(rest, 1, 8), 8)
               [] tag % 8 = 2 -> IF v = Failure THEN Failure
                                 ELSE Field(SubSeq(rest, v[2] + 1, v[2] + v[1]),
                                            v[2] + v[1])
               [] tag % 8 = 5 -> Field(SubSeq(rest, 1, 4), 4)
               [] OTHER -> Failure
  BY DEF ReadField
<1>2. CASE t = Failure \/ tag < 8
  BY <1>1, <1>2
<1>3. CASE ~(t = Failure \/ tag < 8)
  <2>1. tag \in Nat /\ t[2] \in 1..Len(b) /\ Len(b) \in Nat
    <3>1. t \in Nat \X (1..Len(b))
      BY <1>3, ReadVarintIs
    <3> QED BY <3>1 DEF Bytes
  <2> HIDE DEF t
  <2>2. rest \in Bytes /\ Len(rest) = Len(b) - t[2]
    <3>1. /\ t[2] + 1 \in Nat /\ t[2] + 1 > 0
          /\ t[2] + 1 <= Len(b) + 1 /\ Len(b) <= Len(b)
          /\ Len(b) - (t[2] + 1) + 1 = Len(b) - t[2]
      BY <2>1
    <3> QED BY <2>1, <3>1, PartIs
  <2> HIDE DEF rest
  <2>3. ASSUME NEW value \in Nat \cup Bytes, NEW to \in Nat, to <= Len(rest)
        PROVE  \E f \in FieldSet : /\ Field(value, to) = <<f>>
                                   /\ Len(f.raw) \in 1..Len(b)
    <3> DEFINE raw == SubSeq(b, 1, t[2] + to)
               f == [tag |-> tag, value |-> value, raw |-> raw]
    <3>1. /\ t[2] + to \in Nat /\ 1 \in Nat /\ 1 > 0
          /\ 1 <= (t[2] + to) + 1 /\ t[2] + to <= Len(b)
          /\ (t[2] + to) - 1 + 1 \in 1..Len(b)
          /\ ~(Len(rest) < to)
      BY <2>1, <2>2, <2>3
    <3>2. raw \in Bytes /\ Len(raw) \in 1..Len(b)
      BY <3>1, PartIs
    <3> HIDE DEF raw
    <3>3. f \in FieldSet /\ f.raw = raw
      BY <2>1, <3>2 DEF FieldSet
    <3>4. Field(value, to) = <<f>>
      BY <3>1 DEF raw
    <3> QED BY <3>2, <3>3, <3>4
  <2>4. ASSUME NEW value, NEW to \in Nat, ~(to <= Len(rest))
        PROVE  Field(value, to) = Failure
    BY <2>1, <2>2, <2>4
  <2>5. v = Failure \/ v \in Nat \X (1..Len(rest))
    BY <2>2, ReadVarintIs
  <2> HIDE DEF v, Field, tag
  <2> DEFINE Goal(x) == \/ x = Failure
                        \/ \E f \in FieldSet : /\ x = <<f>>
                                               /\ Len(f.raw) \in 1..Len(b)
  <2>6. ASSUME NEW n \in Nat PROVE Goal(Field(SubSeq(rest, 1, n), n))
    <3>1. CASE n <= Len(rest)
      <4>1. 1 \in Nat /\ 1 > 0 /\ 1 <= n + 1
        OBVIOUS
      <4>2. SubSeq(rest, 1, n) \in Bytes
        BY <2>2, <3>1, <4>1, PartIs
      <4> QED BY <2>3, <3>1, <4>2
    <3>2. CASE ~(n <= Len(rest))
      BY <2>4, <3>2
    <3> QED BY <3>1, <3>2
  <2>7. CASE v # Failure
    <3>1. PICK m \in Nat, k \in 1..Len(rest) : v[1] = m /\ v[2] = k
      BY <2>5, <2>7
    <3>2. k \in Nat /\ k <= Len(rest) /\ Len(rest) \in Nat
      BY <2>2 DEF Bytes
    <3>3. Goal(Field(v[1], v[2]))
      BY <2>3, <3>1, <3>2
    <3>4. Goal(Field(SubSeq(rest, v[2] + 1, v[2] + v[1]), v[2] + v[1]))
      <4>1. CASE k + m <= Len(rest)
        <5>1. /\ k + 1 \in Nat /\ k + 1 > 0 /\ k + m \in Nat
              /\ k + 1 <= (k + m) + 1
          BY <3>1, <3>2
        <5>2. SubSeq(rest, k + 1, k + m) \in Bytes
          BY <2>2, <4>1, <5>1, PartIs
        <5> QED BY <2>3, <3>1, <4>1, <5>1, <5>2
      <4>2. CASE ~(k + m <= Len(rest))
        <5>1. k + m \in Nat
          BY <3>1, <3>2
        <5> QED BY <2>4, <3>1, <4>2, <5>1
      <4> QED BY <4>1, <4>2
    <3>5. Goal(Field(SubSeq(rest, 1, 8), 8)) /\ Goal(Field(SubSeq(rest, 1, 4), 4))
      BY <2>6
    <3> HIDE DEF Goal
    <3>6. Goal(Failure)
      BY DEF Goal
    <3>7. Goal(ReadField(b))
      BY <1>1, <1>3, <2>7, <3>3, <3>4, <3>5, <3>6
    <3> QED BY <3>7 DEF Goal
  <2>8. CASE v = Failure
    <3>5. Goal(Field(SubSeq(rest, 1, 8), 8)) /\ Goal(Field(SubSeq(rest, 1, 4), 4))
      BY <2>6
    <3> HIDE DEF Goal
    <3>6. Goal(Failure)
      BY DEF Goal
    <3>7. Goal(ReadField(b))
      BY <1>1, <1>3, <2>8, <3>5, <3>6
    <3> QED BY <3>7 DEF Goal
  <2> QED BY <2>7, <2>8
<1> QED BY <1>2, <1>3

Lists == {Failure} \cup {<<l>> : l \in Seq(FieldSet)}

\* Fields is the function its recursion says.
LEMMA FieldsDef ==
  /\ Fields[<< >>] = << << >> >>
  /\ \A b \in Bytes : Fields[b] \in Lists
  /\ \A b \in Bytes : b # << >> =>
       IF ReadField(b) = Failure THEN Fields[b] = Failure
       ELSE LET rest == Fields[SubSeq(b, Len(ReadField(b)[1].raw) + 1, Len(b))]
            IN Fields[b] = IF rest = Failure THEN Failure
                           ELSE << ReadField(b) \o rest[1] >>
<1> DEFINE Rest(b) == SubSeq(b, Len(ReadField(b)[1].raw) + 1, Len(b))
           Body(f, b) ==
             IF b = << >> THEN << << >> >>
             ELSE IF ReadField(b) = Failure THEN Failure
             ELSE IF f[Rest(b)] = Failure THEN Failure
             ELSE << ReadField(b) \o f[Rest(b)][1] >>
           V == Lists
           r == [b \in Bytes |-> Len(b)]
           G == [fb \in [Bytes -> V] \X Bytes |-> Body(fb[1], fb[2])]
<1>1. ASSUME NEW b \in Bytes, ReadField(b) # Failure
      PROVE  /\ Rest(b) \in Bytes /\ Len(Rest(b)) < Len(b)
             /\ ReadField(b) \in Seq(FieldSet)
  <2>1. PICK g \in FieldSet : ReadField(b) = <<g>> /\ Len(g.raw) \in 1..Len(b)
    BY <1>1, ReadFieldIs
  <2>2. Rest(b) = SubSeq(b, Len(g.raw) + 1, Len(b))
    BY <2>1
  <2> DEFINE i == Len(g.raw) + 1
  <2>3. /\ i \in Nat /\ i > 0 /\ Len(b) \in Nat /\ i <= Len(b) + 1
        /\ Len(b) <= Len(b) /\ Len(b) - i + 1 < Len(b)
    BY <2>1 DEF Bytes
  <2> HIDE DEF i
  <2>4. SubSeq(b, i, Len(b)) \in Bytes /\ Len(SubSeq(b, i, Len(b))) < Len(b)
    BY <2>3, PartIs
  <2>5. <<g>> \in Seq(FieldSet)
    OBVIOUS
  <2> QED BY <2>1, <2>2, <2>4, <2>5 DEF i
<1> HIDE DEF Rest
<1>2. \A f \in [Bytes -> V], b \in Bytes : G[<<f, b>>] = Body(f, b)
  OBVIOUS
<1>3. ASSUME NEW f \in [Bytes -> V], NEW b \in Bytes PROVE Body(f, b) \in V
  <2>1. CASE b = << >>
    BY <2>1, EmptyBytes DEF Lists
  <2>2. CASE b # << >> /\ ReadField(b) = Failure
    BY <2>2 DEF Lists
  <2>3. CASE b # << >> /\ ReadField(b) # Failure
    <3>1. f[Rest(b)] \in Lists
      BY <1>1, <2>3
    <3>2. CASE f[Rest(b)] = Failure
      BY <2>3, <3>2 DEF Lists
    <3>3. CASE f[Rest(b)] # Failure
      <4>1. PICK l \in Seq(FieldSet) : f[Rest(b)] = <<l>>
        BY <3>1, <3>3 DEF Lists
      <4>2. ReadField(b) \o l \in Seq(FieldSet)
        BY <1>1, <2>3, Joined
      <4>3. Body(f, b) = << ReadField(b) \o l >>
        BY <2>3, <3>3, <4>1
      <4> QED BY <4>2, <4>3 DEF Lists
    <3> QED BY <3>2, <3>3
  <2> QED BY <2>1, <2>2, <2>3
<1>4. ASSUME NEW f \in [Bytes -> V], NEW h \in [Bytes -> V], NEW b \in Bytes,
             \A c \in Bytes : Len(c) < Len(b) => f[c] = h[c]
      PROVE  Body(f, b) = Body(h, b)
  <2>1. ReadField(b) # Failure => f[Rest(b)] = h[Rest(b)]
    BY <1>1, <1>4
  <2> QED BY <2>1
<1> HIDE DEF Body, G
<1>5. LooksDown(Bytes, V, r, G)
  <2>1. \A f \in [Bytes -> V], b \in Bytes : G[<<f, b>>] \in V
    BY <1>2, <1>3
  <2>2. \A f, h \in [Bytes -> V] : \A b \in Bytes :
          (\A c \in Bytes : r[c] < r[b] => f[c] = h[c])
            => G[<<f, b>>] = G[<<h, b>>]
    <3> TAKE f, h \in [Bytes -> V]
    <3> TAKE b \in Bytes
    <3> HAVE \A c \in Bytes : r[c] < r[b] => f[c] = h[c]
    <3>1. \A c \in Bytes : Len(c) < Len(b) => f[c] = h[c]
      OBVIOUS
    <3>2. Body(f, b) = Body(h, b)
      BY <1>4, <3>1
    <3> QED BY <1>2, <3>2
  <2>3. r \in [Bytes -> Nat]
    BY DEF Bytes
  <2> QED BY <2>1, <2>2, <2>3 DEF LooksDown
<1>6. \E f \in [Bytes -> V] : \A b \in Bytes : f[b] = Body(f, b)
  <2>1. Failure \in V
    BY DEF Lists
  <2> HIDE DEF V, r
  <2>2. Defines(Bytes, V, G)
    BY <1>5, <2>1, RecursionDefines
  <2> QED BY <1>2, <2>2 DEF Defines
<1>7. PICK f : f = [b \in Bytes |-> Body(f, b)]
  <2>1. PICK f \in [Bytes -> V] : \A b \in Bytes : f[b] = Body(f, b)
    BY <1>6
  <2>2. f = [b \in Bytes |-> Body(f, b)]
    BY <2>1
  <2> QED BY <2>2
<1>8. Fields = [b \in Bytes |-> Body(Fields, b)]
  BY <1>7 DEF Fields, Body, Rest, Bytes
<1>9. \A b \in Bytes : Fields[b] = Body(Fields, b)
  BY <1>8
<1>10. \A b \in Bytes : Fields[b] \in Lists
  <2> DEFINE T == {Len(b) : b \in {c \in Bytes : Fields[c] \notin Lists}}
  <2>1. CASE T = {}
    BY <2>1
  <2>2. CASE T # {}
    <3>1. T \in SUBSET Nat
      BY DEF Bytes
    <3> HIDE DEF T
    <3>2. PICK k \in T : \A l \in T : k <= l
      BY <2>2, <3>1, Least
    <3>3. PICK b \in Bytes : Fields[b] \notin Lists /\ Len(b) = k
      BY <3>2 DEF T
    <3>4. Failure \in Lists /\ << << >> >> \in Lists
      BY EmptyBytes DEF Lists
    <3>5. b # << >> /\ ReadField(b) # Failure /\ Fields[Rest(b)] # Failure
          /\ Fields[b] = << ReadField(b) \o Fields[Rest(b)][1] >>
      BY <1>9, <3>3, <3>4 DEF Body
    <3>6. Fields[Rest(b)] \in Lists
      <4>1. Len(Rest(b)) \in Nat /\ Len(b) \in Nat /\ Rest(b) \in Bytes
            /\ Len(Rest(b)) < Len(b)
        BY <1>1, <3>5 DEF Bytes
      <4>2. Len(Rest(b)) \notin T
        BY <3>2, <3>3, <4>1
      <4> QED BY <4>1, <4>2 DEF T
    <3>7. PICK l \in Seq(FieldSet) : Fields[Rest(b)] = <<l>>
      BY <3>5, <3>6 DEF Lists
    <3>8. ReadField(b) \o l \in Seq(FieldSet)
      BY <1>1, <3>5, Joined
    <3>9. Fields[b] = << ReadField(b) \o l >>
      BY <3>5, <3>7
    <3> QED BY <3>3, <3>8, <3>9 DEF Lists
  <2> QED BY <2>1, <2>2
<1>11. Fields[<< >>] = << << >> >>
  BY <1>9, EmptyBytes DEF Body, Bytes
<1> QED BY <1>9, <1>10, <1>11 DEF Body, Rest

\* The bytes e are those of the field f, which is read if they are there, and
\* not if some of them are missing.
Encodes(e, f) ==
  /\ e \in Bytes /\ e # << >> /\ f \in FieldSet /\ f.raw = e
  /\ \A s \in Bytes : ReadField(e \o s) = <<f>>
  /\ \A j \in Nat : j < Len(e) => ReadField(SubSeq(e, 1, j)) = Failure

\* A field is read, then what follows.
LEMMA FieldIsRead ==
  ASSUME NEW e, NEW f, Encodes(e, f), NEW s \in Bytes
  PROVE  Fields[e \o s] = IF Fields[s] = Failure THEN Failure
                          ELSE << <<f>> \o Fields[s][1] >>
<1> DEFINE b == e \o s
<1>1. /\ b \in Bytes /\ b # << >> /\ ReadField(b) = <<f>>
      /\ Len(b) = Len(e) + Len(s)
  <2>1. /\ b \in Bytes /\ Len(b) = Len(e) + Len(s)
        /\ Len(e) \in Nat /\ Len(s) \in Nat
    BY Joined DEF Encodes, Bytes
  <2>2. Len(e) > 0
    BY EmptyBytes DEF Encodes, Bytes
  <2>3. b # << >>
    <3> HIDE DEF b
    <3> QED BY <2>1, <2>2, EmptyBytes DEF Bytes
  <2> QED BY <2>1, <2>3 DEF Encodes
<1>2. SubSeq(b, Len(e) + 1, Len(b)) = s
  <2>1. Len(s) \in 0..Len(s)
    BY DEF Bytes
  <2>2. SubSeq(e \o s, Len(e) + 1, Len(e) + Len(s)) = SubSeq(s, 1, Len(s))
    BY <2>1, Behind DEF Encodes, Bytes
  <2> QED BY <1>1, <2>2, Whole DEF Bytes
<1> HIDE DEF b
<1>3. ReadField(b)[1].raw = e /\ ReadField(b) # Failure
  <2>1. <<f>>[1] = f /\ <<f>> # << >>
    OBVIOUS
  <2> QED BY <1>1, <2>1 DEF Encodes, Failure
<1>4. Fields[b] = IF Fields[s] = Failure THEN Failure
                  ELSE << ReadField(b) \o Fields[s][1] >>
  BY <1>1, <1>2, <1>3, FieldsDef
<1> QED BY <1>1, <1>4 DEF b

\* A field that is cut cannot be read.
LEMMA FieldIsCut ==
  ASSUME NEW e, NEW f, Encodes(e, f), NEW j \in Nat, 0 < j, j < Len(e)
  PROVE  Fields[SubSeq(e, 1, j)] = Failure
<1> DEFINE b == SubSeq(e, 1, j)
<1>1. b \in Bytes /\ Len(b) = j
  <2>1. 1 \in Nat /\ 1 > 0 /\ 1 <= j + 1 /\ j <= Len(e) /\ j - 1 + 1 = j
    BY DEF Encodes, Bytes
  <2> QED BY <2>1, PartIs DEF Encodes
<1>2. b # << >>
  <2> HIDE DEF b
  <2> QED BY <1>1, EmptyBytes DEF Bytes
<1>3. ReadField(b) = Failure
  BY DEF Encodes
<1> HIDE DEF b
<1>4. Fields[b] = Failure
  BY <1>1, <1>2, <1>3, FieldsDef
<1> QED BY <1>4 DEF b

-----------------------------------------------------------------------------
(* The fields that are written are read.                                   *)

\* The beginning of a concatenation, its first half in whole.
LEMMA Longer ==
  ASSUME NEW S, NEW s \in Seq(S), NEW t \in Seq(S), NEW k \in 0..Len(t)
  PROVE  SubSeq(s \o t, 1, Len(s) + k) = s \o SubSeq(t, 1, k)
<1>1. /\ Len(s) \in Nat /\ Len(t) \in Nat /\ k \in Nat
      /\ Len(s) + k \in 0..(Len(s) + Len(t))
      /\ (Len(s) + k) - Len(s) = k
  OBVIOUS
<1>2. CASE k = 0
  <2>1. Len(s) + k = Len(s) /\ Len(s) <= Len(s)
    BY <1>1, <1>2
  <2>2. SubSeq(s \o t, 1, Len(s) + k) = SubSeq(s, 1, Len(s))
    BY <1>1, <2>1, Beginning
  <2>3. SubSeq(t, 1, k) = << >> /\ s \o << >> = s
    BY <1>2, SubSeqEmpty, ConcatEmptySeq
  <2> QED BY <2>2, <2>3, Whole
<1>3. CASE k # 0
  <2>1. ~(Len(s) + k <= Len(s))
    BY <1>1, <1>3
  <2> QED BY <1>1, <2>1, Beginning
<1> QED BY <1>2, <1>3

Tags == 8..127

\* A field behind its tag, which is one byte.
LEMMA TagIsRead ==
  ASSUME NEW tag \in Tags, NEW s \in Bytes
  PROVE  /\ <<tag>> \o s \in Bytes /\ Len(<<tag>> \o s) = Len(s) + 1
         /\ Len(s) \in Nat
         /\ ReadVarint[<<tag>> \o s] = <<tag, 1>>
         /\ SubSeq(<<tag>> \o s, 2, Len(<<tag>> \o s)) = s
<1>1. tag \in Byte /\ tag < 128
  BY DEF Tags, Byte
<1> DEFINE b == <<tag>> \o s
<1>2. /\ b \in Bytes /\ b # << >> /\ b[1] = tag /\ Len(b) = Len(s) + 1
      /\ Len(s) \in Nat
  BY <1>1, OneMore DEF Bytes
<1>3. SubSeq(b, 2, Len(b)) = s
  <2>1. Len(<<tag>>) = 1 /\ <<tag>> \in Seq(Byte)
    BY <1>1
  <2>2. Len(s) \in 0..Len(s) /\ 1 + 1 = 2 /\ 1 + Len(s) = Len(s) + 1
    BY <1>2
  <2>3. SubSeq(b, 1 + 1, 1 + Len(s)) = SubSeq(s, 1, Len(s))
    BY <2>1, <2>2, Behind DEF Bytes
  <2> QED BY <1>2, <2>2, <2>3, Whole DEF Bytes
<1> HIDE DEF b
<1>4. ReadVarint[b] = <<tag, 1>>
  BY <1>1, <1>2, ReadVarintDef
<1> QED BY <1>2, <1>3, <1>4 DEF b

\* A field that is a string is read.
LEMMA BytesFieldIsRead ==
  ASSUME NEW tag \in Tags, tag % 8 = 2, NEW s \in Bytes,
         NEW n \in Nat, NEW l \in Nat, ReadVarint[s] = <<n, l>>
  PROVE  ReadField(<<tag>> \o s) =
           IF Len(s) < l + n THEN Failure
           ELSE << [tag |-> tag, value |-> SubSeq(s, l + 1, l + n),
                    raw |-> SubSeq(<<tag>> \o s, 1, 1 + (l + n))] >>
<1> DEFINE b == <<tag>> \o s
<1>1. /\ ReadVarint[b] = <<tag, 1>> /\ SubSeq(b, 2, Len(b)) = s
  BY TagIsRead
<1> HIDE DEF b
<1>2. /\ <<tag, 1>>[1] = tag /\ <<tag, 1>>[2] + 1 = 2 /\ <<tag, 1>>[2] = 1
      /\ <<tag, 1>> # << >> /\ ~(tag < 8)
      /\ <<n, l>>[1] = n /\ <<n, l>>[2] = l /\ <<n, l>> # << >>
  BY DEF Tags
<1>3. tag % 8 # 0 /\ tag % 8 # 1 /\ tag % 8 # 5
  OBVIOUS
<1>4. ReadField(b) =
        IF Len(s) < l + n THEN Failure
        ELSE << [tag |-> tag, value |-> SubSeq(s, l + 1, l + n),
                 raw |-> SubSeq(b, 1, 1 + (l + n))] >>
  BY <1>1, <1>2, <1>3, Zenon DEF ReadField, Failure
<1> QED BY <1>4 DEF b

\* A field that is a number is read.
LEMMA VarintFieldIsRead ==
  ASSUME NEW tag \in Tags, tag % 8 = 0, NEW s \in Bytes,
         NEW n \in Nat, NEW l \in Nat, ReadVarint[s] = <<n, l>>
  PROVE  ReadField(<<tag>> \o s) =
           IF Len(s) < l THEN Failure
           ELSE << [tag |-> tag, value |-> n,
                    raw |-> SubSeq(<<tag>> \o s, 1, 1 + l)] >>
<1> DEFINE b == <<tag>> \o s
<1>1. /\ ReadVarint[b] = <<tag, 1>> /\ SubSeq(b, 2, Len(b)) = s
  BY TagIsRead
<1> HIDE DEF b
<1>2. /\ <<tag, 1>>[1] = tag /\ <<tag, 1>>[2] + 1 = 2 /\ <<tag, 1>>[2] = 1
      /\ <<tag, 1>> # << >> /\ ~(tag < 8)
      /\ <<n, l>>[1] = n /\ <<n, l>>[2] = l /\ <<n, l>> # << >>
  BY DEF Tags
<1>3. tag % 8 # 2 /\ tag % 8 # 1 /\ tag % 8 # 5
  OBVIOUS
<1>4. ReadField(b) =
        IF Len(s) < l THEN Failure
        ELSE << [tag |-> tag, value |-> n, raw |-> SubSeq(b, 1, 1 + l)] >>
  BY <1>1, <1>2, <1>3, Zenon DEF ReadField, Failure
<1> QED BY <1>4 DEF b

\* A field is not read before its tag has come, nor before its number has.
LEMMA NoFieldIsRead ==
  /\ ReadField(<< >>) = Failure
  /\ \A tag \in Tags, s \in Bytes :
       tag % 8 \in {0, 2} /\ ReadVarint[s] = Failure
         => ReadField(<<tag>> \o s) = Failure
<1>1. ReadVarint[<< >>] = Failure
  BY ReadVarintDef, EmptyBytes DEF Bytes
<1>2. ReadField(<< >>) = Failure
  BY <1>1, Zenon DEF ReadField
<1>3. ASSUME NEW tag \in Tags, NEW s \in Bytes, tag % 8 \in {0, 2},
             ReadVarint[s] = Failure
      PROVE  ReadField(<<tag>> \o s) = Failure
  <2> DEFINE b == <<tag>> \o s
  <2>1. /\ ReadVarint[b] = <<tag, 1>> /\ SubSeq(b, 2, Len(b)) = s
    BY TagIsRead
  <2> HIDE DEF b
  <2>2. /\ <<tag, 1>>[1] = tag /\ <<tag, 1>>[2] + 1 = 2
        /\ <<tag, 1>> # << >> /\ ~(tag < 8)
    BY DEF Tags
  <2>3. CASE tag % 8 = 0
    <3>1. tag % 8 # 2 /\ tag % 8 # 1 /\ tag % 8 # 5
      BY <2>3
    <3>2. ReadField(b) = Failure
      BY <1>3, <2>1, <2>2, <2>3, <3>1, Zenon DEF ReadField, Failure
    <3> QED BY <3>2 DEF b
  <2>4. CASE tag % 8 = 2
    <3>1. tag % 8 # 0 /\ tag % 8 # 1 /\ tag % 8 # 5
      BY <2>4
    <3>2. ReadField(b) = Failure
      BY <1>3, <2>1, <2>2, <2>4, <3>1, Zenon DEF ReadField, Failure
    <3> QED BY <3>2 DEF b
  <2> QED BY <1>3, <2>3, <2>4
<1> QED BY <1>2, <1>3

\* Bytes, none of them too, are encoded by their tag, their number and them.
StringField(tag, value) == <<tag>> \o Varint[Len(value)] \o value

LEMMA StringEncoded ==
  ASSUME NEW tag \in Tags, tag % 8 = 2, NEW value \in Bytes
  PROVE  Encodes(StringField(tag, value),
                 [tag |-> tag, value |-> value, raw |-> StringField(tag, value)])
<1> DEFINE n == Len(value)
           w == Varint[n]
           l == Len(w)
           e == StringField(tag, value)
<1>1. n \in Nat /\ tag \in Nat /\ <<tag>> \in Seq(Byte) /\ Len(<<tag>>) = 1
  BY DEF Bytes, Tags, Byte
<1>2. w \in Seq(Byte) /\ l \in Nat
  <2> HIDE DEF n
  <2> QED BY <1>1, VarintIs DEF Bytes
<1>3. /\ \A s \in Bytes : ReadVarint[w \o s] = <<n, l>>
      /\ \A j \in Nat : j < l => ReadVarint[SubSeq(w, 1, j)] = Failure
  <2> HIDE DEF n
  <2> QED BY <1>1, VarintIsRead, VarintIsCut
<1> HIDE DEF w
<1>4. /\ w \o value \in Seq(Byte) /\ Len(w \o value) = l + n
      /\ e = <<tag>> \o (w \o value)
  <2>1. e = (<<tag>> \o w) \o value
    BY DEF StringField, w
  <2> HIDE DEF e
  <2> QED BY <1>1, <1>2, <2>1, Joined, ConcatAssociative DEF Bytes
<1> HIDE DEF e, n, l
<1>5. /\ e \in Seq(Byte) /\ Len(e) = 1 + (l + n) /\ e # << >>
  BY <1>1, <1>2, <1>4, Joined, EmptyBytes
<1>6. ASSUME NEW s \in Bytes
      PROVE  ReadField(e \o s) = <<[tag |-> tag, value |-> value, raw |-> e]>>
  <2> DEFINE c == w \o (value \o s)
             b == <<tag>> \o c
  <2>1. /\ value \o s \in Seq(Byte) /\ Len(value \o s) = n + Len(s)
        /\ Len(s) \in Nat
    BY Joined DEF Bytes, n
  <2>2. c \in Seq(Byte) /\ Len(c) = l + (n + Len(s))
    BY <1>2, <2>1, Joined DEF l
  <2>3. e \o s = b
    <3>1. (<<tag>> \o (w \o value)) \o s = <<tag>> \o ((w \o value) \o s)
      BY <1>1, <1>4, ConcatAssociative DEF Bytes
    <3>2. (w \o value) \o s = w \o (value \o s)
      BY <1>2, ConcatAssociative DEF Bytes
    <3> QED BY <1>4, <3>1, <3>2
  <2>4. ReadVarint[c] = <<n, l>>
    BY <1>3, <2>1 DEF Bytes
  <2>5. SubSeq(c, l + 1, l + n) = value
    <3>1. n \in 0..Len(value \o s) /\ n \in 0..(Len(value) + Len(s))
          /\ n <= Len(value)
      BY <1>1, <2>1 DEF n
    <3>2. SubSeq(c, l + 1, l + n) = SubSeq(value \o s, 1, n)
      BY <1>2, <2>1, <3>1, Behind DEF l
    <3>3. SubSeq(value \o s, 1, n) = SubSeq(value, 1, n)
      BY <3>1, Beginning DEF Bytes
    <3> QED BY <3>2, <3>3, Whole DEF Bytes, n
  <2>6. SubSeq(b, 1, 1 + (l + n)) = e
    <3>1. /\ Len(e) \in 0..(Len(e) + Len(s)) /\ Len(e) <= Len(e)
      BY <1>1, <1>2, <1>5, <2>1
    <3>2. SubSeq(e \o s, 1, Len(e)) = SubSeq(e, 1, Len(e))
      BY <1>5, <3>1, Beginning DEF Bytes
    <3> QED BY <1>5, <2>3, <3>2, Whole
  <2>7. ~(Len(c) < l + n)
    BY <1>1, <1>2, <2>1, <2>2
  <2> HIDE DEF c
  <2>8. ReadField(b) = <<[tag |-> tag, value |-> SubSeq(c, l + 1, l + n),
                          raw |-> SubSeq(b, 1, 1 + (l + n))]>>
    BY <1>1, <1>2, <2>2, <2>4, <2>7, BytesFieldIsRead DEF Bytes
  <2> QED BY <2>3, <2>5, <2>6, <2>8
<1>7. ASSUME NEW j \in Nat, j < Len(e)
      PROVE  ReadField(SubSeq(e, 1, j)) = Failure
  <2>1. CASE j = 0
    <3>1. SubSeq(e, 1, j) = << >>
      BY <2>1, SubSeqEmpty
    <3> QED BY <3>1, NoFieldIsRead
  <2>2. CASE j # 0
    <3> DEFINE i == j - 1
               wv == w \o value
               c == SubSeq(wv, 1, i)
    <3>1. i \in Nat /\ 1 + i = j /\ i < l + n /\ i \in 0..Len(wv)
      BY <1>1, <1>2, <1>4, <1>5, <1>7, <2>2
    <3>2. SubSeq(e, 1, j) = <<tag>> \o c
      <4>1. SubSeq(<<tag>> \o wv, 1, Len(<<tag>>) + i) = <<tag>> \o c
        BY <1>1, <1>4, <3>1, Longer
      <4> QED BY <1>1, <1>4, <3>1, <4>1
    <3>3. c \in Bytes /\ Len(c) = i
      <4>1. /\ 1 \in Nat /\ 1 > 0 /\ 1 <= i + 1 /\ i <= Len(wv)
            /\ i - 1 + 1 = i
        BY <1>1, <1>2, <1>4, <3>1
      <4>2. wv \in Bytes
        BY <1>4 DEF Bytes
      <4> HIDE DEF wv, i
      <4> QED BY <3>1, <4>1, <4>2, PartIs
    <3>4. CASE i < l
      <4>1. i \in 0..(Len(w) + Len(value)) /\ i <= Len(w)
        BY <1>1, <1>2, <3>1, <3>4 DEF l, n
      <4>2. c = SubSeq(w, 1, i)
        BY <1>2, <4>1, Beginning DEF Bytes
      <4>3. ReadVarint[c] = Failure
        BY <1>3, <3>1, <3>4, <4>2
      <4> HIDE DEF c
      <4> QED BY <3>2, <3>3, <4>3, NoFieldIsRead
    <3>5. CASE ~(i < l)
      <4> DEFINE k == i - l
      <4>1. k \in 0..Len(value) /\ l + k = i
        BY <1>1, <1>2, <3>1, <3>5 DEF n
      <4>2. c = w \o SubSeq(value, 1, k)
        <5>1. SubSeq(w \o value, 1, Len(w) + k) = w \o SubSeq(value, 1, k)
          BY <1>2, <4>1, Longer DEF Bytes
        <5> QED BY <4>1, <5>1 DEF l
      <4>3. SubSeq(value, 1, k) \in Bytes
        <5>1. /\ 1 \in Nat /\ 1 > 0 /\ 1 <= k + 1 /\ k <= Len(value)
              /\ k \in Nat
          BY <1>1, <4>1 DEF n
        <5> HIDE DEF k
        <5> QED BY <5>1, PartIs
      <4>4. ReadVarint[c] = <<n, l>>
        BY <1>3, <4>2, <4>3
      <4>5. Len(c) < l + n
        BY <3>1, <3>3
      <4> HIDE DEF c, i
      <4> QED BY <1>1, <1>2, <3>2, <3>3, <4>4, <4>5, BytesFieldIsRead
    <3> QED BY <3>4, <3>5
  <2> QED BY <2>1, <2>2
<1>8. [tag |-> tag, value |-> value, raw |-> e] \in FieldSet
  BY <1>1, <1>5 DEF FieldSet, Bytes
<1> QED BY <1>5, <1>6, <1>7, <1>8 DEF Encodes, Bytes, e

\* A field of bytes is encoded by what is written for it.
LEMMA BytesEncoded ==
  ASSUME NEW tag \in Tags, tag % 8 = 2, NEW value \in Bytes, value # << >>
  PROVE  Encodes(BytesField(tag, value),
                 [tag |-> tag, value |-> value, raw |-> BytesField(tag, value)])
<1>1. BytesField(tag, value) = StringField(tag, value)
  BY DEF BytesField, StringField
<1> QED BY <1>1, StringEncoded

\* A number is encoded by what is written for it.
LEMMA VarintEncoded ==
  ASSUME NEW tag \in Tags, tag % 8 = 0, NEW n \in Nat, n # 0
  PROVE  Encodes(VarintField(tag, n),
                 [tag |-> tag, value |-> n, raw |-> VarintField(tag, n)])
<1> DEFINE w == Varint[n]
           l == Len(w)
           e == VarintField(tag, n)
<1>1. tag \in Nat /\ <<tag>> \in Seq(Byte) /\ Len(<<tag>>) = 1
  BY DEF Tags, Byte
<1>2. w \in Seq(Byte) /\ l \in Nat
  BY VarintIs DEF Bytes
<1>3. /\ \A s \in Bytes : ReadVarint[w \o s] = <<n, l>>
      /\ \A j \in Nat : j < l => ReadVarint[SubSeq(w, 1, j)] = Failure
  BY VarintIsRead, VarintIsCut
<1> HIDE DEF w
<1>4. e = <<tag>> \o w
  BY DEF VarintField, w
<1> HIDE DEF e, l
<1>5. e \in Seq(Byte) /\ Len(e) = 1 + l /\ e # << >>
  <2>1. e \in Seq(Byte) /\ Len(e) = 1 + l
    BY <1>1, <1>2, <1>4, Joined DEF l
  <2> QED BY <1>2, <2>1, EmptyBytes
<1>6. ASSUME NEW s \in Bytes
      PROVE  ReadField(e \o s) = <<[tag |-> tag, value |-> n, raw |-> e]>>
  <2> DEFINE c == w \o s
             b == <<tag>> \o c
  <2>1. c \in Seq(Byte) /\ Len(c) = l + Len(s) /\ Len(s) \in Nat
    BY <1>2, Joined DEF Bytes, l
  <2>2. e \o s = b
    BY <1>1, <1>2, <1>4, ConcatAssociative DEF Bytes
  <2>3. ReadVarint[c] = <<n, l>>
    BY <1>3
  <2>4. SubSeq(b, 1, 1 + l) = e
    <3>1. Len(e) \in 0..(Len(e) + Len(s)) /\ Len(e) <= Len(e)
      BY <1>2, <1>5, <2>1
    <3>2. SubSeq(e \o s, 1, Len(e)) = SubSeq(e, 1, Len(e))
      BY <1>5, <3>1, Beginning DEF Bytes
    <3> QED BY <1>5, <2>2, <3>2, Whole
  <2>5. ~(Len(c) < l)
    BY <1>2, <2>1
  <2> HIDE DEF c
  <2>6. ReadField(b) = <<[tag |-> tag, value |-> n,
                          raw |-> SubSeq(b, 1, 1 + l)]>>
    BY <1>2, <2>1, <2>3, <2>5, VarintFieldIsRead DEF Bytes
  <2> QED BY <2>2, <2>4, <2>6
<1>7. ASSUME NEW j \in Nat, j < Len(e)
      PROVE  ReadField(SubSeq(e, 1, j)) = Failure
  <2>1. CASE j = 0
    <3>1. SubSeq(e, 1, j) = << >>
      BY <2>1, SubSeqEmpty
    <3> QED BY <3>1, NoFieldIsRead
  <2>2. CASE j # 0
    <3> DEFINE i == j - 1
               c == SubSeq(w, 1, i)
    <3>1. i \in Nat /\ 1 + i = j /\ i < l /\ i \in 0..Len(w)
      BY <1>2, <1>5, <1>7, <2>2 DEF l
    <3>2. SubSeq(e, 1, j) = <<tag>> \o c
      <4>1. SubSeq(<<tag>> \o w, 1, Len(<<tag>>) + i) = <<tag>> \o c
        BY <1>1, <1>2, <3>1, Longer
      <4> QED BY <1>1, <1>4, <3>1, <4>1
    <3>3. c \in Bytes
      <4>1. 1 \in Nat /\ 1 > 0 /\ 1 <= i + 1 /\ i <= Len(w)
        BY <1>2, <3>1 DEF l
      <4>2. w \in Bytes
        BY <1>2 DEF Bytes
      <4> HIDE DEF i
      <4> QED BY <3>1, <4>1, <4>2, PartIs
    <3>4. ReadVarint[c] = Failure
      BY <1>3, <3>1
    <3> HIDE DEF c
    <3> QED BY <3>2, <3>3, <3>4, NoFieldIsRead
  <2> QED BY <2>1, <2>2
<1>8. [tag |-> tag, value |-> n, raw |-> e] \in FieldSet
  BY <1>1, <1>5 DEF FieldSet, Bytes
<1> QED BY <1>5, <1>6, <1>7, <1>8 DEF Encodes, Bytes, e

-----------------------------------------------------------------------------
(* Sequences of fields.                                                    *)

\* What is written for a field is nothing or encodes it.
Piece(e, fs) == \/ e = << >> /\ fs = << >>
                \/ \E f : fs = <<f>> /\ Encodes(e, f)

\* The bytes e are those of the fields l; if some are missing at the end, the
\* fields that are read are in L.
Spells(e, l, L) ==
  /\ e \in Bytes /\ l \in Seq(FieldSet) /\ L \subseteq Seq(FieldSet)
  /\ Fields[e] = <<l>>
  /\ \A k \in 0..Len(e) :
       Fields[SubSeq(e, 1, k)] \in {Failure} \cup {<<x>> : x \in L}

\* No field is a text.
LEMMA NoText == Spells(<< >>, << >>, {<< >>})
<1>1. << >> \in Bytes /\ << >> \in Seq(FieldSet)
  BY EmptyBytes DEF Bytes
<1>2. \A k \in 0..Len(<< >>) : SubSeq(<< >>, 1, k) = << >>
  BY SubSeqEmpty
<1> QED BY <1>1, <1>2, FieldsDef DEF Spells

\* A field before a text is a text.
LEMMA TextWith ==
  ASSUME NEW e1, NEW fs, Piece(e1, fs), NEW e, NEW l, NEW L, Spells(e, l, L)
  PROVE  Spells(e1 \o e, fs \o l, {<< >>} \cup {fs \o x : x \in L})
<1> DEFINE M == {<< >>} \cup {fs \o x : x \in L}
<1>1. e \in Seq(Byte) /\ l \in Seq(FieldSet) /\ L \subseteq Seq(FieldSet)
  BY DEF Spells, Bytes
<1>2. CASE e1 = << >> /\ fs = << >>
  <2>1. e1 \o e = e /\ fs \o l = l
    BY <1>1, <1>2, ConcatEmptySeq
  <2>2. \A x \in L : fs \o x = x
    BY <1>1, <1>2, ConcatEmptySeq
  <2>3. L \subseteq M
    BY <2>2
  <2>4. M \subseteq Seq(FieldSet)
    BY <1>1, <2>2, EmptyBytes
  <2> HIDE DEF M
  <2>5. Spells(e, l, M)
    BY <2>3, <2>4 DEF Spells
  <2> QED BY <2>1, <2>5 DEF M
<1>3. ASSUME NEW f, fs = <<f>>, Encodes(e1, f)
      PROVE  Spells(e1 \o e, fs \o l, M)
  <2>1. /\ e1 \in Seq(Byte) /\ f \in FieldSet /\ fs \in Seq(FieldSet)
    BY <1>3 DEF Encodes, Bytes
  <2>2. M \subseteq Seq(FieldSet)
    BY <1>1, <2>1, EmptyBytes, Joined
  <2>3. /\ e1 \o e \in Bytes /\ Len(e1 \o e) = Len(e1) + Len(e)
        /\ Len(e1) \in Nat /\ Len(e) \in Nat
        /\ fs \o l \in Seq(FieldSet)
    BY <1>1, <2>1, Joined DEF Bytes
  <2>4. ASSUME NEW c \in Bytes, NEW x, Fields[c] = <<x>>
        PROVE  Fields[e1 \o c] = <<fs \o x>>
    <3>1. Fields[c] # Failure /\ Fields[c][1] = x
      BY <2>4 DEF Failure
    <3> QED BY <1>3, <3>1, FieldIsRead
  <2>5. Fields[e1 \o e] = <<fs \o l>>
    BY <1>1, <2>4 DEF Spells, Bytes
  <2>6. ASSUME NEW k \in 0..Len(e1 \o e)
        PROVE  Fields[SubSeq(e1 \o e, 1, k)] \in {Failure} \cup {<<x>> : x \in M}
    <3>1. CASE k < Len(e1)
      <4>1. k \in 0..(Len(e1) + Len(e)) /\ k <= Len(e1) /\ k \in Nat
        BY <2>3, <3>1
      <4>2. SubSeq(e1 \o e, 1, k) = SubSeq(e1, 1, k)
        BY <1>1, <2>1, <4>1, Beginning
      <4>3. CASE k = 0
        <5>1. SubSeq(e1, 1, k) = << >>
          BY <4>3, SubSeqEmpty
        <5> QED BY <4>2, <5>1, FieldsDef
      <4>4. CASE k # 0
        <5>1. Fields[SubSeq(e1, 1, k)] = Failure
          BY <1>3, <3>1, <4>1, <4>4, FieldIsCut
        <5> QED BY <4>2, <5>1
      <4> QED BY <4>3, <4>4
    <3>2. CASE ~(k < Len(e1))
      <4> DEFINE i == k - Len(e1)
                 c == SubSeq(e, 1, i)
      <4>1. i \in 0..Len(e) /\ Len(e1) + i = k
        BY <2>3, <3>2
      <4>2. SubSeq(e1 \o e, 1, k) = e1 \o c
        <5>1. SubSeq(e1 \o e, 1, Len(e1) + i) = e1 \o SubSeq(e, 1, i)
          BY <1>1, <2>1, <4>1, Longer
        <5> QED BY <4>1, <5>1
      <4>3. c \in Bytes
        <5>1. 1 \in Nat /\ 1 > 0 /\ 1 <= i + 1 /\ i <= Len(e) /\ i \in Nat
          BY <2>3, <4>1
        <5>2. e \in Bytes
          BY <1>1 DEF Bytes
        <5> HIDE DEF i
        <5> QED BY <5>1, <5>2, PartIs
      <4>4. Fields[c] \in {Failure} \cup {<<x>> : x \in L}
        BY <4>1 DEF Spells
      <4> HIDE DEF c
      <4>5. CASE Fields[c] = Failure
        <5>1. Fields[e1 \o c] = Failure
          BY <1>3, <4>3, <4>5, FieldIsRead
        <5> QED BY <4>2, <5>1
      <4>6. ASSUME NEW x \in L, Fields[c] = <<x>>
            PROVE  Fields[SubSeq(e1 \o e, 1, k)]
                     \in {Failure} \cup {<<y>> : y \in M}
        <5>1. Fields[e1 \o c] = <<fs \o x>>
          BY <2>4, <4>3, <4>6
        <5> QED BY <4>2, <5>1
      <4> QED BY <4>4, <4>5, <4>6
    <3> QED BY <3>1, <3>2
  <2> HIDE DEF M
  <2> QED BY <2>2, <2>3, <2>5, <2>6 DEF Spells
<1> QED BY <1>2, <1>3 DEF Piece

\* The bytes of a message of up to three fields: if some are missing at the
\* end, the parse fails or the last fields are missing.
LEMMA MessageText ==
  ASSUME NEW e1, NEW fs1, Piece(e1, fs1), NEW e2, NEW fs2, Piece(e2, fs2),
         NEW e3, NEW fs3, Piece(e3, fs3)
  PROVE  Spells(e1 \o (e2 \o e3), fs1 \o (fs2 \o fs3),
              {<< >>, fs1, fs1 \o fs2, fs1 \o (fs2 \o fs3)})
<1>1. ASSUME NEW e, NEW fs, Piece(e, fs)
      PROVE  e \in Bytes /\ fs \in Seq(FieldSet)
  <2>1. << >> \in Bytes /\ << >> \in Seq(FieldSet)
    BY EmptyBytes DEF Bytes
  <2>2. ASSUME NEW f, fs = <<f>>, Encodes(e, f)
        PROVE  e \in Bytes /\ fs \in Seq(FieldSet)
    BY <2>2 DEF Encodes
  <2> QED BY <1>1, <2>1, <2>2 DEF Piece
<1>2. /\ e3 \o << >> = e3 /\ fs3 \o << >> = fs3
      /\ fs2 \o << >> = fs2 /\ fs1 \o << >> = fs1
  BY <1>1, ConcatEmptySeq DEF Bytes
<1>3. Spells(e3, fs3, {<< >>, fs3})
  <2> DEFINE e == << >>
             l == << >>
             L == {<< >>}
  <2>1. {<< >>} \cup {fs3 \o x : x \in L} = {<< >>, fs3}
    BY <1>2
  <2>2. e3 \o e = e3 /\ fs3 \o l = fs3 /\ Spells(e, l, L)
    BY <1>2, NoText
  <2> HIDE DEF e, l, L
  <2>3. Spells(e3 \o e, fs3 \o l, {<< >>} \cup {fs3 \o x : x \in L})
    BY <2>2, TextWith
  <2> QED BY <2>1, <2>2, <2>3
<1>4. Spells(e2 \o e3, fs2 \o fs3, {<< >>, fs2, fs2 \o fs3})
  <2> DEFINE L == {<< >>, fs3}
  <2>1. {<< >>} \cup {fs2 \o x : x \in L} = {<< >>, fs2, fs2 \o fs3}
    BY <1>2
  <2>2. Spells(e3, fs3, L)
    BY <1>3
  <2> HIDE DEF L
  <2>3. Spells(e2 \o e3, fs2 \o fs3, {<< >>} \cup {fs2 \o x : x \in L})
    BY <2>2, TextWith
  <2> QED BY <2>1, <2>3
<1> DEFINE L == {<< >>, fs2, fs2 \o fs3}
           e == e2 \o e3
           l == fs2 \o fs3
<1>5. {<< >>} \cup {fs1 \o x : x \in L}
        = {<< >>, fs1, fs1 \o fs2, fs1 \o (fs2 \o fs3)}
  BY <1>2
<1>6. Spells(e, l, L)
  BY <1>4
<1> HIDE DEF L, e, l
<1>7. Spells(e1 \o e, fs1 \o l, {<< >>} \cup {fs1 \o x : x \in L})
  BY <1>6, TextWith
<1> QED BY <1>5, <1>7 DEF e, l

-----------------------------------------------------------------------------
(* FoldLeft(), which the loop of a parse is: it takes the indices of a     *)
(* sequence from the last one down.                                        *)

\* The largest of some indices is one of them.
LEMMA MaxIs ==
  ASSUME NEW n \in Nat, NEW s \in SUBSET (1..n), s # {}
  PROVE  Max(s) \in s
<1> DEFINE T == {n - x : x \in s}
<1>1. T \in SUBSET Nat /\ T # {}
  <2>1. \A x \in s : n - x \in Nat
    OBVIOUS
  <2> QED BY <2>1
<1> HIDE DEF T
<1>2. PICK k \in T : \A l \in T : k <= l
  BY <1>1, Least
<1>3. PICK x \in s : k = n - x
  BY <1>2 DEF T
<1>4. ASSUME NEW y \in s PROVE x >= y
  <2>1. n - y \in T
    BY DEF T
  <2>2. n - x <= n - y
    BY <1>2, <1>3, <2>1
  <2> QED BY <2>2
<1>5. \E z \in s : \A y \in s : z >= y
  BY <1>4
<1> QED BY <1>5 DEF Max

\* v is what the steps G make of c, one for each field of l.
Runs(G, c, l, v) ==
  \E f : /\ \A s \in SUBSET (1..Len(l)) :
              f[s] = IF s = {} THEN c ELSE G[<<f[s \ {Max(s)}], l[Max(s)]>>]
         /\ v = f[1..Len(l)]

\* There is such a fold, over the subsets of the indices,
Folds(V, G, c, l) ==
  \E f \in [SUBSET (1..Len(l)) -> V] :
    \A s \in SUBSET (1..Len(l)) :
      f[s] = IF s = {} THEN c ELSE G[<<f[s \ {Max(s)}], l[Max(s)]>>]

\* Sets of indices are finite.
LEMMA IndicesAreFinite ==
  ASSUME NEW n \in Nat, NEW s \in SUBSET (1..n)
  PROVE  IsFiniteSet(s) /\ Cardinality(s) \in Nat
<1>1. IsFiniteSet(1..n)
  BY FS_Interval
<1>2. IsFiniteSet(s)
  BY <1>1, FS_Subset
<1> QED BY <1>2, FS_CardinalityType

\* Without its largest index a set is smaller.
LEMMA FewerIndices ==
  ASSUME NEW n \in Nat, NEW s \in SUBSET (1..n), s # {}
  PROVE  /\ Max(s) \in 1..n /\ s \ {Max(s)} \in SUBSET (1..n)
         /\ Cardinality(s) \in Nat /\ Cardinality(s \ {Max(s)}) \in Nat
         /\ Cardinality(s \ {Max(s)}) < Cardinality(s)
<1>1. IsFiniteSet(s)
  BY IndicesAreFinite
<1>2. Max(s) \in s
  BY MaxIs
<1>3. /\ Cardinality(s) \in Nat
      /\ Cardinality(s \ {Max(s)}) = Cardinality(s) - 1
      /\ Cardinality(s \ {Max(s)}) \in Nat
  BY <1>1, <1>2, FS_CardinalityType, FS_RemoveElement
<1> DEFINE c == Cardinality(s)
<1> HIDE DEF c
<1>4. c \in Nat /\ Cardinality(s \ {Max(s)}) = c - 1
  BY <1>3 DEF c
<1>5. c - 1 < c
  BY <1>4
<1>6. Cardinality(s \ {Max(s)}) < Cardinality(s)
  BY <1>4, <1>5 DEF c
<1> QED BY <1>2, <1>3, <1>6

\* A fold over indices exists.
LEMMA FoldIsDefined ==
  ASSUME NEW V, NEW E, NEW G \in [V \X E -> V], NEW c \in V, NEW l \in Seq(E)
  PROVE  Folds(V, G, c, l)
<1> DEFINE n == Len(l)
           S == SUBSET (1..n)
           Body(f, s) == IF s = {} THEN c
                         ELSE G[<<f[s \ {Max(s)}], l[Max(s)]>>]
           r == [s \in S |-> Cardinality(s)]
           B == [fs \in [S -> V] \X S |-> Body(fs[1], fs[2])]
<1>1. n \in Nat /\ \A i \in 1..n : l[i] \in E
  OBVIOUS
<1>2. \A s \in S : Cardinality(s) \in Nat
  BY <1>1, IndicesAreFinite
<1>3. \A f \in [S -> V], s \in S : B[<<f, s>>] = Body(f, s)
  OBVIOUS
<1>4. ASSUME NEW f \in [S -> V], NEW s \in S PROVE Body(f, s) \in V
  <2>1. CASE s = {}
    BY <2>1
  <2>2. CASE s # {}
    <3>1. f[s \ {Max(s)}] \in V /\ l[Max(s)] \in E
      <4>1. s \ {Max(s)} \in S /\ Max(s) \in 1..n
        BY <1>1, <2>2, FewerIndices
      <4> HIDE DEF S
      <4> QED BY <1>1, <4>1
    <3> DEFINE v == f[s \ {Max(s)}]
               e == l[Max(s)]
    <3> HIDE DEF v, e
    <3>2. G[<<v, e>>] \in V
      BY <3>1 DEF v, e
    <3> QED BY <2>2, <3>2 DEF v, e
  <2> QED BY <2>1, <2>2
<1>5. ASSUME NEW f \in [S -> V], NEW h \in [S -> V], NEW s \in S,
             \A t \in S : Cardinality(t) < Cardinality(s) => f[t] = h[t]
      PROVE  Body(f, s) = Body(h, s)
  <2>1. CASE s = {}
    BY <2>1
  <2>2. CASE s # {}
    <3>1. f[s \ {Max(s)}] = h[s \ {Max(s)}]
      <4>1. /\ s \ {Max(s)} \in S
            /\ Cardinality(s \ {Max(s)}) < Cardinality(s)
        BY <1>1, <2>2, FewerIndices
      <4> QED BY <1>5, <4>1
    <3> QED BY <2>2, <3>1
  <2> QED BY <2>1, <2>2
<1>6. \A s \in S : r[s] = Cardinality(s)
  OBVIOUS
<1>7. r \in [S -> Nat]
  BY <1>2
<1> HIDE DEF Body, B, S, r
<1>8. LooksDown(S, V, r, B)
  <2>1. \A f \in [S -> V], s \in S : B[<<f, s>>] \in V
    BY <1>3, <1>4
  <2>2. \A f, h \in [S -> V] : \A s \in S :
          (\A t \in S : r[t] < r[s] => f[t] = h[t])
            => B[<<f, s>>] = B[<<h, s>>]
    <3> TAKE f, h \in [S -> V]
    <3> TAKE s \in S
    <3> HAVE \A t \in S : r[t] < r[s] => f[t] = h[t]
    <3>1. \A t \in S : Cardinality(t) < Cardinality(s) => f[t] = h[t]
      BY <1>6
    <3>2. Body(f, s) = Body(h, s)
      BY <1>5, <3>1
    <3> QED BY <1>3, <3>2
  <2> QED BY <1>7, <2>1, <2>2 DEF LooksDown
<1>9. Defines(S, V, B)
  BY <1>8, RecursionDefines
<1>10. PICK f \in [S -> V] : \A s \in S : f[s] = B[<<f, s>>]
  BY <1>9 DEF Defines
<1>11. \A s \in S : f[s] = Body(f, s)
  BY <1>3, <1>10
<1> QED BY <1>10, <1>11 DEF Folds, S, Body

\* ... and only one.
LEMMA FoldsAgree ==
  ASSUME NEW n \in Nat, NEW f, NEW h, f[{}] = h[{}],
         \A s \in SUBSET (1..n) :
           s # {} /\ f[s \ {Max(s)}] = h[s \ {Max(s)}] => f[s] = h[s]
  PROVE  f[1..n] = h[1..n]
<1> DEFINE S == SUBSET (1..n)
           T == {Cardinality(s) : s \in {t \in S : f[t] # h[t]}}
<1>1. \A s \in S : Cardinality(s) \in Nat
  BY IndicesAreFinite
<1>2. CASE T = {}
  BY <1>2
<1>3. CASE T # {}
  <2>1. T \in SUBSET Nat
    BY <1>1
  <2> HIDE DEF T
  <2>2. PICK k \in T : \A j \in T : k <= j
    BY <1>3, <2>1, Least
  <2>3. PICK s \in S : f[s] # h[s] /\ Cardinality(s) = k
    BY <2>2 DEF T
  <2>4. s # {}
    BY <2>3
  <2> DEFINE t == s \ {Max(s)}
  <2>5. /\ t \in S /\ Cardinality(s) \in Nat /\ Cardinality(t) \in Nat
        /\ Cardinality(t) < Cardinality(s)
    BY <2>4, FewerIndices
  <2>6. Cardinality(t) \notin T
    <3> HIDE DEF t, S
    <3> QED BY <2>2, <2>3, <2>5
  <2>7. f[t] = h[t]
    <3> HIDE DEF t
    <3> QED BY <2>5, <2>6 DEF T
  <2> QED BY <2>3, <2>4, <2>7
<1> QED BY <1>2, <1>3

\* The largest of up to three indices.
LEMMA MaxOfFew ==
  /\ Max({1}) = 1 /\ Max({1, 2}) = 2 /\ Max({1, 2, 3}) = 3
<1>1. /\ Max({1}) \in {1} /\ Max({1, 2}) \in {1, 2}
      /\ Max({1, 2, 3}) \in {1, 2, 3}
      /\ \A x \in {1, 2} : Max({1, 2}) >= x
      /\ \A x \in {1, 2, 3} : Max({1, 2, 3}) >= x
  BY DEF Max
<1> QED BY <1>1

\* One step.
Step(G, done, f) == G[<<done, f>>]

\* A run over up to three fields, step by step.
LEMMA RunOverFew ==
  ASSUME NEW G, NEW c, NEW l \in Seq(FieldSet), NEW p, Runs(G, c, l, p)
  PROVE  /\ Len(l) = 0 => p = c
         /\ Len(l) = 1 => p = Step(G, c, l[1])
         /\ Len(l) = 2 => p = Step(G, Step(G, c, l[1]), l[2])
         /\ Len(l) = 3 => p = Step(G, Step(G, Step(G, c, l[1]), l[2]), l[3])
<1> DEFINE n == Len(l)
<1>1. PICK f : /\ \A s \in SUBSET (1..n) :
                    f[s] = IF s = {} THEN c
                           ELSE G[<<f[s \ {Max(s)}], l[Max(s)]>>]
               /\ p = f[1..n]
  BY DEF Runs
<1>2. n \in Nat
  OBVIOUS
<1> HIDE DEF n
<1>3. f[{}] = c
  BY <1>1
<1>4. n >= 1 => f[{1}] = Step(G, c, l[1])
  <2>1. {1} \ {1} = {} /\ {1} # {}
    OBVIOUS
  <2>2. n >= 1 => {1} \in SUBSET (1..n)
    BY <1>2
  <2> QED BY <1>1, <1>3, <2>1, <2>2, MaxOfFew DEF Step
<1>5. n >= 2 => f[{1, 2}] = Step(G, f[{1}], l[2])
  <2>1. {1, 2} \ {2} = {1} /\ {1, 2} # {}
    OBVIOUS
  <2>2. n >= 2 => {1, 2} \in SUBSET (1..n)
    BY <1>2
  <2> QED BY <1>1, <2>1, <2>2, MaxOfFew DEF Step
<1>6. n >= 3 => f[{1, 2, 3}] = Step(G, f[{1, 2}], l[3])
  <2>1. {1, 2, 3} \ {3} = {1, 2} /\ {1, 2, 3} # {}
    OBVIOUS
  <2>2. n >= 3 => {1, 2, 3} \in SUBSET (1..n)
    BY <1>2
  <2> QED BY <1>1, <2>1, <2>2, MaxOfFew DEF Step
<1>7. /\ n = 0 => 1..n = {}
      /\ n = 1 => 1..n = {1} /\ n >= 1
      /\ n = 2 => 1..n = {1, 2} /\ n >= 1 /\ n >= 2
      /\ n = 3 => 1..n = {1, 2, 3} /\ n >= 1 /\ n >= 2 /\ n >= 3
  <2>1. 1..0 = {} /\ 1..1 = {1} /\ 1..2 = {1, 2} /\ 1..3 = {1, 2, 3}
    OBVIOUS
  <2> QED BY <1>2, <2>1
<1> QED BY <1>1, <1>3, <1>4, <1>5, <1>6, <1>7, Zenon DEF n

\* What a field is: nothing or one.
Optional == {<< >>} \cup {<<f>> : f \in FieldSet}

\* The lists of up to three fields.
LEMMA ListsAre ==
  ASSUME NEW a, NEW b, NEW c
  PROVE  /\ << >> \o << >> = << >>
         /\ <<a>> \o << >> = <<a>> /\ << >> \o <<a>> = <<a>>
         /\ <<a>> \o <<b>> = <<a, b>>
         /\ <<a, b>> \o << >> = <<a, b>> /\ << >> \o <<a, b>> = <<a, b>>
         /\ <<a>> \o <<b, c>> = <<a, b, c>>
<1> DEFINE S == {a, b, c}
<1>1. << >> \in Seq(S) /\ <<a>> \in Seq(S) /\ <<b>> \in Seq(S)
      /\ <<a, b>> \in Seq(S) /\ <<b, c>> \in Seq(S) /\ <<a, b, c>> \in Seq(S)
  OBVIOUS
<1>2. \A q \in Seq(S) : q \o << >> = q /\ << >> \o q = q
  BY ConcatEmptySeq
<1> HIDE DEF S
<1>3. <<a>> \o <<b>> = <<a, b>>
  <2> DEFINE p == <<a>>
             q == <<b>>
             t == <<a, b>>
  <2>1. /\ Len(p) = 1 /\ Len(q) = 1 /\ Len(t) = 2
        /\ p[1] = a /\ q[1] = b /\ t[1] = a /\ t[2] = b
    OBVIOUS
  <2> HIDE DEF p, q, t
  <2>2. /\ p \o q \in Seq(S) /\ Len(p \o q) = 2
        /\ (p \o q)[1] = a /\ (p \o q)[2] = b
    <3>1. p \in Seq(S) /\ q \in Seq(S)
      BY <1>1 DEF p, q
    <3>2. 1 \in 1..1 /\ 1 + 1 = 2
      OBVIOUS
    <3> QED BY <2>1, <3>1, <3>2, Joined
  <2>3. \A i \in 1..2 : (p \o q)[i] = t[i]
    BY <2>1, <2>2
  <2>4. p \o q = t
    BY <1>1, <2>1, <2>2, <2>3, SeqEqual DEF t
  <2> QED BY <2>4 DEF p, q, t
<1>4. <<a>> \o <<b, c>> = <<a, b, c>>
  <2> DEFINE p == <<a>>
             q == <<b, c>>
             t == <<a, b, c>>
  <2>1. /\ Len(p) = 1 /\ Len(q) = 2 /\ Len(t) = 3
        /\ p[1] = a /\ q[1] = b /\ q[2] = c
        /\ t[1] = a /\ t[2] = b /\ t[3] = c
    OBVIOUS
  <2> HIDE DEF p, q, t
  <2>2. /\ p \o q \in Seq(S) /\ Len(p \o q) = 3
        /\ (p \o q)[1] = a /\ (p \o q)[2] = b /\ (p \o q)[3] = c
    <3>1. p \in Seq(S) /\ q \in Seq(S)
      BY <1>1 DEF p, q
    <3>2. 1 \in 1..1 /\ 1 \in 1..2 /\ 2 \in 1..2 /\ 1 + 1 = 2 /\ 1 + 2 = 3
      OBVIOUS
    <3>3. /\ p \o q \in Seq(S) /\ Len(p \o q) = 1 + 2
          /\ \A i \in 1..1 : (p \o q)[i] = p[i]
          /\ \A i \in 1..2 : (p \o q)[1 + i] = q[i]
      <4>1. /\ p \o q \in Seq(S) /\ Len(p \o q) = Len(p) + Len(q)
            /\ \A i \in 1..Len(p) : (p \o q)[i] = p[i]
            /\ \A i \in 1..Len(q) : (p \o q)[Len(p) + i] = q[i]
        BY <3>1, Joined
      <4> QED BY <2>1, <4>1, Zenon
    <3> QED BY <2>1, <3>2, <3>3
  <2>3. \A i \in 1..3 : (p \o q)[i] = t[i]
    BY <2>1, <2>2
  <2>4. p \o q = t
    BY <1>1, <2>1, <2>2, <2>3, SeqEqual DEF t
  <2> QED BY <2>4 DEF p, q, t
<1> QED BY <1>1, <1>2, <1>3, <1>4

\* Lists of three optional fields.
LEMMA OptionalLists ==
  ASSUME NEW x, NEW y, NEW z
  PROVE  /\ << >> \o (<< >> \o << >>) = << >>
         /\ << >> \o (<< >> \o <<z>>) = <<z>>
         /\ << >> \o (<<y>> \o << >>) = <<y>>
         /\ << >> \o (<<y>> \o <<z>>) = <<y, z>>
         /\ <<x>> \o (<< >> \o << >>) = <<x>>
         /\ <<x>> \o (<< >> \o <<z>>) = <<x, z>>
         /\ <<x>> \o (<<y>> \o << >>) = <<x, y>>
         /\ <<x>> \o (<<y>> \o <<z>>) = <<x, y, z>>
<1>1. << >> \o << >> = << >>
  BY ListsAre
<1>2. \A a : << >> \o <<a>> = <<a>> /\ <<a>> \o << >> = <<a>>
  BY ListsAre
<1>3. \A a, b : <<a>> \o <<b>> = <<a, b>> /\ << >> \o <<a, b>> = <<a, b>>
  BY ListsAre
<1>4. <<x>> \o <<y, z>> = <<x, y, z>>
  BY ListsAre
<1> QED BY <1>1, <1>2, <1>3, <1>4, Zenon

\* What one optional field makes of what is done.
After(G, done, fs) == IF fs = << >> THEN done ELSE Step(G, done, fs[1])

\* A run over three optional fields.
LEMMA RunOverFields ==
  ASSUME NEW G, NEW c, NEW p,
         NEW f1 \in Optional, NEW f2 \in Optional, NEW f3 \in Optional,
         Runs(G, c, f1 \o (f2 \o f3), p)
  PROVE  p = After(G, After(G, After(G, c, f1), f2), f3)
<1> DEFINE One(d, e) == Step(G, d, e)
           l == f1 \o (f2 \o f3)
<1>1. f1 \in Seq(FieldSet) /\ f2 \in Seq(FieldSet) /\ f3 \in Seq(FieldSet)
  <2>1. << >> \in Seq(FieldSet) /\ \A f \in FieldSet : <<f>> \in Seq(FieldSet)
    BY EmptyBytes
  <2> QED BY <2>1 DEF Optional
<1>2. l \in Seq(FieldSet) /\ Runs(G, c, l, p)
  BY <1>1, Joined
<1> HIDE DEF l
<1>3. /\ Len(l) = 0 => p = c
      /\ Len(l) = 1 => p = Step(G, c, l[1])
      /\ Len(l) = 2 => p = Step(G, Step(G, c, l[1]), l[2])
      /\ Len(l) = 3 => p = Step(G, Step(G, Step(G, c, l[1]), l[2]), l[3])
  BY <1>2, RunOverFew
<1>4. /\ l = << >> => p = c
      /\ \A x : l = <<x>> => p = One(c, x)
      /\ \A x, y : l = <<x, y>> => p = One(One(c, x), y)
      /\ \A x, y, z : l = <<x, y, z>> =>
            p = One(One(One(c, x), y), z)
  <2>1. Len(<< >>) = 0
    OBVIOUS
  <2>2. \A x : Len(<<x>>) = 1 /\ <<x>>[1] = x
    OBVIOUS
  <2>3. \A x, y : Len(<<x, y>>) = 2 /\ <<x, y>>[1] = x /\ <<x, y>>[2] = y
    OBVIOUS
  <2>4. \A x, y, z : /\ Len(<<x, y, z>>) = 3 /\ <<x, y, z>>[1] = x
                     /\ <<x, y, z>>[2] = y /\ <<x, y, z>>[3] = z
    OBVIOUS
  <2> QED BY <1>3, <2>1, <2>2, <2>3, <2>4
<1> DEFINE Then(d, fs) == After(G, d, fs)
<1>5. \A d, x : Then(d, <<x>>) = One(d, x) /\ Then(d, << >>) = d
  BY DEF After
<1> HIDE DEF Then
<1>6. ASSUME NEW x, NEW y, NEW z, f1 \in {<< >>, <<x>>},
             f2 \in {<< >>, <<y>>}, f3 \in {<< >>, <<z>>}
      PROVE  p = Then(Then(Then(c, f1), f2), f3)
  <2>1. /\ << >> \o (<< >> \o << >>) = << >>
        /\ << >> \o (<< >> \o <<z>>) = <<z>>
        /\ << >> \o (<<y>> \o << >>) = <<y>>
        /\ << >> \o (<<y>> \o <<z>>) = <<y, z>>
        /\ <<x>> \o (<< >> \o << >>) = <<x>>
        /\ <<x>> \o (<< >> \o <<z>>) = <<x, z>>
        /\ <<x>> \o (<<y>> \o << >>) = <<x, y>>
        /\ <<x>> \o (<<y>> \o <<z>>) = <<x, y, z>>
    BY OptionalLists
  <2>2. CASE f1 = << >> /\ f2 = << >>
    <3>1. CASE f3 = << >>
      <4>1. l = << >>
        BY <2>1, <2>2, <3>1 DEF l
      <4>2. Then(Then(Then(c, << >>), << >>), << >>)
              = c
        BY <1>5
      <4>3. p = c
        BY <1>4, <4>1
      <4> QED BY <2>2, <3>1, <4>2, <4>3
    <3>2. CASE f3 = <<z>>
      <4>1. l = <<z>>
        BY <2>1, <2>2, <3>2 DEF l
      <4>2. Then(Then(Then(c, << >>), << >>), <<z>>)
              = One(c, z)
        BY <1>5
      <4>3. p = One(c, z)
        BY <1>4, <4>1
      <4> QED BY <2>2, <3>2, <4>2, <4>3
    <3> QED BY <1>6, <3>1, <3>2
  <2>3. CASE f1 = << >> /\ f2 = <<y>>
    <3>1. CASE f3 = << >>
      <4>1. l = <<y>>
        BY <2>1, <2>3, <3>1 DEF l
      <4>2. Then(Then(Then(c, << >>), <<y>>), << >>)
              = One(c, y)
        BY <1>5
      <4>3. p = One(c, y)
        BY <1>4, <4>1
      <4> QED BY <2>3, <3>1, <4>2, <4>3
    <3>2. CASE f3 = <<z>>
      <4>1. l = <<y, z>>
        BY <2>1, <2>3, <3>2 DEF l
      <4>2. Then(Then(Then(c, << >>), <<y>>), <<z>>)
              = One(One(c, y), z)
        BY <1>5
      <4>3. p = One(One(c, y), z)
        BY <1>4, <4>1
      <4> QED BY <2>3, <3>2, <4>2, <4>3
    <3> QED BY <1>6, <3>1, <3>2
  <2>4. CASE f1 = <<x>> /\ f2 = << >>
    <3>1. CASE f3 = << >>
      <4>1. l = <<x>>
        BY <2>1, <2>4, <3>1 DEF l
      <4>2. Then(Then(Then(c, <<x>>), << >>), << >>)
              = One(c, x)
        BY <1>5
      <4>3. p = One(c, x)
        BY <1>4, <4>1
      <4> QED BY <2>4, <3>1, <4>2, <4>3
    <3>2. CASE f3 = <<z>>
      <4>1. l = <<x, z>>
        BY <2>1, <2>4, <3>2 DEF l
      <4>2. Then(Then(Then(c, <<x>>), << >>), <<z>>)
              = One(One(c, x), z)
        BY <1>5
      <4>3. p = One(One(c, x), z)
        BY <1>4, <4>1
      <4> QED BY <2>4, <3>2, <4>2, <4>3
    <3> QED BY <1>6, <3>1, <3>2
  <2>5. CASE f1 = <<x>> /\ f2 = <<y>>
    <3>1. CASE f3 = << >>
      <4>1. l = <<x, y>>
        BY <2>1, <2>5, <3>1 DEF l
      <4>2. Then(Then(Then(c, <<x>>), <<y>>), << >>)
              = One(One(c, x), y)
        BY <1>5
      <4>3. p = One(One(c, x), y)
        BY <1>4, <4>1
      <4> QED BY <2>5, <3>1, <4>2, <4>3
    <3>2. CASE f3 = <<z>>
      <4>1. l = <<x, y, z>>
        BY <2>1, <2>5, <3>2 DEF l
      <4>2. Then(Then(Then(c, <<x>>), <<y>>), <<z>>)
              = One(One(One(c, x), y), z)
        BY <1>5
      <4>3. p = One(One(One(c, x), y), z)
        BY <1>4, <4>1
      <4> QED BY <2>5, <3>2, <4>2, <4>3
    <3> QED BY <1>6, <3>1, <3>2
  <2> QED BY <1>6, <2>2, <2>3, <2>4, <2>5
<1>7. p = Then(Then(Then(c, f1), f2), f3)
  <2>1. \A fs \in Optional : \E x : fs \in {<< >>, <<x>>}
    BY DEF Optional
  <2>2. PICK x, y, z : /\ f1 \in {<< >>, <<x>>} /\ f2 \in {<< >>, <<y>>}
                       /\ f3 \in {<< >>, <<z>>}
    BY <2>1
  <2> QED BY <1>6, <2>2
<1> QED BY <1>7 DEF Then

-----------------------------------------------------------------------------
(* The fields of a message.                                                *)

\* What is read of a field: nothing, if it has its default value.
FieldOf(tag, value, raw, default) ==
  IF value = default THEN << >>
  ELSE <<[tag |-> tag, value |-> value, raw |-> raw]>>

\* No field at all.
LEMMA NoPiece == Piece(<< >>, << >>) /\ << >> \in Optional
BY DEF Piece, Optional

\* A field is bytes, and reads as one field or none.
LEMMA PieceIs ==
  ASSUME NEW e, NEW fs, Piece(e, fs)
  PROVE  e \in Bytes /\ fs \in Optional
<1>1. << >> \in Bytes /\ << >> \in Optional
  BY EmptyBytes DEF Bytes, Optional
<1>2. ASSUME NEW f, fs = <<f>>, Encodes(e, f)
      PROVE  e \in Bytes /\ fs \in Optional
  BY <1>2 DEF Encodes, Optional
<1> QED BY <1>1, <1>2 DEF Piece

\* A string is written as a field, or not at all if it is empty.
LEMMA BytesPiece ==
  ASSUME NEW tag \in Tags, tag % 8 = 2, NEW value \in Bytes
  PROVE  Piece(BytesField(tag, value),
               FieldOf(tag, value, BytesField(tag, value), << >>))
<1> DEFINE e == BytesField(tag, value)
           f == [tag |-> tag, value |-> value, raw |-> e]
<1>1. CASE value = << >>
  BY <1>1 DEF BytesField, FieldOf, Piece
<1>2. CASE value # << >>
  <2>1. Encodes(e, f)
    BY <1>2, BytesEncoded
  <2>2. FieldOf(tag, value, e, << >>) = <<f>>
    BY <1>2 DEF FieldOf
  <2> HIDE DEF e, f
  <2>3. Piece(e, <<f>>)
    BY <2>1 DEF Piece
  <2> QED BY <2>2, <2>3 DEF e
<1> QED BY <1>1, <1>2

\* A number is written as a field, or not at all if it is zero.
LEMMA VarintPiece ==
  ASSUME NEW tag \in Tags, tag % 8 = 0, NEW n \in Nat
  PROVE  Piece(VarintField(tag, n), FieldOf(tag, n, VarintField(tag, n), 0))
<1> DEFINE e == VarintField(tag, n)
           f == [tag |-> tag, value |-> n, raw |-> e]
<1>1. CASE n = 0
  BY <1>1 DEF VarintField, FieldOf, Piece
<1>2. CASE n # 0
  <2>1. Encodes(e, f)
    BY <1>2, VarintEncoded
  <2>2. FieldOf(tag, n, e, 0) = <<f>>
    BY <1>2 DEF FieldOf
  <2> HIDE DEF e, f
  <2>3. Piece(e, <<f>>)
    BY <2>1 DEF Piece
  <2> QED BY <2>2, <2>3 DEF e
<1> QED BY <1>1, <1>2

\* What is read of a message that was cut, if it is read at all: its fields
\* but for some that are missing.
PartOf(read, f1, f2, f3) ==
  \/ read = Failure
  \/ \E g1 \in {<< >>, f1}, g2 \in {<< >>, f2}, g3 \in {<< >>, f3} :
       read = <<g1 \o (g2 \o g3)>>

ReadsAs(e, f1, f2, f3) ==
  /\ e \in Bytes /\ Fields[e] = <<f1 \o (f2 \o f3)>>
  /\ \A k \in 0..Len(e) : PartOf(Fields[SubSeq(e, 1, k)], f1, f2, f3)

\* A message is read as it was written; cut short, it cannot be parsed or
\* fields are missing.
THEOREM MessageIsRead ==
  ASSUME NEW e1, NEW f1, Piece(e1, f1), NEW e2, NEW f2, Piece(e2, f2),
         NEW e3, NEW f3, Piece(e3, f3)
  PROVE  ReadsAs(e1 \o (e2 \o e3), f1, f2, f3)
<1> DEFINE e == e1 \o (e2 \o e3)
           l == f1 \o (f2 \o f3)
<1>1. Spells(e, l, {<< >>, f1, f1 \o f2, l})
  BY MessageText
<1> HIDE DEF e
<1>2. e \in Bytes /\ Fields[e] = <<l>>
  BY <1>1 DEF Spells
<1>3. ASSUME NEW k \in 0..Len(e), Fields[SubSeq(e, 1, k)] # Failure
      PROVE  \E g1 \in {<< >>, f1}, g2 \in {<< >>, f2}, g3 \in {<< >>, f3} :
               Fields[SubSeq(e, 1, k)] = <<g1 \o (g2 \o g3)>>
  <2>1. PICK x \in {<< >>, f1, f1 \o f2, l} : Fields[SubSeq(e, 1, k)] = <<x>>
    BY <1>1, <1>3 DEF Spells
  <2>2. f1 \in Seq(FieldSet) /\ f2 \in Seq(FieldSet) /\ << >> \in Seq(FieldSet)
    <3>1. << >> \in Seq(FieldSet) /\ \A f \in FieldSet : <<f>> \in Seq(FieldSet)
      BY EmptyBytes
    <3>2. f1 \in Optional /\ f2 \in Optional
      BY PieceIs
    <3> QED BY <3>1, <3>2 DEF Optional
  <2>3. /\ << >> \o << >> = << >> /\ f1 \o << >> = f1 /\ f2 \o << >> = f2
    BY <2>2, ConcatEmptySeq
  <2>4. \/ x = << >> \o (<< >> \o << >>) \/ x = f1 \o (<< >> \o << >>)
        \/ x = f1 \o (f2 \o << >>) \/ x = f1 \o (f2 \o f3)
    BY <2>1, <2>3
  <2> QED BY <2>1, <2>4
<1>4. \A k \in 0..Len(e) : PartOf(Fields[SubSeq(e, 1, k)], f1, f2, f3)
  BY <1>3 DEF PartOf
<1> QED BY <1>2, <1>4 DEF e, ReadsAs

-----------------------------------------------------------------------------
(* What a run over fields leads to.                                        *)
\* From c the steps G, one for each field of l, lead to d.
Moves(G, c, l, d) == \A v : Runs(G, c, l, v) => v = d

\* The largest of some indices is the one Max() gives.
LEMMA MaxIsIt ==
  ASSUME NEW n \in Nat, NEW s \in SUBSET (1..n), NEW a \in s, \A y \in s : a >= y
  PROVE  Max(s) = a
<1>1. \E x \in s : \A y \in s : x >= y
  OBVIOUS
<1> DEFINE b == Max(s)
<1>2. b \in s /\ \A y \in s : b >= y
  BY <1>1, Zenon DEF Max
<1> HIDE DEF b
<1>3. b \in s /\ b >= a /\ a >= b /\ a \in Nat /\ b \in Nat
  BY <1>2
<1>4. b = a
  BY <1>3
<1> QED BY <1>4 DEF b

\* Over no fields nothing changes.
LEMMA MovesNone ==
  ASSUME NEW G, NEW c
  PROVE  Moves(G, c, << >>, c)
<1> SUFFICES ASSUME NEW v, Runs(G, c, << >>, v) PROVE v = c
  BY DEF Moves
<1> DEFINE z == << >>
<1>1. 1..Len(z) = {}
  OBVIOUS
<1> HIDE DEF z
<1>2. PICK f : /\ \A s \in SUBSET (1..Len(z)) :
                    f[s] = IF s = {} THEN c ELSE G[<<f[s \ {Max(s)}], z[Max(s)]>>]
               /\ v = f[1..Len(z)]
  BY DEF Runs, z
<1> QED BY <1>1, <1>2

\* Over one field one step is taken.
LEMMA MovesOne ==
  ASSUME NEW G, NEW c, NEW x
  PROVE  Moves(G, c, <<x>>, G[<<c, x>>])
<1> SUFFICES ASSUME NEW v, Runs(G, c, <<x>>, v) PROVE v = G[<<c, x>>]
  BY DEF Moves
<1> DEFINE z == <<x>>
<1>1. 1..Len(z) = {1} /\ z[1] = x
  OBVIOUS
<1> HIDE DEF z
<1>2. PICK f : /\ \A s \in SUBSET (1..Len(z)) :
                    f[s] = IF s = {} THEN c ELSE G[<<f[s \ {Max(s)}], z[Max(s)]>>]
               /\ v = f[1..Len(z)]
  BY DEF Runs, z
<1>3. {1} \ {1} = {} /\ {1} # {} /\ {} \in SUBSET {1} /\ {1} \in SUBSET {1}
  OBVIOUS
<1>4. f[{}] = c
  BY <1>1, <1>2, <1>3
<1>5. f[{1}] = G[<<f[{}], z[1]>>]
  BY <1>1, <1>2, <1>3, MaxOfFew
<1> QED BY <1>1, <1>2, <1>4, <1>5

\* One run after the other.
LEMMA MovesOn ==
  ASSUME NEW G, NEW E, NEW k \in Seq(E), NEW l \in Seq(E), NEW c, NEW d, NEW e,
         Moves(G, c, k, d), Moves(G, d, l, e)
  PROVE  Moves(G, c, k \o l, e)
<1> SUFFICES ASSUME NEW v, Runs(G, c, k \o l, v) PROVE v = e
  BY DEF Moves
<1> DEFINE n == Len(k)
           m == Len(l)
           q == k \o l
           N == 1..(n + m)
<1>1. /\ n \in Nat /\ m \in Nat /\ Len(q) = n + m
      /\ \A i \in 1..n : q[i] = k[i]
      /\ \A i \in 1..m : q[n + i] = l[i]
  BY Joined
<1> HIDE DEF n, m, q
<1>2. PICK f : /\ \A s \in SUBSET N :
                    f[s] = IF s = {} THEN c ELSE G[<<f[s \ {Max(s)}], q[Max(s)]>>]
               /\ v = f[N]
  BY <1>1 DEF Runs, q
<1>3. f[1..n] = d
  <2>1. ASSUME NEW s \in SUBSET (1..n)
        PROVE  f[s] = IF s = {} THEN c ELSE G[<<f[s \ {Max(s)}], k[Max(s)]>>]
    <3>1. s \in SUBSET N
      BY <1>1
    <3>2. s # {} => Max(s) \in 1..n
      BY <1>1, FewerIndices
    <3>3. s # {} => q[Max(s)] = k[Max(s)]
      BY <1>1, <3>2
    <3> QED BY <1>2, <3>1, <3>3
  <2>2. Runs(G, c, k, f[1..n])
    BY <2>1 DEF Runs, n
  <2> QED BY <2>2 DEF Moves
<1> DEFINE Up(s) == (1..n) \cup {n + i : i \in s}
           h == [s \in SUBSET (1..m) |-> f[Up(s)]]
<1>4. ASSUME NEW s \in SUBSET (1..m), s # {}
      PROVE  /\ Up(s) \in SUBSET N /\ Up(s) # {} /\ Max(s) \in 1..m
             /\ Max(Up(s)) = n + Max(s)
             /\ Up(s) \ {n + Max(s)} = Up(s \ {Max(s)})
             /\ s \ {Max(s)} \in SUBSET (1..m)
  <2> DEFINE x == Max(s)
  <2>1. x \in s /\ \A y \in s : x >= y
    <3>1. Max(s) \in s
      BY <1>1, <1>4, MaxIs
    <3>2. \A y \in s : y \in 1..m
      OBVIOUS
    <3>3. \E z \in s : \A y \in s : z >= y
      <4> DEFINE T == {m - y : y \in s}
      <4>1. T \in SUBSET Nat /\ T # {}
        <5>1. \A y \in s : m - y \in Nat
          BY <1>1
        <5>2. PICK y \in s : TRUE
          BY <1>4
        <5> QED BY <5>1, <5>2
      <4> HIDE DEF T
      <4>2. PICK a \in T : \A b \in T : a <= b
        BY <4>1, Least
      <4>3. PICK z \in s : a = m - z
        BY <4>2 DEF T
      <4>4. ASSUME NEW y \in s PROVE z >= y
        <5>1. m - y \in T
          BY DEF T
        <5>2. m - z <= m - y
          BY <4>2, <4>3, <5>1
        <5> QED BY <1>1, <5>2
      <4> QED BY <4>4
    <3> QED BY <3>3, Zenon DEF Max
  <2> HIDE DEF x
  <2>2. x \in 1..m /\ n + x \in N
    BY <1>1, <2>1
  <2>3. Up(s) \in SUBSET N
    BY <1>1
  <2>4. n + x \in Up(s)
    BY <2>1
  <2>5. \A y \in Up(s) : n + x >= y
    BY <1>1, <2>1, <2>2
  <2>6. n + m \in Nat
    BY <1>1
  <2>7. Max(Up(s)) = n + x
    <3> HIDE DEF Up
    <3> QED BY <2>3, <2>4, <2>5, <2>6, MaxIsIt
  <2>8. Up(s) \ {n + x} = Up(s \ {x})
    <3>1. \A y \in 1..n : y # n + x
      BY <1>1, <2>2
    <3>2. \A i \in s : n + i = n + x <=> i = x
      BY <1>1, <2>2
    <3> HIDE DEF N
    <3> QED BY <3>1, <3>2, Zenon
  <2> HIDE DEF Up
  <2> QED BY <2>2, <2>3, <2>4, <2>7, <2>8 DEF x
<1>5. \A s \in SUBSET (1..m) : h[s] = f[Up(s)]
  OBVIOUS
<1>6. Up({}) = 1..n
  OBVIOUS
<1>7. Up(1..m) = N
  <2>1. \A x \in N : x \in 1..n \/ (x - n \in 1..m /\ n + (x - n) = x)
    BY <1>1
  <2>2. \A x \in 1..n : x \in N
    BY <1>1
  <2>3. \A x \in 1..m : n + x \in N
    BY <1>1
  <2> HIDE DEF N
  <2> QED BY <2>1, <2>2, <2>3
<1> HIDE DEF Up, h, N
<1>8. ASSUME NEW s \in SUBSET (1..m)
      PROVE  h[s] = IF s = {} THEN d ELSE G[<<h[s \ {Max(s)}], l[Max(s)]>>]
  <2>1. CASE s = {}
    BY <1>3, <1>5, <1>6, <2>1
  <2>2. CASE s # {}
    <3>1. f[Up(s)] = G[<<f[Up(s) \ {Max(Up(s))}], q[Max(Up(s))]>>]
      BY <1>2, <1>4, <2>2
    <3>2. q[n + Max(s)] = l[Max(s)]
      BY <1>1, <1>4, <2>2
    <3> QED BY <1>4, <1>5, <2>2, <3>1, <3>2
  <2> QED BY <2>1, <2>2
<1>9. Runs(G, d, l, h[1..m])
  BY <1>8 DEF Runs, m
<1>10. h[1..m] = f[N]
  BY <1>5, <1>7
<1> QED BY <1>2, <1>9, <1>10 DEF Moves

-----------------------------------------------------------------------------
(* Bytes that are fields, and where a parse comes to over them.            *)
\* The bytes e are the fields l, whatever fields follow.
Opens(e, l) ==
  /\ e \in Bytes /\ l \in Seq(FieldSet)
  /\ \A s \in Bytes, x \in Seq(FieldSet) :
       Fields[s] = <<x>> => Fields[e \o s] = <<l \o x>>

\* No bytes are no fields.
LEMMA OpensNone == Opens(<< >>, << >>)
<1>1. \A s \in Bytes : << >> \o s = s
  BY ConcatEmptySeq DEF Bytes
<1>2. \A x \in Seq(FieldSet) : << >> \o x = x
  BY ConcatEmptySeq
<1>3. << >> \in Bytes /\ << >> \in Seq(FieldSet)
  BY EmptyBytes DEF Bytes
<1> QED BY <1>1, <1>2, <1>3 DEF Opens

\* What is written for a field is read as it, whatever follows.
LEMMA OpensField ==
  ASSUME NEW e, NEW f, Encodes(e, f)
  PROVE  Opens(e, <<f>>)
<1>1. e \in Bytes /\ f \in FieldSet
  BY DEF Encodes
<1>2. <<f>> \in Seq(FieldSet)
  BY <1>1
<1>3. ASSUME NEW s \in Bytes, NEW x \in Seq(FieldSet), Fields[s] = <<x>>
      PROVE  Fields[e \o s] = << <<f>> \o x >>
  <2>1. <<x>> # Failure /\ <<x>>[1] = x
    BY DEF Failure
  <2>2. Fields[e \o s] = IF Fields[s] = Failure THEN Failure
                         ELSE << <<f>> \o Fields[s][1] >>
    BY FieldIsRead
  <2> QED BY <1>3, <2>1, <2>2
<1> QED BY <1>1, <1>2, <1>3 DEF Opens

\* Fields behind fields are read as both.
LEMMA OpensOn ==
  ASSUME NEW a, NEW b, NEW k, NEW l, Opens(a, k), Opens(b, l)
  PROVE  Opens(a \o b, k \o l)
<1>1. /\ a \in Seq(Byte) /\ b \in Seq(Byte)
      /\ k \in Seq(FieldSet) /\ l \in Seq(FieldSet)
  BY DEF Opens, Bytes
<1>2. a \o b \in Bytes /\ k \o l \in Seq(FieldSet)
  BY <1>1, Joined DEF Bytes
<1>3. ASSUME NEW s \in Bytes, NEW x \in Seq(FieldSet), Fields[s] = <<x>>
      PROVE  Fields[(a \o b) \o s] = <<(k \o l) \o x>>
  <2>1. b \o s \in Bytes /\ l \o x \in Seq(FieldSet)
    BY <1>1, Joined DEF Bytes
  <2>2. Fields[b \o s] = <<l \o x>>
    BY <1>3 DEF Opens
  <2>3. Fields[a \o (b \o s)] = <<k \o (l \o x)>>
    <3> DEFINE t == b \o s
               y == l \o x
    <3>1. t \in Bytes /\ y \in Seq(FieldSet) /\ Fields[t] = <<y>>
      BY <2>1, <2>2
    <3> HIDE DEF t, y
    <3>2. Fields[a \o t] = <<k \o y>>
      BY <3>1 DEF Opens
    <3> QED BY <3>2 DEF t, y
  <2>4. (a \o b) \o s = a \o (b \o s)
    BY <1>1, ConcatAssociative DEF Bytes
  <2>5. (k \o l) \o x = k \o (l \o x)
    BY <1>1, ConcatAssociative
  <2> QED BY <2>3, <2>4, <2>5
<1> QED BY <1>2, <1>3 DEF Opens

\* Fields with nothing behind them are read as they are.
LEMMA OpensRead ==
  ASSUME NEW e, NEW l, Opens(e, l)
  PROVE  Fields[e] = <<l>>
<1>1. << >> \in Bytes /\ << >> \in Seq(FieldSet)
  BY EmptyBytes DEF Bytes
<1>2. Fields[<< >>] = << << >> >>
  BY FieldsDef
<1>3. e \o << >> = e /\ l \o << >> = l
  BY ConcatEmptySeq DEF Opens, Bytes
<1> DEFINE z == << >>
           y == << >>
<1>4. /\ z \in Bytes /\ y \in Seq(FieldSet) /\ Fields[z] = <<y>> /\ e \o z = e
      /\ l \o y = l
  BY <1>1, <1>2, <1>3
<1> HIDE DEF z, y
<1>5. Fields[e \o z] = <<l \o y>>
  BY <1>4 DEF Opens
<1> QED BY <1>4, <1>5

\* Over the bytes e the steps G lead from c to d.  E are the fields G is for.
Carries(E, G, e, c, d) == \E l \in Seq(E) : Opens(e, l) /\ Moves(G, c, l, d)

\* No bytes lead nowhere.
LEMMA CarriesNone ==
  ASSUME NEW E, NEW G, NEW c
  PROVE  Carries(E, G, << >>, c, c)
<1>1. << >> \in Seq(E)
  BY EmptyBytes
<1> QED BY <1>1, OpensNone, MovesNone DEF Carries

\* The bytes of one field lead as far as one step.
LEMMA CarriesOne ==
  ASSUME NEW E, NEW G, NEW e, NEW f \in E, Encodes(e, f), NEW c,
         NEW d, d = G[<<c, f>>]
  PROVE  Carries(E, G, e, c, d)
<1>1. <<f>> \in Seq(E)
  OBVIOUS
<1>2. Opens(e, <<f>>)
  BY OpensField
<1>3. Moves(G, c, <<f>>, d)
  BY MovesOne
<1> QED BY <1>1, <1>2, <1>3 DEF Carries

\* Bytes behind bytes lead on.
LEMMA CarriesOn ==
  ASSUME NEW E, NEW G, NEW a, NEW b, NEW c, NEW d, NEW e,
         Carries(E, G, a, c, d), Carries(E, G, b, d, e)
  PROVE  Carries(E, G, a \o b, c, e)
<1>1. PICK k \in Seq(E) : Opens(a, k) /\ Moves(G, c, k, d)
  BY DEF Carries
<1>2. PICK l \in Seq(E) : Opens(b, l) /\ Moves(G, d, l, e)
  BY DEF Carries
<1>3. k \o l \in Seq(E)
  BY Joined
<1>4. Opens(a \o b, k \o l)
  BY <1>1, <1>2, OpensOn
<1>5. Moves(G, c, k \o l, e)
  BY <1>1, <1>2, MovesOn
<1> QED BY <1>3, <1>4, <1>5 DEF Carries

\* What leads somewhere is bytes.
LEMMA CarriesBytes ==
  ASSUME NEW E, NEW G, NEW e, NEW c, NEW d, Carries(E, G, e, c, d)
  PROVE  e \in Bytes
BY DEF Carries, Opens

\* The bytes of a string lead where storing it does, or nowhere if it is empty.
LEMMA BytesCarried ==
  ASSUME NEW E, NEW G, NEW tag \in Tags, tag % 8 = 2, NEW v \in Bytes,
         NEW e, e = BytesField(tag, v),
         NEW f, f = [tag |-> tag, value |-> v, raw |-> e], NEW c, NEW d,
         v = << >> => d = c, v # << >> => f \in E /\ G[<<c, f>>] = d
  PROVE  Carries(E, G, e, c, d)
<1>1. CASE v = << >>
  <2>1. e = << >>
    BY <1>1 DEF BytesField
  <2> QED BY <1>1, <2>1, CarriesNone
<1>2. CASE v # << >>
  <2>1. Encodes(e, f)
    BY <1>2, BytesEncoded
  <2> QED BY <1>2, <2>1, CarriesOne
<1> QED BY <1>1, <1>2

\* The same for a number, whose default is 0.
LEMMA VarintCarried ==
  ASSUME NEW E, NEW G, NEW tag \in Tags, tag % 8 = 0, NEW v \in Nat,
         NEW e, e = VarintField(tag, v),
         NEW f, f = [tag |-> tag, value |-> v, raw |-> e], NEW c, NEW d,
         v = 0 => d = c, v # 0 => f \in E /\ G[<<c, f>>] = d
  PROVE  Carries(E, G, e, c, d)
<1>1. CASE v = 0
  <2>1. e = << >>
    BY <1>1 DEF VarintField
  <2> QED BY <1>1, <2>1, CarriesNone
<1>2. CASE v # 0
  <2>1. Encodes(e, f)
    BY <1>2, VarintEncoded
  <2> QED BY <1>2, <2>1, CarriesOne
<1> QED BY <1>1, <1>2

\* A truth value is written as the number 1, or not at all.
LEMMA BoolIsVarint ==
  ASSUME NEW tag \in Tags
  PROVE  BoolField(tag, TRUE) = VarintField(tag, 1) /\ BoolField(tag, FALSE) = << >>
<1>1. Varint[1] = <<1>>
  <2>1. 1 \in Nat /\ 1 < 128
    OBVIOUS
  <2> QED BY <2>1, VarintDef, Zenon
<1>2. <<tag>> \o <<1>> = <<tag, 1>>
  BY ListsAre
<1> QED BY <1>1, <1>2 DEF BoolField, VarintField

\* The same for a truth value.
LEMMA BoolCarried ==
  ASSUME NEW E, NEW G, NEW tag \in Tags, tag % 8 = 0, NEW v \in BOOLEAN,
         NEW e, e = BoolField(tag, v),
         NEW f, f = [tag |-> tag, value |-> 1, raw |-> e], NEW c, NEW d,
         ~v => d = c, v => f \in E /\ G[<<c, f>>] = d
  PROVE  Carries(E, G, e, c, d)
<1>1. CASE ~v
  <2>1. e = << >>
    BY <1>1 DEF BoolField
  <2> QED BY <1>1, <2>1, CarriesNone
<1>2. CASE v
  <2>1. e = VarintField(tag, 1)
    BY <1>2, BoolIsVarint
  <2>2. Encodes(e, f)
    BY <2>1, VarintEncoded
  <2> QED BY <1>2, <2>2, CarriesOne
<1> QED BY <1>1, <1>2

\* A field that is a message, or one of many strings.
LEMMA StringCarried ==
  ASSUME NEW E, NEW G, NEW tag \in Tags, tag % 8 = 2, NEW v \in Bytes,
         NEW e, e = StringField(tag, v),
         NEW f \in E, f = [tag |-> tag, value |-> v, raw |-> e], NEW c,
         NEW d, G[<<c, f>>] = d
  PROVE  Carries(E, G, e, c, d)
<1>1. Encodes(e, f)
  BY StringEncoded
<1> QED BY <1>1, CarriesOne

\* A field that none of the messages knows, or none.
Foreign ==
  {<< >>} \cup {VarintField(tag, n) :
                  tag \in {t \in Tags : t % 8 = 0 /\ t \notin {8, 16, 24}},
                  n \in Nat \ {0}}
ForeignTag(tag) == tag \in Tags /\ tag \notin {8, 10, 16, 18, 24, 26}

\* A field that is not known leads where the default case of the switch does.
LEMMA ForeignCarried ==
  ASSUME NEW E, NEW G, NEW u \in Foreign, NEW c, NEW d, u = << >> => d = c,
         u # << >>
           => \A f \in FieldSet : ForeignTag(f.tag) /\ f.value \in Nat /\ f.raw = u
                                            => f \in E /\ G[<<c, f>>] = d
  PROVE  Carries(E, G, u, c, d)
<1>1. CASE u = << >>
  BY <1>1, CarriesNone
<1>2. CASE u # << >>
  <2>1. PICK tag \in Tags, n \in Nat \ {0} :
          tag % 8 = 0 /\ tag \notin {8, 16, 24} /\ u = VarintField(tag, n)
    BY <1>2 DEF Foreign
  <2> DEFINE f == [tag |-> tag, value |-> n, raw |-> u]
  <2>2. f.tag = tag /\ f.value = n /\ f.raw = u
    OBVIOUS
  <2>3. Encodes(u, f)
    BY <2>1, VarintEncoded
  <2> HIDE DEF f
  <2>4. f \in FieldSet
    BY <2>3 DEF Encodes
  <2>5. ForeignTag(tag)
    BY <2>1 DEF ForeignTag
  <2>6. f \in E /\ G[<<c, f>>] = d
    BY <1>2, <2>2, <2>4, <2>5
  <2> QED BY <2>3, <2>6, CarriesOne
<1> QED BY <1>1, <1>2

\* A field that is not known is bytes.
LEMMA ForeignBytes == Foreign \subseteq Bytes
<1>1. << >> \in Bytes
  BY EmptyBytes DEF Bytes
<1>2. ASSUME NEW tag \in Tags, tag % 8 = 0, NEW n \in Nat, n # 0
      PROVE  VarintField(tag, n) \in Bytes
  BY <1>2, VarintEncoded DEF Encodes
<1> QED BY <1>1, <1>2 DEF Foreign

-----------------------------------------------------------------------------
(* What the messages read back.                                            *)

\* The three modules of messages split bytes into fields in the same way.
LEMMA SameFields ==
  /\ H!Fields = Fields /\ U!Fields = Fields /\ F!Fields = Fields
  /\ \A tag, v : /\ H!BytesField(tag, v) = BytesField(tag, v)
                 /\ U!BytesField(tag, v) = BytesField(tag, v)
                 /\ F!BytesField(tag, v) = BytesField(tag, v)
                 /\ H!VarintField(tag, v) = VarintField(tag, v)
                 /\ U!VarintField(tag, v) = VarintField(tag, v)
                 /\ F!VarintField(tag, v) = VarintField(tag, v)
                 /\ U!BoolField(tag, v) = BoolField(tag, v)
  /\ \A v : /\ H!BytesSize(v) = BytesSize(v) /\ U!BytesSize(v) = BytesSize(v)
            /\ F!BytesSize(v) = BytesSize(v)
            /\ H!VarintSize(v) = VarintSize(v) /\ U!VarintSize(v) = VarintSize(v)
            /\ F!VarintSize(v) = VarintSize(v) /\ U!BoolSize(v) = BoolSize(v)
  /\ U!Varint = Varint /\ F!Varint = Varint
<1>1. /\ H!Varint = Varint /\ H!ReadVarint = ReadVarint
      /\ U!Varint = Varint /\ U!ReadVarint = ReadVarint
      /\ F!Varint = Varint /\ F!ReadVarint = ReadVarint
  BY DEF H!Varint, U!Varint, F!Varint, Varint, H!ReadVarint, U!ReadVarint,
         F!ReadVarint, ReadVarint, H!Failure, U!Failure, F!Failure, Failure,
         H!Byte, U!Byte, F!Byte, Byte
<1>2. \A b : /\ H!ReadField(b) = ReadField(b)
             /\ U!ReadField(b) = ReadField(b)
             /\ F!ReadField(b) = ReadField(b)
  BY <1>1 DEF H!ReadField, U!ReadField, F!ReadField, ReadField, H!Failure,
              U!Failure, F!Failure, Failure
<1>3. H!Fields = Fields
  BY <1>2, Zenon DEF H!Fields, Fields, H!Failure, Failure, H!Byte, Byte
<1>4. U!Fields = Fields
  BY <1>2, Zenon DEF U!Fields, Fields, U!Failure, Failure, U!Byte, Byte
<1>5. F!Fields = Fields
  BY <1>2, Zenon DEF F!Fields, Fields, F!Failure, Failure, F!Byte, Byte
<1>6. \A tag, v : /\ H!BytesField(tag, v) = BytesField(tag, v)
                  /\ U!BytesField(tag, v) = BytesField(tag, v)
                  /\ F!BytesField(tag, v) = BytesField(tag, v)
  BY <1>1 DEF H!BytesField, U!BytesField, F!BytesField, BytesField
<1>7. \A tag, v : /\ H!VarintField(tag, v) = VarintField(tag, v)
                  /\ U!VarintField(tag, v) = VarintField(tag, v)
                  /\ F!VarintField(tag, v) = VarintField(tag, v)
  BY <1>1 DEF H!VarintField, U!VarintField, F!VarintField, VarintField
<1>8. \A v : /\ H!BytesSize(v) = BytesSize(v) /\ U!BytesSize(v) = BytesSize(v)
            /\ F!BytesSize(v) = BytesSize(v)
            /\ H!VarintSize(v) = VarintSize(v) /\ U!VarintSize(v) = VarintSize(v)
            /\ F!VarintSize(v) = VarintSize(v)
  BY <1>1 DEF H!BytesSize, U!BytesSize, F!BytesSize, BytesSize, H!VarintSize,
              U!VarintSize, F!VarintSize, VarintSize
<1>9. /\ \A tag, v : U!BoolField(tag, v) = BoolField(tag, v)
      /\ \A v : U!BoolSize(v) = BoolSize(v)
  BY DEF U!BoolField, BoolField, U!BoolSize, BoolSize
<1> QED BY <1>1, <1>3, <1>4, <1>5, <1>6, <1>7, <1>8, <1>9

\* What a field holds: a number or a string.
Content == Nat \cup Bytes

\* What a parse returns: a failure or a message.
Results(M) == {Failure} \cup {<<m>> : m \in M}

-----------------------------------------------------------------------------
\* A header whose fields may hold anything, and what a parse does with a field.
Headers ==
  [service_name : Content, method_name : Content, args_size : Content,
   unknown : Bytes]
HeaderStep ==
  [df \in Results(Headers) \X FieldSet |->
     LET d == df[1]  f == df[2] IN
     IF d = Failure THEN Failure
     ELSE CASE f.tag = 10 -> H!Store(d[1], "service_name", f.value)
            [] f.tag = 18 -> H!Store(d[1], "method_name", f.value)
            [] f.tag = 24 -> H!Store(d[1], "args_size", f.value)
            [] OTHER -> H!KeepUnknown(d[1], f)]

\* A parse takes one step for each field that was read.
LEMMA HeaderRuns ==
  ASSUME NEW m \in Headers, NEW b, NEW l \in Seq(FieldSet), Fields[b] = <<l>>
  PROVE  Runs(HeaderStep, <<m>>, l, H!InternalParse(m, b))
<1> DEFINE V == Results(Headers)
           One(d, f) ==
             IF d = Failure THEN Failure
             ELSE CASE f.tag = 10 -> H!Store(d[1], "service_name", f.value)
                    [] f.tag = 18 -> H!Store(d[1], "method_name", f.value)
                    [] f.tag = 24 -> H!Store(d[1], "args_size", f.value)
                    [] OTHER -> H!KeepUnknown(d[1], f)
           Body(f, s) == IF s = {} THEN <<m>>
                         ELSE One(f[s \ {Max(s)}], l[Max(s)])
           iter == CHOOSE f : f = [s \in SUBSET DOMAIN l |-> Body(f, s)]
<1>1. H!InternalParse(m, b) = iter[DOMAIN l]
  <2>1. H!Fields[b] = <<l>>
    BY SameFields
  <2>2. <<l>> # << >> /\ <<l>>[1] = l
    OBVIOUS
  <2> QED BY <2>1, <2>2
     DEF H!InternalParse, H!Parse, H!Loop, H!FoldLeft,
         H!MapThenFoldSet, H!Max, Max, H!Failure, Failure
<1>2. /\ DOMAIN l = 1..Len(l) /\ Len(l) \in Nat
      /\ \A i \in 1..Len(l) : l[i] \in FieldSet
  OBVIOUS
<1>3. \A d \in V, f \in FieldSet : One(d, f) \in V
  <2> SUFFICES ASSUME NEW r \in Headers, NEW f \in FieldSet
               PROVE  One(<<r>>, f) \in {<<q>> : q \in Headers}
    BY DEF Results
  <2>1. r.unknown \o f.raw \in Bytes /\ f.value \in Content
    BY Joined DEF Headers, FieldSet, Bytes, Content
  <2>2. <<r>> # Failure /\ <<r>>[1] = r
    BY DEF Failure
  <2> QED BY <2>1, <2>2 DEF H!Store, H!KeepUnknown, Headers
<1>4. \A d \in V, f \in FieldSet : HeaderStep[<<d, f>>] = One(d, f)
  BY DEF HeaderStep
<1>5. HeaderStep \in [V \X FieldSet -> V]
  <2> HIDE DEF One, V
  <2>1. \A df \in V \X FieldSet : HeaderStep[df] \in V
    BY <1>3, <1>4
  <2>2. HeaderStep = [df \in V \X FieldSet |-> HeaderStep[df]]
    BY DEF HeaderStep, V
  <2> QED BY <2>1, <2>2
<1> DEFINE c == <<m>>
<1>6. c \in V
  BY DEF Results
<1> HIDE DEF One, V, c
<1>7. Folds(V, HeaderStep, c, l)
  BY <1>5, <1>6, FoldIsDefined
<1>8. PICK f \in [SUBSET (1..Len(l)) -> V] : \A s \in SUBSET (1..Len(l)) :
        f[s] = IF s = {} THEN c
               ELSE HeaderStep[<<f[s \ {Max(s)}], l[Max(s)]>>]
  BY <1>7 DEF Folds
<1>9. \A s \in SUBSET (1..Len(l)) : f[s] = Body(f, s)
  <2> TAKE s \in SUBSET (1..Len(l))
  <2>1. CASE s = {}
    BY <1>8, <2>1 DEF c
  <2>2. CASE s # {}
    <3>1. Max(s) \in 1..Len(l) /\ s \ {Max(s)} \in SUBSET (1..Len(l))
      BY <1>2, <2>2, FewerIndices
    <3>2. f[s \ {Max(s)}] \in V /\ l[Max(s)] \in FieldSet
      BY <1>2, <3>1
    <3>3. HeaderStep[<<f[s \ {Max(s)}], l[Max(s)]>>]
            = One(f[s \ {Max(s)}], l[Max(s)])
      BY <1>4, <3>2
    <3> QED BY <1>8, <2>2, <3>3
  <2> QED BY <2>1, <2>2
<1>10. f = [s \in SUBSET DOMAIN l |-> Body(f, s)]
  <2> HIDE DEF Body
  <2> QED BY <1>2, <1>9
<1>11. iter = [s \in SUBSET DOMAIN l |-> Body(iter, s)]
  <2> HIDE DEF Body
  <2> QED BY <1>10
<1> HIDE DEF iter
<1>12. \A s \in SUBSET (1..Len(l)) : iter[s] = Body(iter, s)
  <2> HIDE DEF Body
  <2> QED BY <1>2, <1>11
<1>13. f[1..Len(l)] = iter[1..Len(l)]
  <2>1. f[{}] = iter[{}]
    BY <1>9, <1>12
  <2>2. \A s \in SUBSET (1..Len(l)) :
          s # {} /\ f[s \ {Max(s)}] = iter[s \ {Max(s)}] => f[s] = iter[s]
    BY <1>9, <1>12
  <2> QED BY <1>2, <2>1, <2>2, FoldsAgree
<1>14. H!InternalParse(m, b) = f[1..Len(l)]
  BY <1>1, <1>2, <1>13
<1> QED BY <1>8, <1>14 DEF Runs, c

-----------------------------------------------------------------------------
\* The same of a login request.
LoginRequests ==
  [name : Content, pwd : Content, unknown : Bytes]
LoginRequestStep ==
  [df \in Results(LoginRequests) \X FieldSet |->
     LET d == df[1]  f == df[2] IN
     IF d = Failure THEN Failure
     ELSE CASE f.tag = 10 -> U!Store(d[1], "name", f.value)
            [] f.tag = 18 -> U!Store(d[1], "pwd", f.value)
            [] OTHER -> U!KeepUnknown(d[1], f)]

\* A parse takes one step for each field that was read.
LEMMA LoginRequestRuns ==
  ASSUME NEW m \in LoginRequests, NEW b, NEW l \in Seq(FieldSet), Fields[b] = <<l>>
  PROVE  Runs(LoginRequestStep, <<m>>, l, U!LoginRequest_InternalParse(m, b))
<1> DEFINE V == Results(LoginRequests)
           One(d, f) ==
             IF d = Failure THEN Failure
             ELSE CASE f.tag = 10 -> U!Store(d[1], "name", f.value)
                    [] f.tag = 18 -> U!Store(d[1], "pwd", f.value)
                    [] OTHER -> U!KeepUnknown(d[1], f)
           Body(f, s) == IF s = {} THEN <<m>>
                         ELSE One(f[s \ {Max(s)}], l[Max(s)])
           iter == CHOOSE f : f = [s \in SUBSET DOMAIN l |-> Body(f, s)]
<1>1. U!LoginRequest_InternalParse(m, b) = iter[DOMAIN l]
  <2>1. U!Fields[b] = <<l>>
    BY SameFields
  <2>2. <<l>> # << >> /\ <<l>>[1] = l
    OBVIOUS
  <2> QED BY <2>1, <2>2
     DEF U!LoginRequest_InternalParse, U!Parse, U!Loop, U!FoldLeft,
         U!MapThenFoldSet, U!Max, Max, U!Failure, Failure
<1>2. /\ DOMAIN l = 1..Len(l) /\ Len(l) \in Nat
      /\ \A i \in 1..Len(l) : l[i] \in FieldSet
  OBVIOUS
<1>3. \A d \in V, f \in FieldSet : One(d, f) \in V
  <2> SUFFICES ASSUME NEW r \in LoginRequests, NEW f \in FieldSet
               PROVE  One(<<r>>, f) \in {<<q>> : q \in LoginRequests}
    BY DEF Results
  <2>1. r.unknown \o f.raw \in Bytes /\ f.value \in Content
    BY Joined DEF LoginRequests, FieldSet, Bytes, Content
  <2>2. <<r>> # Failure /\ <<r>>[1] = r
    BY DEF Failure
  <2> QED BY <2>1, <2>2 DEF U!Store, U!KeepUnknown, LoginRequests
<1>4. \A d \in V, f \in FieldSet : LoginRequestStep[<<d, f>>] = One(d, f)
  BY DEF LoginRequestStep
<1>5. LoginRequestStep \in [V \X FieldSet -> V]
  <2> HIDE DEF One, V
  <2>1. \A df \in V \X FieldSet : LoginRequestStep[df] \in V
    BY <1>3, <1>4
  <2>2. LoginRequestStep = [df \in V \X FieldSet |-> LoginRequestStep[df]]
    BY DEF LoginRequestStep, V
  <2> QED BY <2>1, <2>2
<1> DEFINE c == <<m>>
<1>6. c \in V
  BY DEF Results
<1> HIDE DEF One, V, c
<1>7. Folds(V, LoginRequestStep, c, l)
  BY <1>5, <1>6, FoldIsDefined
<1>8. PICK f \in [SUBSET (1..Len(l)) -> V] : \A s \in SUBSET (1..Len(l)) :
        f[s] = IF s = {} THEN c
               ELSE LoginRequestStep[<<f[s \ {Max(s)}], l[Max(s)]>>]
  BY <1>7 DEF Folds
<1>9. \A s \in SUBSET (1..Len(l)) : f[s] = Body(f, s)
  <2> TAKE s \in SUBSET (1..Len(l))
  <2>1. CASE s = {}
    BY <1>8, <2>1 DEF c
  <2>2. CASE s # {}
    <3>1. Max(s) \in 1..Len(l) /\ s \ {Max(s)} \in SUBSET (1..Len(l))
      BY <1>2, <2>2, FewerIndices
    <3>2. f[s \ {Max(s)}] \in V /\ l[Max(s)] \in FieldSet
      BY <1>2, <3>1
    <3>3. LoginRequestStep[<<f[s \ {Max(s)}], l[Max(s)]>>]
            = One(f[s \ {Max(s)}], l[Max(s)])
      BY <1>4, <3>2
    <3> QED BY <1>8, <2>2, <3>3
  <2> QED BY <2>1, <2>2
<1>10. f = [s \in SUBSET DOMAIN l |-> Body(f, s)]
  <2> HIDE DEF Body
  <2> QED BY <1>2, <1>9
<1>11. iter = [s \in SUBSET DOMAIN l |-> Body(iter, s)]
  <2> HIDE DEF Body
  <2> QED BY <1>10
<1> HIDE DEF iter
<1>12. \A s \in SUBSET (1..Len(l)) : iter[s] = Body(iter, s)
  <2> HIDE DEF Body
  <2> QED BY <1>2, <1>11
<1>13. f[1..Len(l)] = iter[1..Len(l)]
  <2>1. f[{}] = iter[{}]
    BY <1>9, <1>12
  <2>2. \A s \in SUBSET (1..Len(l)) :
          s # {} /\ f[s \ {Max(s)}] = iter[s \ {Max(s)}] => f[s] = iter[s]
    BY <1>9, <1>12
  <2> QED BY <1>2, <2>1, <2>2, FoldsAgree
<1>14. U!LoginRequest_InternalParse(m, b) = f[1..Len(l)]
  BY <1>1, <1>2, <1>13
<1> QED BY <1>8, <1>14 DEF Runs, c

-----------------------------------------------------------------------------
\* The same of a register request.
RegisterRequests ==
  [id : Content, name : Content, pwd : Content, unknown : Bytes]
RegisterRequestStep ==
  [df \in Results(RegisterRequests) \X FieldSet |->
     LET d == df[1]  f == df[2] IN
     IF d = Failure THEN Failure
     ELSE CASE f.tag = 8 -> U!Store(d[1], "id", f.value)
            [] f.tag = 18 -> U!Store(d[1], "name", f.value)
            [] f.tag = 26 -> U!Store(d[1], "pwd", f.value)
            [] OTHER -> U!KeepUnknown(d[1], f)]

\* A parse takes one step for each field that was read.
LEMMA RegisterRequestRuns ==
  ASSUME NEW m \in RegisterRequests, NEW b, NEW l \in Seq(FieldSet),
         Fields[b] = <<l>>
  PROVE  Runs(RegisterRequestStep, <<m>>, l, U!RegisterRequest_InternalParse(m, b))
<1> DEFINE V == Results(RegisterRequests)
           One(d, f) ==
             IF d = Failure THEN Failure
             ELSE CASE f.tag = 8 -> U!Store(d[1], "id", f.value)
                    [] f.tag = 18 -> U!Store(d[1], "name", f.value)
                    [] f.tag = 26 -> U!Store(d[1], "pwd", f.value)
                    [] OTHER -> U!KeepUnknown(d[1], f)
           Body(f, s) == IF s = {} THEN <<m>>
                         ELSE One(f[s \ {Max(s)}], l[Max(s)])
           iter == CHOOSE f : f = [s \in SUBSET DOMAIN l |-> Body(f, s)]
<1>1. U!RegisterRequest_InternalParse(m, b) = iter[DOMAIN l]
  <2>1. U!Fields[b] = <<l>>
    BY SameFields
  <2>2. <<l>> # << >> /\ <<l>>[1] = l
    OBVIOUS
  <2> QED BY <2>1, <2>2
     DEF U!RegisterRequest_InternalParse, U!Parse, U!Loop, U!FoldLeft,
         U!MapThenFoldSet, U!Max, Max, U!Failure, Failure
<1>2. /\ DOMAIN l = 1..Len(l) /\ Len(l) \in Nat
      /\ \A i \in 1..Len(l) : l[i] \in FieldSet
  OBVIOUS
<1>3. \A d \in V, f \in FieldSet : One(d, f) \in V
  <2> SUFFICES ASSUME NEW r \in RegisterRequests, NEW f \in FieldSet
               PROVE  One(<<r>>, f) \in {<<q>> : q \in RegisterRequests}
    BY DEF Results
  <2>1. r.unknown \o f.raw \in Bytes /\ f.value \in Content
    BY Joined DEF RegisterRequests, FieldSet, Bytes, Content
  <2>2. <<r>> # Failure /\ <<r>>[1] = r
    BY DEF Failure
  <2> QED BY <2>1, <2>2 DEF U!Store, U!KeepUnknown, RegisterRequests
<1>4. \A d \in V, f \in FieldSet : RegisterRequestStep[<<d, f>>] = One(d, f)
  BY DEF RegisterRequestStep
<1>5. RegisterRequestStep \in [V \X FieldSet -> V]
  <2> HIDE DEF One, V
  <2>1. \A df \in V \X FieldSet : RegisterRequestStep[df] \in V
    BY <1>3, <1>4
  <2>2. RegisterRequestStep = [df \in V \X FieldSet |-> RegisterRequestStep[df]]
    BY DEF RegisterRequestStep, V
  <2> QED BY <2>1, <2>2
<1> DEFINE c == <<m>>
<1>6. c \in V
  BY DEF Results
<1> HIDE DEF One, V, c
<1>7. Folds(V, RegisterRequestStep, c, l)
  BY <1>5, <1>6, FoldIsDefined
<1>8. PICK f \in [SUBSET (1..Len(l)) -> V] : \A s \in SUBSET (1..Len(l)) :
        f[s] = IF s = {} THEN c
               ELSE RegisterRequestStep[<<f[s \ {Max(s)}], l[Max(s)]>>]
  BY <1>7 DEF Folds
<1>9. \A s \in SUBSET (1..Len(l)) : f[s] = Body(f, s)
  <2> TAKE s \in SUBSET (1..Len(l))
  <2>1. CASE s = {}
    BY <1>8, <2>1 DEF c
  <2>2. CASE s # {}
    <3>1. Max(s) \in 1..Len(l) /\ s \ {Max(s)} \in SUBSET (1..Len(l))
      BY <1>2, <2>2, FewerIndices
    <3>2. f[s \ {Max(s)}] \in V /\ l[Max(s)] \in FieldSet
      BY <1>2, <3>1
    <3>3. RegisterRequestStep[<<f[s \ {Max(s)}], l[Max(s)]>>]
            = One(f[s \ {Max(s)}], l[Max(s)])
      BY <1>4, <3>2
    <3> QED BY <1>8, <2>2, <3>3
  <2> QED BY <2>1, <2>2
<1>10. f = [s \in SUBSET DOMAIN l |-> Body(f, s)]
  <2> HIDE DEF Body
  <2> QED BY <1>2, <1>9
<1>11. iter = [s \in SUBSET DOMAIN l |-> Body(iter, s)]
  <2> HIDE DEF Body
  <2> QED BY <1>10
<1> HIDE DEF iter
<1>12. \A s \in SUBSET (1..Len(l)) : iter[s] = Body(iter, s)
  <2> HIDE DEF Body
  <2> QED BY <1>2, <1>11
<1>13. f[1..Len(l)] = iter[1..Len(l)]
  <2>1. f[{}] = iter[{}]
    BY <1>9, <1>12
  <2>2. \A s \in SUBSET (1..Len(l)) :
          s # {} /\ f[s \ {Max(s)}] = iter[s \ {Max(s)}] => f[s] = iter[s]
    BY <1>9, <1>12
  <2> QED BY <1>2, <2>1, <2>2, FoldsAgree
<1>14. U!RegisterRequest_InternalParse(m, b) = f[1..Len(l)]
  BY <1>1, <1>2, <1>13
<1> QED BY <1>8, <1>14 DEF Runs, c

-----------------------------------------------------------------------------
\* The same of a request for a list of friends.
FriendsRequests ==
  [userid : Content, unknown : Bytes]
FriendsRequestStep ==
  [df \in Results(FriendsRequests) \X FieldSet |->
     LET d == df[1]  f == df[2] IN
     IF d = Failure THEN Failure
     ELSE IF f.tag = 8 THEN F!Store(d[1], "userid", f.value)
          ELSE F!KeepUnknown(d[1], f)]

\* A parse takes one step for each field that was read.
LEMMA FriendsRequestRuns ==
  ASSUME NEW m \in FriendsRequests, NEW b, NEW l \in Seq(FieldSet),
         Fields[b] = <<l>>
  PROVE  Runs(FriendsRequestStep, <<m>>, l,
              F!GetFriendsListRequest_InternalParse(m, b))
<1> DEFINE V == Results(FriendsRequests)
           One(d, f) ==
             IF d = Failure THEN Failure
             ELSE IF f.tag = 8 THEN F!Store(d[1], "userid", f.value)
                  ELSE F!KeepUnknown(d[1], f)
           Body(f, s) == IF s = {} THEN <<m>>
                         ELSE One(f[s \ {Max(s)}], l[Max(s)])
           iter == CHOOSE f : f = [s \in SUBSET DOMAIN l |-> Body(f, s)]
<1>1. F!GetFriendsListRequest_InternalParse(m, b) = iter[DOMAIN l]
  <2>1. F!Fields[b] = <<l>>
    BY SameFields
  <2>2. <<l>> # << >> /\ <<l>>[1] = l
    OBVIOUS
  <2> QED BY <2>1, <2>2
     DEF F!GetFriendsListRequest_InternalParse, F!Parse, F!Loop, F!FoldLeft,
         F!MapThenFoldSet, F!Max, Max, F!Failure, Failure
<1>2. /\ DOMAIN l = 1..Len(l) /\ Len(l) \in Nat
      /\ \A i \in 1..Len(l) : l[i] \in FieldSet
  OBVIOUS
<1>3. \A d \in V, f \in FieldSet : One(d, f) \in V
  <2> SUFFICES ASSUME NEW r \in FriendsRequests, NEW f \in FieldSet
               PROVE  One(<<r>>, f) \in {<<q>> : q \in FriendsRequests}
    BY DEF Results
  <2>1. r.unknown \o f.raw \in Bytes /\ f.value \in Content
    BY Joined DEF FriendsRequests, FieldSet, Bytes, Content
  <2>2. <<r>> # Failure /\ <<r>>[1] = r
    BY DEF Failure
  <2> QED BY <2>1, <2>2 DEF F!Store, F!KeepUnknown, FriendsRequests
<1>4. \A d \in V, f \in FieldSet : FriendsRequestStep[<<d, f>>] = One(d, f)
  BY DEF FriendsRequestStep
<1>5. FriendsRequestStep \in [V \X FieldSet -> V]
  <2> HIDE DEF One, V
  <2>1. \A df \in V \X FieldSet : FriendsRequestStep[df] \in V
    BY <1>3, <1>4
  <2>2. FriendsRequestStep = [df \in V \X FieldSet |-> FriendsRequestStep[df]]
    BY DEF FriendsRequestStep, V
  <2> QED BY <2>1, <2>2
<1> DEFINE c == <<m>>
<1>6. c \in V
  BY DEF Results
<1> HIDE DEF One, V, c
<1>7. Folds(V, FriendsRequestStep, c, l)
  BY <1>5, <1>6, FoldIsDefined
<1>8. PICK f \in [SUBSET (1..Len(l)) -> V] : \A s \in SUBSET (1..Len(l)) :
        f[s] = IF s = {} THEN c
               ELSE FriendsRequestStep[<<f[s \ {Max(s)}], l[Max(s)]>>]
  BY <1>7 DEF Folds
<1>9. \A s \in SUBSET (1..Len(l)) : f[s] = Body(f, s)
  <2> TAKE s \in SUBSET (1..Len(l))
  <2>1. CASE s = {}
    BY <1>8, <2>1 DEF c
  <2>2. CASE s # {}
    <3>1. Max(s) \in 1..Len(l) /\ s \ {Max(s)} \in SUBSET (1..Len(l))
      BY <1>2, <2>2, FewerIndices
    <3>2. f[s \ {Max(s)}] \in V /\ l[Max(s)] \in FieldSet
      BY <1>2, <3>1
    <3>3. FriendsRequestStep[<<f[s \ {Max(s)}], l[Max(s)]>>]
            = One(f[s \ {Max(s)}], l[Max(s)])
      BY <1>4, <3>2
    <3> QED BY <1>8, <2>2, <3>3
  <2> QED BY <2>1, <2>2
<1>10. f = [s \in SUBSET DOMAIN l |-> Body(f, s)]
  <2> HIDE DEF Body
  <2> QED BY <1>2, <1>9
<1>11. iter = [s \in SUBSET DOMAIN l |-> Body(iter, s)]
  <2> HIDE DEF Body
  <2> QED BY <1>10
<1> HIDE DEF iter
<1>12. \A s \in SUBSET (1..Len(l)) : iter[s] = Body(iter, s)
  <2> HIDE DEF Body
  <2> QED BY <1>2, <1>11
<1>13. f[1..Len(l)] = iter[1..Len(l)]
  <2>1. f[{}] = iter[{}]
    BY <1>9, <1>12
  <2>2. \A s \in SUBSET (1..Len(l)) :
          s # {} /\ f[s \ {Max(s)}] = iter[s \ {Max(s)}] => f[s] = iter[s]
    BY <1>9, <1>12
  <2> QED BY <1>2, <2>1, <2>2, FoldsAgree
<1>14. F!GetFriendsListRequest_InternalParse(m, b) = f[1..Len(l)]
  BY <1>1, <1>2, <1>13
<1> QED BY <1>8, <1>14 DEF Runs, c

-----------------------------------------------------------------------------
\* The same of a result code, of which a message is made again.
Codes ==
  [errcode : Content, errmsg : Content, unknown : Bytes]
CodeStep ==
  [df \in Results(Codes) \X FieldSet |->
     LET d == df[1]  f == df[2] IN
     IF d = Failure THEN Failure
     ELSE CASE f.tag = 8 -> U!Store(d[1], "errcode", f.value)
            [] f.tag = 18 -> U!Store(d[1], "errmsg", f.value)
            [] OTHER -> U!KeepUnknown(d[1], f)]

\* A parse takes one step for each field that was read.
LEMMA CodeRuns ==
  ASSUME NEW m \in Codes, NEW b, NEW l \in Seq(FieldSet), Fields[b] = <<l>>
  PROVE  /\ Runs(CodeStep, <<m>>, l, U!ResultCode_InternalParse(m, b))
         /\ U!ResultCode_InternalParse(m, b) \in Results(Codes)
<1> DEFINE V == Results(Codes)
           One(d, f) ==
             IF d = Failure THEN Failure
             ELSE CASE f.tag = 8 -> U!Store(d[1], "errcode", f.value)
                    [] f.tag = 18 -> U!Store(d[1], "errmsg", f.value)
                    [] OTHER -> U!KeepUnknown(d[1], f)
           Body(f, s) == IF s = {} THEN <<m>>
                         ELSE One(f[s \ {Max(s)}], l[Max(s)])
           iter == CHOOSE f : f = [s \in SUBSET DOMAIN l |-> Body(f, s)]
<1>1. U!ResultCode_InternalParse(m, b) = iter[DOMAIN l]
  <2>1. U!Fields[b] = <<l>>
    BY SameFields
  <2>2. <<l>> # << >> /\ <<l>>[1] = l
    OBVIOUS
  <2> QED BY <2>1, <2>2
     DEF U!ResultCode_InternalParse, U!Parse, U!Loop, U!FoldLeft,
         U!MapThenFoldSet, U!Max, Max, U!Failure, Failure
<1>2. /\ DOMAIN l = 1..Len(l) /\ Len(l) \in Nat
      /\ \A i \in 1..Len(l) : l[i] \in FieldSet
  OBVIOUS
<1>3. \A d \in V, f \in FieldSet : One(d, f) \in V
  <2> SUFFICES ASSUME NEW r \in Codes, NEW f \in FieldSet
               PROVE  One(<<r>>, f) \in {<<q>> : q \in Codes}
    BY DEF Results
  <2>1. r.unknown \o f.raw \in Bytes /\ f.value \in Content
    BY Joined DEF Codes, FieldSet, Bytes, Content
  <2>2. <<r>> # Failure /\ <<r>>[1] = r
    BY DEF Failure
  <2> QED BY <2>1, <2>2 DEF U!Store, U!KeepUnknown, Codes
<1>4. \A d \in V, f \in FieldSet : CodeStep[<<d, f>>] = One(d, f)
  BY DEF CodeStep
<1>5. CodeStep \in [V \X FieldSet -> V]
  <2> HIDE DEF One, V
  <2>1. \A df \in V \X FieldSet : CodeStep[df] \in V
    BY <1>3, <1>4
  <2>2. CodeStep = [df \in V \X FieldSet |-> CodeStep[df]]
    BY DEF CodeStep, V
  <2> QED BY <2>1, <2>2
<1> DEFINE c == <<m>>
<1>6. c \in V
  BY DEF Results
<1> HIDE DEF One, V, c
<1>7. Folds(V, CodeStep, c, l)
  BY <1>5, <1>6, FoldIsDefined
<1>8. PICK f \in [SUBSET (1..Len(l)) -> V] : \A s \in SUBSET (1..Len(l)) :
        f[s] = IF s = {} THEN c
               ELSE CodeStep[<<f[s \ {Max(s)}], l[Max(s)]>>]
  BY <1>7 DEF Folds
<1>9. \A s \in SUBSET (1..Len(l)) : f[s] = Body(f, s)
  <2> TAKE s \in SUBSET (1..Len(l))
  <2>1. CASE s = {}
    BY <1>8, <2>1 DEF c
  <2>2. CASE s # {}
    <3>1. Max(s) \in 1..Len(l) /\ s \ {Max(s)} \in SUBSET (1..Len(l))
      BY <1>2, <2>2, FewerIndices
    <3>2. f[s \ {Max(s)}] \in V /\ l[Max(s)] \in FieldSet
      BY <1>2, <3>1
    <3>3. CodeStep[<<f[s \ {Max(s)}], l[Max(s)]>>]
            = One(f[s \ {Max(s)}], l[Max(s)])
      BY <1>4, <3>2
    <3> QED BY <1>8, <2>2, <3>3
  <2> QED BY <2>1, <2>2
<1>10. f = [s \in SUBSET DOMAIN l |-> Body(f, s)]
  <2> HIDE DEF Body
  <2> QED BY <1>2, <1>9
<1>11. iter = [s \in SUBSET DOMAIN l |-> Body(iter, s)]
  <2> HIDE DEF Body
  <2> QED BY <1>10
<1> HIDE DEF iter
<1>12. \A s \in SUBSET (1..Len(l)) : iter[s] = Body(iter, s)
  <2> HIDE DEF Body
  <2> QED BY <1>2, <1>11
<1>13. f[1..Len(l)] = iter[1..Len(l)]
  <2>1. f[{}] = iter[{}]
    BY <1>9, <1>12
  <2>2. \A s \in SUBSET (1..Len(l)) :
          s # {} /\ f[s \ {Max(s)}] = iter[s \ {Max(s)}] => f[s] = iter[s]
    BY <1>9, <1>12
  <2> QED BY <1>2, <2>1, <2>2, FoldsAgree
<1>14. U!ResultCode_InternalParse(m, b) = f[1..Len(l)]
  BY <1>1, <1>2, <1>13
<1>15. f[1..Len(l)] \in V
  <2>1. 1..Len(l) \in SUBSET (1..Len(l))
    OBVIOUS
  <2> QED BY <1>8, <2>1
<1> QED BY <1>8, <1>14, <1>15 DEF Runs, c, V

\* A result code that is parsed again is one, whatever bytes are read.
LEMMA CodeIsParsed ==
  ASSUME NEW m \in Codes, NEW b \in Bytes
  PROVE  U!ResultCode_InternalParse(m, b) \in Results(Codes)
<1>1. Fields[b] \in Lists
  BY FieldsDef
<1>2. CASE Fields[b] = Failure
  <2>1. U!ResultCode_InternalParse(m, b) = Failure
    BY <1>2, SameFields
       DEF U!ResultCode_InternalParse, U!Parse, U!Loop, U!Failure, Failure
  <2> QED BY <2>1 DEF Results
<1>3. ASSUME NEW l \in Seq(FieldSet), Fields[b] = <<l>>
      PROVE  U!ResultCode_InternalParse(m, b) \in Results(Codes)
  BY <1>3, CodeRuns
<1> QED BY <1>1, <1>2, <1>3 DEF Lists

\* The empty result code is one whose fields may hold anything.
LEMMA CodeIsEmpty == U!ResultCode_Clear \in Codes
BY EmptyBytes DEF U!ResultCode_Clear, Codes, Content, Bytes

\* The result codes of the two services are the same but for their names.
LEMMA SameCodes ==
  ASSUME NEW m, NEW n, NEW b
  PROVE  /\ F!ResultCode_InternalParse(m, b) = U!ResultCode_InternalParse(m, b)
         /\ F!ResultCode_InternalSerialize(m) = U!ResultCode_InternalSerialize(m)
         /\ F!ResultCode_ByteSizeLong(m) = U!ResultCode_ByteSizeLong(m)
         /\ F!ResultCode_MergeFrom(m, n) = U!ResultCode_MergeFrom(m, n)
         /\ F!ResultCode_Clear = U!ResultCode_Clear
         /\ F!Mutable(m) = U!Mutable(m)
<1>1. F!Fields[b] = U!Fields[b]
  BY SameFields
<1>2. F!ResultCode_InternalParse(m, b) = U!ResultCode_InternalParse(m, b)
  <2> DEFINE One(d, f) ==
               IF d = << >> THEN << >>
               ELSE CASE f.tag = 8 -> <<[d[1] EXCEPT !["errcode"] = f.value]>>
                      [] f.tag = 18 -> <<[d[1] EXCEPT !["errmsg"] = f.value]>>
                      [] OTHER -> <<[d[1] EXCEPT !["unknown"] = d[1].unknown \o f.raw]>>
             Largest(S) == CHOOSE x \in S : \A y \in S : x >= y
             Body(l, f, s) == IF s = {} THEN <<m>>
                              ELSE One(f[s \ {Largest(s)}], l[Largest(s)])
             Fold(l) == (CHOOSE f :
                            f = [s \in SUBSET DOMAIN l |-> Body(l, f, s)])[DOMAIN l]
             Made(l) == IF l = << >> THEN << >> ELSE Fold(l[1])
  <2>1. U!ResultCode_InternalParse(m, b) = Made(U!Fields[b])
    BY DEF U!ResultCode_InternalParse, U!Parse, U!Loop, U!Failure, U!Store,
       U!KeepUnknown, U!FoldLeft, U!MapThenFoldSet, U!Max
  <2>2. F!ResultCode_InternalParse(m, b) = Made(F!Fields[b])
    BY DEF F!ResultCode_InternalParse, F!Parse, F!Loop, F!Failure, F!Store,
       F!KeepUnknown, F!FoldLeft, F!MapThenFoldSet, F!Max
  <2> HIDE DEF Made
  <2> QED BY <1>1, <2>1, <2>2
<1>3. F!ResultCode_InternalSerialize(m) = U!ResultCode_InternalSerialize(m)
  BY SameFields DEF F!ResultCode_InternalSerialize, U!ResultCode_InternalSerialize
<1>4. F!ResultCode_ByteSizeLong(m) = U!ResultCode_ByteSizeLong(m)
  BY SameFields DEF F!ResultCode_ByteSizeLong, U!ResultCode_ByteSizeLong
<1>5. F!ResultCode_Clear = U!ResultCode_Clear
  BY DEF F!ResultCode_Clear, U!ResultCode_Clear
<1>6. F!ResultCode_MergeFrom(m, n) = U!ResultCode_MergeFrom(m, n)
  BY DEF F!ResultCode_MergeFrom, U!ResultCode_MergeFrom, F!Merged, U!Merged
<1>7. F!Mutable(m) = U!Mutable(m)
  BY <1>5 DEF F!Mutable, U!Mutable
<1> QED BY <1>2, <1>3, <1>4, <1>5, <1>6, <1>7

\* Fields whose strings may be messages.
MessageFields == {f \in FieldSet : f.tag = 10 => f.value \in Bytes}

-----------------------------------------------------------------------------
\* The same of an answer to a login, a result code within.
Responses ==
  [result : U!AtMostOne(Codes), sucess : BOOLEAN, unknown : Bytes]
AnswerStep ==
  [df \in Results(Responses) \X MessageFields |->
     LET d == df[1]  f == df[2] IN
     IF d = Failure THEN Failure
     ELSE CASE f.tag = 10 -> U!ParseResult(d[1], f)
            [] f.tag = 16 -> U!Store(d[1], "sucess", f.value # 0)
            [] OTHER -> U!KeepUnknown(d[1], f)]

\* A parse takes one step for each field that was read.
LEMMA AnswerRuns ==
  ASSUME NEW m \in Responses, NEW b, NEW l \in Seq(MessageFields), Fields[b] = <<l>>
  PROVE  Runs(AnswerStep, <<m>>, l, U!LoginResponse_InternalParse(m, b))
<1> DEFINE V == Results(Responses)
           One(d, f) ==
             IF d = Failure THEN Failure
             ELSE CASE f.tag = 10 -> U!ParseResult(d[1], f)
                    [] f.tag = 16 -> U!Store(d[1], "sucess", f.value # 0)
                    [] OTHER -> U!KeepUnknown(d[1], f)
           Body(f, s) == IF s = {} THEN <<m>>
                         ELSE One(f[s \ {Max(s)}], l[Max(s)])
           iter == CHOOSE f : f = [s \in SUBSET DOMAIN l |-> Body(f, s)]
<1>1. U!LoginResponse_InternalParse(m, b) = iter[DOMAIN l]
  <2>1. U!Fields[b] = <<l>>
    BY SameFields
  <2>2. <<l>> # << >> /\ <<l>>[1] = l
    OBVIOUS
  <2> QED BY <2>1, <2>2
     DEF U!LoginResponse_InternalParse, U!Parse, U!Loop, U!FoldLeft,
         U!MapThenFoldSet, U!Max, Max, U!Failure, Failure
<1>2. /\ DOMAIN l = 1..Len(l) /\ Len(l) \in Nat
      /\ \A i \in 1..Len(l) : l[i] \in MessageFields
  OBVIOUS
<1>3. ASSUME NEW d \in V, NEW f \in MessageFields PROVE One(d, f) \in V
  <2>1. CASE d = Failure
    BY <2>1 DEF Results
  <2>2. ASSUME NEW r \in Responses, d = <<r>> PROVE One(d, f) \in V
    <3>1. /\ d # Failure /\ d[1] = r /\ f \in FieldSet
          /\ \A q \in Responses : <<q>> \in V
      BY <2>2 DEF Failure, Results, MessageFields
    <3>2. CASE f.tag = 10
      <4> DEFINE p == U!ResultCode_InternalParse(U!Mutable(r.result), f.value)
      <4>1. U!Mutable(r.result) \in Codes
        BY CodeIsEmpty DEF Responses, U!Mutable, U!AtMostOne
      <4>2. p \in Results(Codes)
        BY <3>2, <4>1, CodeIsParsed DEF MessageFields
      <4>3. CASE p = Failure
        <5>1. One(d, f) = Failure
          BY <3>1, <3>2, <4>3 DEF U!ParseResult, U!Failure, F!Failure, Failure
        <5> QED BY <5>1 DEF Results
      <4>4. ASSUME NEW c \in Codes, p = <<c>> PROVE One(d, f) \in V
        <5>1. p # Failure
          BY <4>4 DEF Failure
        <5>2. One(d, f) = <<[r EXCEPT !["result"] = p]>>
          <6> HIDE DEF p
          <6> QED BY <3>1, <3>2, <5>1
              DEF U!ParseResult, U!Failure, F!Failure, Failure, U!Store, F!Store, p
        <5>3. p \in U!AtMostOne(Codes)
          BY <4>4 DEF U!AtMostOne
        <5>4. [r EXCEPT !["result"] = p] \in Responses
          <6> HIDE DEF p
          <6> QED BY <5>3 DEF Responses
        <5> QED BY <3>1, <5>2, <5>4
      <4> QED BY <4>2, <4>3, <4>4 DEF Results
    <3>3. CASE f.tag # 10
      <4>1. r.unknown \o f.raw \in Bytes /\ f.value \in Content
        BY <3>1, Joined DEF Responses, FieldSet, Bytes, Content
      <4> QED BY <3>1, <3>3, <4>1 DEF U!Store, U!KeepUnknown, Responses
    <3> QED BY <3>2, <3>3
  <2> QED BY <2>1, <2>2 DEF Results
<1>4. \A d \in V, f \in MessageFields : AnswerStep[<<d, f>>] = One(d, f)
  BY DEF AnswerStep
<1>5. AnswerStep \in [V \X MessageFields -> V]
  <2> HIDE DEF One, V
  <2>1. \A df \in V \X MessageFields : AnswerStep[df] \in V
    BY <1>3, <1>4
  <2>2. AnswerStep = [df \in V \X MessageFields |-> AnswerStep[df]]
    BY DEF AnswerStep, V
  <2> QED BY <2>1, <2>2
<1> DEFINE c == <<m>>
<1>6. c \in V
  BY DEF Results
<1> HIDE DEF One, V, c
<1>7. Folds(V, AnswerStep, c, l)
  BY <1>5, <1>6, FoldIsDefined
<1>8. PICK f \in [SUBSET (1..Len(l)) -> V] : \A s \in SUBSET (1..Len(l)) :
        f[s] = IF s = {} THEN c
               ELSE AnswerStep[<<f[s \ {Max(s)}], l[Max(s)]>>]
  BY <1>7 DEF Folds
<1>9. \A s \in SUBSET (1..Len(l)) : f[s] = Body(f, s)
  <2> TAKE s \in SUBSET (1..Len(l))
  <2>1. CASE s = {}
    BY <1>8, <2>1 DEF c
  <2>2. CASE s # {}
    <3>1. Max(s) \in 1..Len(l) /\ s \ {Max(s)} \in SUBSET (1..Len(l))
      BY <1>2, <2>2, FewerIndices
    <3>2. f[s \ {Max(s)}] \in V /\ l[Max(s)] \in MessageFields
      BY <1>2, <3>1
    <3>3. AnswerStep[<<f[s \ {Max(s)}], l[Max(s)]>>]
            = One(f[s \ {Max(s)}], l[Max(s)])
      BY <1>4, <3>2
    <3> QED BY <1>8, <2>2, <3>3
  <2> QED BY <2>1, <2>2
<1>10. f = [s \in SUBSET DOMAIN l |-> Body(f, s)]
  <2> HIDE DEF Body
  <2> QED BY <1>2, <1>9
<1>11. iter = [s \in SUBSET DOMAIN l |-> Body(iter, s)]
  <2> HIDE DEF Body
  <2> QED BY <1>10
<1> HIDE DEF iter
<1>12. \A s \in SUBSET (1..Len(l)) : iter[s] = Body(iter, s)
  <2> HIDE DEF Body
  <2> QED BY <1>2, <1>11
<1>13. f[1..Len(l)] = iter[1..Len(l)]
  <2>1. f[{}] = iter[{}]
    BY <1>9, <1>12
  <2>2. \A s \in SUBSET (1..Len(l)) :
          s # {} /\ f[s \ {Max(s)}] = iter[s \ {Max(s)}] => f[s] = iter[s]
    BY <1>9, <1>12
  <2> QED BY <1>2, <2>1, <2>2, FoldsAgree
<1>14. U!LoginResponse_InternalParse(m, b) = f[1..Len(l)]
  BY <1>1, <1>2, <1>13
<1> QED BY <1>8, <1>14 DEF Runs, c

-----------------------------------------------------------------------------
\* The same of a list of friends.
FriendsAnswers ==
  [result : U!AtMostOne(Codes), friends : Seq(Content), unknown : Bytes]
FriendsAnswerStep ==
  [df \in Results(FriendsAnswers) \X MessageFields |->
     LET d == df[1]  f == df[2] IN
     IF d = Failure THEN Failure
     ELSE CASE f.tag = 10 ->
                 LET p == F!ResultCode_InternalParse(
                            F!Mutable(d[1].result), f.value)
                 IN IF p = F!Failure THEN F!Failure ELSE F!Store(d[1], "result", p)
            [] f.tag = 18 -> F!Store(d[1], "friends", Append(d[1].friends, f.value))
            [] OTHER -> F!KeepUnknown(d[1], f)]

\* A parse takes one step for each field that was read.
LEMMA FriendsAnswerRuns ==
  ASSUME NEW m \in FriendsAnswers, NEW b, NEW l \in Seq(MessageFields),
         Fields[b] = <<l>>
  PROVE  Runs(FriendsAnswerStep, <<m>>, l,
              F!GetFriendsListResponse_InternalParse(m, b))
<1> DEFINE V == Results(FriendsAnswers)
           One(d, f) ==
             IF d = Failure THEN Failure
             ELSE CASE f.tag = 10 ->
                         LET p == F!ResultCode_InternalParse(
                                    F!Mutable(d[1].result), f.value)
                         IN IF p = F!Failure THEN F!Failure ELSE F!Store(d[1], "result", p)
                    [] f.tag = 18 -> F!Store(d[1], "friends", Append(d[1].friends, f.value))
                    [] OTHER -> F!KeepUnknown(d[1], f)
           Body(f, s) == IF s = {} THEN <<m>>
                         ELSE One(f[s \ {Max(s)}], l[Max(s)])
           iter == CHOOSE f : f = [s \in SUBSET DOMAIN l |-> Body(f, s)]
<1>1. F!GetFriendsListResponse_InternalParse(m, b) = iter[DOMAIN l]
  <2>1. F!Fields[b] = <<l>>
    BY SameFields
  <2>2. <<l>> # << >> /\ <<l>>[1] = l
    OBVIOUS
  <2> QED BY <2>1, <2>2
     DEF F!GetFriendsListResponse_InternalParse, F!Parse, F!Loop, F!FoldLeft,
         F!MapThenFoldSet, F!Max, Max, F!Failure, Failure
<1>2. /\ DOMAIN l = 1..Len(l) /\ Len(l) \in Nat
      /\ \A i \in 1..Len(l) : l[i] \in MessageFields
  OBVIOUS
<1>3. ASSUME NEW d \in V, NEW f \in MessageFields PROVE One(d, f) \in V
  <2>1. CASE d = Failure
    BY <2>1 DEF Results
  <2>2. ASSUME NEW r \in FriendsAnswers, d = <<r>> PROVE One(d, f) \in V
    <3>1. /\ d # Failure /\ d[1] = r /\ f \in FieldSet
          /\ \A q \in FriendsAnswers : <<q>> \in V
      BY <2>2 DEF Failure, Results, MessageFields
    <3>2. CASE f.tag = 10
      <4> DEFINE p == U!ResultCode_InternalParse(U!Mutable(r.result), f.value)
      <4>1. U!Mutable(r.result) \in Codes
        BY CodeIsEmpty DEF FriendsAnswers, U!Mutable, U!AtMostOne
      <4>2. p \in Results(Codes)
        BY <3>2, <4>1, CodeIsParsed DEF MessageFields
      <4>0. /\ F!Mutable(r.result) = U!Mutable(r.result)
            /\ F!ResultCode_InternalParse(U!Mutable(r.result), f.value) = p
        BY SameCodes
      <4>3. CASE p = Failure
        <5>1. One(d, f) = Failure
          BY <3>1, <3>2, <4>3, <4>0 DEF U!ParseResult, U!Failure, F!Failure, Failure
        <5> QED BY <5>1 DEF Results
      <4>4. ASSUME NEW c \in Codes, p = <<c>> PROVE One(d, f) \in V
        <5>1. p # Failure
          BY <4>4 DEF Failure
        <5>2. One(d, f) = <<[r EXCEPT !["result"] = p]>>
          <6> HIDE DEF p
          <6> QED BY <3>1, <3>2, <5>1, <4>0
              DEF U!ParseResult, U!Failure, F!Failure, Failure, U!Store, F!Store, p
        <5>3. p \in U!AtMostOne(Codes)
          BY <4>4 DEF U!AtMostOne
        <5>4. [r EXCEPT !["result"] = p] \in FriendsAnswers
          <6> HIDE DEF p
          <6> QED BY <5>3 DEF FriendsAnswers
        <5> QED BY <3>1, <5>2, <5>4
      <4> QED BY <4>2, <4>3, <4>4 DEF Results
    <3>3. CASE f.tag # 10
      <4>1. r.unknown \o f.raw \in Bytes /\ f.value \in Content
        BY <3>1, Joined DEF FriendsAnswers, FieldSet, Bytes, Content
      <4>2. Append(r.friends, f.value) \in Seq(Content)
        BY <4>1 DEF FriendsAnswers
      <4> QED BY <3>1, <3>3, <4>1, <4>2 DEF F!Store, F!KeepUnknown, FriendsAnswers
    <3> QED BY <3>2, <3>3
  <2> QED BY <2>1, <2>2 DEF Results
<1>4. \A d \in V, f \in MessageFields : FriendsAnswerStep[<<d, f>>] = One(d, f)
  BY DEF FriendsAnswerStep
<1>5. FriendsAnswerStep \in [V \X MessageFields -> V]
  <2> HIDE DEF One, V
  <2>1. \A df \in V \X MessageFields : FriendsAnswerStep[df] \in V
    BY <1>3, <1>4
  <2>2. FriendsAnswerStep = [df \in V \X MessageFields |-> FriendsAnswerStep[df]]
    BY DEF FriendsAnswerStep, V
  <2> QED BY <2>1, <2>2
<1> DEFINE c == <<m>>
<1>6. c \in V
  BY DEF Results
<1> HIDE DEF One, V, c
<1>7. Folds(V, FriendsAnswerStep, c, l)
  BY <1>5, <1>6, FoldIsDefined
<1>8. PICK f \in [SUBSET (1..Len(l)) -> V] : \A s \in SUBSET (1..Len(l)) :
        f[s] = IF s = {} THEN c
               ELSE FriendsAnswerStep[<<f[s \ {Max(s)}], l[Max(s)]>>]
  BY <1>7 DEF Folds
<1>9. \A s \in SUBSET (1..Len(l)) : f[s] = Body(f, s)
  <2> TAKE s \in SUBSET (1..Len(l))
  <2>1. CASE s = {}
    BY <1>8, <2>1 DEF c
  <2>2. CASE s # {}
    <3>1. Max(s) \in 1..Len(l) /\ s \ {Max(s)} \in SUBSET (1..Len(l))
      BY <1>2, <2>2, FewerIndices
    <3>2. f[s \ {Max(s)}] \in V /\ l[Max(s)] \in MessageFields
      BY <1>2, <3>1
    <3>3. FriendsAnswerStep[<<f[s \ {Max(s)}], l[Max(s)]>>]
            = One(f[s \ {Max(s)}], l[Max(s)])
      BY <1>4, <3>2
    <3> QED BY <1>8, <2>2, <3>3
  <2> QED BY <2>1, <2>2
<1>10. f = [s \in SUBSET DOMAIN l |-> Body(f, s)]
  <2> HIDE DEF Body
  <2> QED BY <1>2, <1>9
<1>11. iter = [s \in SUBSET DOMAIN l |-> Body(iter, s)]
  <2> HIDE DEF Body
  <2> QED BY <1>10
<1> HIDE DEF iter
<1>12. \A s \in SUBSET (1..Len(l)) : iter[s] = Body(iter, s)
  <2> HIDE DEF Body
  <2> QED BY <1>2, <1>11
<1>13. f[1..Len(l)] = iter[1..Len(l)]
  <2>1. f[{}] = iter[{}]
    BY <1>9, <1>12
  <2>2. \A s \in SUBSET (1..Len(l)) :
          s # {} /\ f[s \ {Max(s)}] = iter[s \ {Max(s)}] => f[s] = iter[s]
    BY <1>9, <1>12
  <2> QED BY <1>2, <2>1, <2>2, FoldsAgree
<1>14. F!GetFriendsListResponse_InternalParse(m, b) = f[1..Len(l)]
  BY <1>1, <1>2, <1>13
<1> QED BY <1>8, <1>14 DEF Runs, c

-----------------------------------------------------------------------------
(* What is serialized is parsed again.                                     *)

\* What is written for a field is bytes, as many as announced.
LEMMA FieldsAreBytes ==
  ASSUME NEW tag \in {8, 10, 16, 18, 24, 26}
  PROVE  /\ \A v \in Bytes : /\ BytesField(tag, v) \in Bytes
                            /\ BytesField(tag, v) \in Seq(Byte)
                            /\ Len(BytesField(tag, v)) = BytesSize(v)
                            /\ StringField(tag, v) \in Bytes
                            /\ Len(StringField(tag, v))
                                 = 1 + Len(Varint[Len(v)]) + Len(v)
         /\ \A n \in Nat : /\ VarintField(tag, n) \in Bytes
                          /\ VarintField(tag, n) \in Seq(Byte)
                          /\ Len(VarintField(tag, n)) = VarintSize(n)
         /\ \A v \in BOOLEAN : /\ BoolField(tag, v) \in Bytes
                              /\ BoolField(tag, v) \in Seq(Byte)
                              /\ Len(BoolField(tag, v)) = BoolSize(v)
<1>1. <<tag>> \in Seq(Byte) /\ Len(<<tag>>) = 1 /\ << >> \in Bytes /\ Len(<< >>) = 0
  BY EmptyBytes DEF Byte, Bytes
<1>2. \A n \in Nat : Varint[n] \in Seq(Byte) /\ Len(Varint[n]) \in Nat
  BY VarintIs DEF Bytes
<1> DEFINE t == <<tag>>
<1> HIDE DEF t
<1>3. ASSUME NEW n \in Nat
      PROVE  /\ t \o Varint[n] \in Seq(Byte)
             /\ Len(t \o Varint[n]) = 1 + Len(Varint[n])
  BY <1>1, <1>2, Joined DEF t
<1>4. ASSUME NEW v \in Bytes
      PROVE  /\ t \o Varint[Len(v)] \o v \in Seq(Byte)
             /\ Len(t \o Varint[Len(v)] \o v) = 1 + Len(Varint[Len(v)]) + Len(v)
  <2>1. v \in Seq(Byte) /\ Len(v) \in Nat
    BY DEF Bytes
  <2> DEFINE w == t \o Varint[Len(v)]
  <2>2. w \in Seq(Byte) /\ Len(w) = 1 + Len(Varint[Len(v)])
    BY <1>3, <2>1
  <2> HIDE DEF w
  <2>3. w \o v \in Seq(Byte) /\ Len(w \o v) = Len(w) + Len(v)
    <3>1. w \in Seq(Byte)
      BY <2>2
    <3>2. v \in Seq(Byte)
      BY <2>1
    <3> QED BY ONLY <3>1, <3>2, Joined
  <2> QED BY <2>2, <2>3 DEF w
<1>5. ASSUME NEW v \in Bytes
      PROVE  /\ StringField(tag, v) \in Bytes
             /\ Len(StringField(tag, v)) = 1 + Len(Varint[Len(v)]) + Len(v)
             /\ BytesField(tag, v) \in Bytes
             /\ Len(BytesField(tag, v)) = BytesSize(v)
  <2>1. StringField(tag, v) = t \o Varint[Len(v)] \o v
    BY DEF StringField, t
  <2>2. BytesField(tag, v) = IF v = << >> THEN << >> ELSE StringField(tag, v)
    BY DEF BytesField, StringField
  <2>3. StringField(tag, v) \in Bytes
        /\ Len(StringField(tag, v)) = 1 + Len(Varint[Len(v)]) + Len(v)
    BY <1>4, <2>1 DEF Bytes
  <2> QED BY <1>1, <2>2, <2>3 DEF BytesSize
<1>6. ASSUME NEW n \in Nat
      PROVE  /\ VarintField(tag, n) \in Bytes
             /\ Len(VarintField(tag, n)) = VarintSize(n)
  BY <1>1, <1>3 DEF VarintField, VarintSize, Bytes, t
<1>7. ASSUME NEW v \in BOOLEAN
      PROVE  BoolField(tag, v) \in Bytes /\ Len(BoolField(tag, v)) = BoolSize(v)
  <2>1. <<tag, 1>> \in Seq(Byte) /\ Len(<<tag, 1>>) = 2
    BY DEF Byte
  <2> QED BY <1>1, <2>1 DEF BoolField, BoolSize, Bytes
<1> QED BY <1>5, <1>6, <1>7 DEF Bytes

-----------------------------------------------------------------------------
\* What a parse of a request's header gives where bytes lead to.
LEMMA HeaderParsed ==
  ASSUME NEW m \in Headers, NEW b, NEW d, Carries(FieldSet, HeaderStep, b, <<m>>, d)
  PROVE  H!InternalParse(m, b) = d
<1>1. PICK l \in Seq(FieldSet) : Opens(b, l) /\ Moves(HeaderStep, <<m>>, l, d)
  BY DEF Carries
<1>2. Fields[b] = <<l>>
  BY <1>1, OpensRead
<1>3. Runs(HeaderStep, <<m>>, l, H!InternalParse(m, b))
  BY <1>1, <1>2, HeaderRuns
<1> QED BY <1>1, <1>3 DEF Moves

\* What is written of one is merged with what was there.
LEMMA HeaderCarried ==
  ASSUME NEW m \in H!RpcHeader, NEW n \in H!RpcHeader, n.unknown \in Foreign
  PROVE  Carries(FieldSet, HeaderStep, H!InternalSerialize(n), <<m>>,
                 <<H!MergeFrom(m, n)>>)
<1> DEFINE Rec(x1, x2, x3, x4) ==
             [service_name |-> x1,
              method_name |-> x2,
              args_size |-> x3,
              unknown |-> x4]
           e1 == BytesField(10, n.service_name)
           e2 == BytesField(18, n.method_name)
           e3 == VarintField(24, n.args_size)
           y1 == H!Merged(m.service_name, n.service_name, << >>)
           y2 == H!Merged(m.method_name, n.method_name, << >>)
           y3 == H!Merged(m.args_size, n.args_size, 0)
           y4 == m.unknown \o n.unknown
<1>1. /\ m.service_name \in Bytes /\ n.service_name \in Bytes
      /\ m.method_name \in Bytes /\ n.method_name \in Bytes
      /\ m.args_size \in Nat /\ n.args_size \in Nat
      /\ m.unknown \in Bytes /\ n.unknown \in Bytes
  BY DEF H!RpcHeader, H!Byte, Byte, Bytes
<1>2. /\ m = Rec(m.service_name, m.method_name, m.args_size, m.unknown)
      /\ H!MergeFrom(m, n) = Rec(y1, y2, y3, y4)
  BY DEF H!RpcHeader, H!MergeFrom
<1>3. H!InternalSerialize(n) = e1 \o e2 \o e3 \o n.unknown
  BY SameFields DEF H!InternalSerialize
<1>4. y1 \in Bytes /\ y2 \in Bytes /\ y3 \in Nat /\ y4 \in Bytes
  BY <1>1, Joined DEF H!Merged, Bytes
<1>5. \A x1, x2, x3 \in Content : \A u \in Bytes :
        Rec(x1, x2, x3, u) \in Headers
  BY DEF Headers
<1>6. Nat \subseteq Content /\ Bytes \subseteq Content
  BY DEF Content
<1>7. \A r \in Headers : /\ <<r>> \in Results(Headers) /\ <<r>> # Failure
                     /\ <<r>>[1] = r
  BY DEF Results, Failure
<1>8. Carries(FieldSet, HeaderStep, e1,
          <<Rec(m.service_name, m.method_name, m.args_size, m.unknown)>>,
            <<Rec(y1, m.method_name, m.args_size, m.unknown)>>)
  <2> DEFINE f == [tag |-> 10, value |-> n.service_name, raw |-> e1]
             r == Rec(m.service_name, m.method_name, m.args_size, m.unknown)
             s == Rec(y1, m.method_name, m.args_size, m.unknown)
  <2>1. n.service_name = << >> => s = r
    BY DEF H!Merged
  <2>2. ASSUME n.service_name # << >>
        PROVE  f \in FieldSet /\ HeaderStep[<< <<r>>, f>>] = <<s>>
    <3>1. f \in FieldSet /\ f.tag = 10 /\ f.value = n.service_name
      <4>1. e1 \in Bytes
        BY <1>1, FieldsAreBytes
      <4> QED BY <1>1, <4>1 DEF FieldSet
    <3>2. r \in Headers
      BY <1>1, <1>4, <1>5, <1>6
    <3>3. [r EXCEPT !["service_name"] = n.service_name] = s
      BY <2>2 DEF H!Merged
    <3> HIDE DEF f, r, s
    <3>4. HeaderStep[<< <<r>>, f>>]
            = <<[r EXCEPT !["service_name"] = n.service_name]>>
      BY <1>7, <3>1, <3>2 DEF HeaderStep, H!Store
    <3> QED BY <3>1, <3>3, <3>4
  <2> HIDE DEF Rec
  <2> DEFINE c == <<r>>
             d == <<s>>
             v == n.service_name
  <2>3. /\ (v = << >> => d = c)
        /\ (v # << >> => f \in FieldSet /\ HeaderStep[<<c, f>>] = d)
    BY <2>1, <2>2
  <2>4. v \in Bytes /\ 10 \in Tags /\ 10 % 8 = 2
    BY <1>1 DEF Tags
  <2> HIDE DEF c, d, v
  <2>5. e1 = BytesField(10, v) /\ f = [tag |-> 10, value |-> v, raw |-> e1]
    BY DEF v
  <2> HIDE DEF e1, f
  <2>6. Carries(FieldSet, HeaderStep, e1, c, d)
    BY <2>3, <2>4, <2>5, BytesCarried
  <2> QED BY <2>6 DEF c, d
<1>9. Carries(FieldSet, HeaderStep, e2,
              <<Rec(y1, m.method_name, m.args_size, m.unknown)>>,
                <<Rec(y1, y2, m.args_size, m.unknown)>>)
  <2> DEFINE f == [tag |-> 18, value |-> n.method_name, raw |-> e2]
             r == Rec(y1, m.method_name, m.args_size, m.unknown)
             s == Rec(y1, y2, m.args_size, m.unknown)
  <2>1. n.method_name = << >> => s = r
    BY DEF H!Merged
  <2>2. ASSUME n.method_name # << >>
        PROVE  f \in FieldSet /\ HeaderStep[<< <<r>>, f>>] = <<s>>
    <3>1. f \in FieldSet /\ f.tag = 18 /\ f.value = n.method_name
      <4>1. e2 \in Bytes
        BY <1>1, FieldsAreBytes
      <4> QED BY <1>1, <4>1 DEF FieldSet
    <3>2. r \in Headers
      BY <1>1, <1>4, <1>5, <1>6
    <3>3. [r EXCEPT !["method_name"] = n.method_name] = s
      BY <2>2 DEF H!Merged
    <3> HIDE DEF f, r, s
    <3>4. HeaderStep[<< <<r>>, f>>]
            = <<[r EXCEPT !["method_name"] = n.method_name]>>
      BY <1>7, <3>1, <3>2 DEF HeaderStep, H!Store
    <3> QED BY <3>1, <3>3, <3>4
  <2> HIDE DEF Rec
  <2> DEFINE c == <<r>>
             d == <<s>>
             v == n.method_name
  <2>3. /\ (v = << >> => d = c)
        /\ (v # << >> => f \in FieldSet /\ HeaderStep[<<c, f>>] = d)
    BY <2>1, <2>2
  <2>4. v \in Bytes /\ 18 \in Tags /\ 18 % 8 = 2
    BY <1>1 DEF Tags
  <2> HIDE DEF c, d, v
  <2>5. e2 = BytesField(18, v) /\ f = [tag |-> 18, value |-> v, raw |-> e2]
    BY DEF v
  <2> HIDE DEF e2, f
  <2>6. Carries(FieldSet, HeaderStep, e2, c, d)
    BY <2>3, <2>4, <2>5, BytesCarried
  <2> QED BY <2>6 DEF c, d
<1>10. Carries(FieldSet, HeaderStep, e3,
               <<Rec(y1, y2, m.args_size, m.unknown)>>,
                 <<Rec(y1, y2, y3, m.unknown)>>)
  <2> DEFINE f == [tag |-> 24, value |-> n.args_size, raw |-> e3]
             r == Rec(y1, y2, m.args_size, m.unknown)
             s == Rec(y1, y2, y3, m.unknown)
  <2>1. n.args_size = 0 => s = r
    BY DEF H!Merged
  <2>2. ASSUME n.args_size # 0
        PROVE  f \in FieldSet /\ HeaderStep[<< <<r>>, f>>] = <<s>>
    <3>1. f \in FieldSet /\ f.tag = 24 /\ f.value = n.args_size
      <4>1. e3 \in Bytes
        BY <1>1, FieldsAreBytes
      <4> QED BY <1>1, <4>1 DEF FieldSet
    <3>2. r \in Headers
      BY <1>1, <1>4, <1>5, <1>6
    <3>3. [r EXCEPT !["args_size"] = n.args_size] = s
      BY <2>2 DEF H!Merged
    <3> HIDE DEF f, r, s
    <3>4. HeaderStep[<< <<r>>, f>>] = <<[r EXCEPT !["args_size"] = n.args_size]>>
      BY <1>7, <3>1, <3>2 DEF HeaderStep, H!Store
    <3> QED BY <3>1, <3>3, <3>4
  <2> HIDE DEF Rec
  <2> DEFINE c == <<r>>
             d == <<s>>
             v == n.args_size
  <2>3. (v = 0 => d = c) /\ (v # 0 => f \in FieldSet /\ HeaderStep[<<c, f>>] = d)
    BY <2>1, <2>2
  <2>4. v \in Nat /\ 24 \in Tags /\ 24 % 8 = 0
    BY <1>1 DEF Tags
  <2> HIDE DEF c, d, v
  <2>5. e3 = VarintField(24, v) /\ f = [tag |-> 24, value |-> v, raw |-> e3]
    BY DEF v
  <2> HIDE DEF e3, f
  <2>6. Carries(FieldSet, HeaderStep, e3, c, d)
    BY <2>3, <2>4, <2>5, VarintCarried
  <2> QED BY <2>6 DEF c, d
<1>11. Carries(FieldSet, HeaderStep, n.unknown, <<Rec(y1, y2, y3, m.unknown)>>,
               <<Rec(y1, y2, y3, y4)>>)
  <2> DEFINE r == Rec(y1, y2, y3, m.unknown)
             s == Rec(y1, y2, y3, y4)
             c == <<r>>
             d == <<s>>
  <2>1. n.unknown = << >> => d = c
    <3>1. m.unknown \o << >> = m.unknown
      BY <1>1, ConcatEmptySeq DEF Bytes
    <3> QED BY <3>1
  <2>2. ASSUME NEW f \in FieldSet, ForeignTag(f.tag), f.raw = n.unknown
        PROVE  HeaderStep[<<c, f>>] = d
    <3>1. r \in Headers /\ r.unknown = m.unknown
      BY <1>1, <1>4, <1>5, <1>6
    <3>2. [r EXCEPT !["unknown"] = y4] = s
      <4> HIDE DEF y4
      <4> QED OBVIOUS
    <3>3. f.tag # 10 /\ f.tag # 18 /\ f.tag # 24
      BY <2>2 DEF ForeignTag
    <3> HIDE DEF r, s
    <3>4. HeaderStep[<< <<r>>, f>>] = <<[r EXCEPT !["unknown"] = y4]>>
      BY <1>7, <2>2, <3>1, <3>3 DEF HeaderStep, H!Store, H!KeepUnknown
    <3> QED BY <3>2, <3>4
  <2> HIDE DEF c, d
  <2>3. Carries(FieldSet, HeaderStep, n.unknown, c, d)
    BY <2>1, <2>2, ForeignCarried
  <2> QED BY <2>3 DEF c, d
<1> DEFINE c0 == <<m>>
           c1 == <<Rec(y1, m.method_name, m.args_size, m.unknown)>>
           c2 == <<Rec(y1, y2, m.args_size, m.unknown)>>
           c3 == <<Rec(y1, y2, y3, m.unknown)>>
           c4 == <<Rec(y1, y2, y3, y4)>>
<1>12. /\ Carries(FieldSet, HeaderStep, e1, c0, c1)
      /\ Carries(FieldSet, HeaderStep, e2, c1, c2)
      /\ Carries(FieldSet, HeaderStep, e3, c2, c3)
      /\ Carries(FieldSet, HeaderStep, n.unknown, c3, c4)
  <2> HIDE DEF Rec
  <2> QED BY <1>2, <1>8, <1>9, <1>10, <1>11
<1>13. c4 = <<H!MergeFrom(m, n)>>
  BY <1>2
<1> HIDE DEF Rec, e1, e2, e3, c1, c2, c3, c4, c0
<1>14. Carries(FieldSet, HeaderStep, e1 \o e2, c0, c2)
  BY <1>12, <1>12, CarriesOn
<1>15. Carries(FieldSet, HeaderStep, e1 \o e2 \o e3, c0, c3)
  BY <1>12, <1>14, CarriesOn
<1>16. Carries(FieldSet, HeaderStep, e1 \o e2 \o e3 \o n.unknown, c0, c4)
  BY <1>12, <1>15, CarriesOn
<1> QED BY <1>3, <1>13, <1>16 DEF c0

\* Every header whose unknown fields are one number at most (Foreign) is
\* serialized in the size it announces and parsed as it was; two, one behind
\* the other, are parsed as they are merged (rpcheader.pb.cc:149-302).
THEOREM HeaderCodec ==
  ASSUME NEW m \in H!RpcHeader, m.unknown \in Foreign, NEW n \in H!RpcHeader,
         n.unknown \in Foreign
  PROVE  /\ H!InternalParse(H!Clear, H!InternalSerialize(m)) = <<m>>
         /\ H!ByteSizeLong(m) = Len(H!InternalSerialize(m))
         /\ H!CopyFrom(m) = m
         /\ H!InternalParse(H!Clear,
              H!InternalSerialize(m) \o H!InternalSerialize(n))
              = <<H!MergeFrom(m, n)>>
         /\ H!InternalSerialize(m) \in Bytes
<1>1. /\ m.service_name \in Bytes /\ m.method_name \in Bytes
      /\ m.args_size \in Nat /\ m.unknown \in Bytes
  BY DEF H!RpcHeader, H!Byte, Byte, Bytes
<1>2. H!Clear \in H!RpcHeader /\ H!Clear \in Headers
  BY EmptyBytes DEF H!Clear, H!RpcHeader, Headers, H!Byte, Byte, Bytes, Content
<1>3. H!MergeFrom(H!Clear, m) = m
  <2>1. << >> \o m.unknown = m.unknown
    BY <1>1, ConcatEmptySeq DEF Bytes
  <2>2. m
            = [service_name |-> m.service_name, method_name |-> m.method_name,
               args_size |-> m.args_size, unknown |-> m.unknown]
    BY DEF H!RpcHeader
  <2> QED BY <2>1, <2>2, Zenon DEF H!MergeFrom, H!Clear, H!Merged
<1> DEFINE a == H!InternalSerialize(m)
           b == H!InternalSerialize(n)
           c0 == <<H!Clear>>
           c1 == <<m>>
           c2 == <<H!MergeFrom(m, n)>>
<1>4. Carries(FieldSet, HeaderStep, a, c0, c1)
  BY <1>2, <1>3, HeaderCarried
<1>5. Carries(FieldSet, HeaderStep, b, c1, c2)
  BY HeaderCarried
<1>6. H!InternalParse(H!Clear, a) = c1
  <2> HIDE DEF a, c1
  <2> QED BY <1>2, <1>4, HeaderParsed
<1>7. H!InternalParse(H!Clear, a \o b) = c2
  <2> HIDE DEF a, b, c1, c2
  <2>1. Carries(FieldSet, HeaderStep, a \o b, c0, c2)
    BY <1>4, <1>5, CarriesOn
  <2> QED BY <1>2, <2>1, HeaderParsed
<1>8. H!ByteSizeLong(m) = Len(a)
  <2> DEFINE e1 == BytesField(10, m.service_name)
             e2 == BytesField(18, m.method_name)
             e3 == VarintField(24, m.args_size)
  <2>1. a = e1 \o e2 \o e3 \o m.unknown
    BY SameFields DEF H!InternalSerialize
  <2>2. /\ e1 \in Seq(Byte) /\ Len(e1) = BytesSize(m.service_name)
        /\ e2 \in Seq(Byte) /\ Len(e2) = BytesSize(m.method_name)
        /\ e3 \in Seq(Byte) /\ Len(e3) = VarintSize(m.args_size)
    BY <1>1, FieldsAreBytes
  <2>3. H!ByteSizeLong(m)
          = BytesSize(m.service_name) + BytesSize(m.method_name)
            + VarintSize(m.args_size) + Len(m.unknown)
    BY SameFields DEF H!ByteSizeLong
  <2> HIDE DEF a, e1, e2, e3
  <2>4. m.unknown \in Seq(Byte)
    BY <1>1 DEF Bytes
  <2> DEFINE g2 == e1 \o e2
             g3 == g2 \o e3
             g4 == g3 \o m.unknown
  <2>5. g2 \in Seq(Byte) /\ Len(g2) = Len(e1) + Len(e2)
    BY <2>2, <2>4, Joined, Zenon
  <2> HIDE DEF g2
  <2>6. g3 \in Seq(Byte) /\ Len(g3) = Len(g2) + Len(e3)
    BY <2>2, <2>4, <2>5, Joined, Zenon
  <2> HIDE DEF g3
  <2>7. g4 \in Seq(Byte) /\ Len(g4) = Len(g3) + Len(m.unknown)
    BY <2>2, <2>4, <2>6, Joined, Zenon
  <2>8. a = g4
    BY <2>1 DEF g2, g3
  <2> HIDE DEF g4
  <2> QED BY <2>2, <2>3, <2>5, <2>6, <2>7, <2>8
<1>9. a \in Bytes
  BY <1>4, CarriesBytes
<1> QED BY <1>3, <1>6, <1>7, <1>8, <1>9 DEF H!CopyFrom

-----------------------------------------------------------------------------
\* What a parse of a login request gives where bytes lead to.
LEMMA LoginRequestParsed ==
  ASSUME NEW m \in LoginRequests, NEW b, NEW d,
         Carries(FieldSet, LoginRequestStep, b, <<m>>, d)
  PROVE  U!LoginRequest_InternalParse(m, b) = d
<1>1. PICK l \in Seq(FieldSet) : Opens(b, l) /\ Moves(LoginRequestStep, <<m>>, l, d)
  BY DEF Carries
<1>2. Fields[b] = <<l>>
  BY <1>1, OpensRead
<1>3. Runs(LoginRequestStep, <<m>>, l, U!LoginRequest_InternalParse(m, b))
  BY <1>1, <1>2, LoginRequestRuns
<1> QED BY <1>1, <1>3 DEF Moves

\* What is written of one is merged with what was there.
LEMMA LoginRequestCarried ==
  ASSUME NEW m \in U!LoginRequest, NEW n \in U!LoginRequest, n.unknown \in Foreign
  PROVE  Carries(FieldSet, LoginRequestStep,
                 U!LoginRequest_InternalSerialize(n), <<m>>,
                 <<U!LoginRequest_MergeFrom(m, n)>>)
<1> DEFINE Rec(x1, x2, x3) ==
             [name |-> x1,
              pwd |-> x2,
              unknown |-> x3]
           e1 == BytesField(10, n.name)
           e2 == BytesField(18, n.pwd)
           y1 == U!Merged(m.name, n.name, << >>)
           y2 == U!Merged(m.pwd, n.pwd, << >>)
           y3 == m.unknown \o n.unknown
<1>1. /\ m.name \in Bytes /\ n.name \in Bytes
      /\ m.pwd \in Bytes /\ n.pwd \in Bytes
      /\ m.unknown \in Bytes /\ n.unknown \in Bytes
  BY DEF U!LoginRequest, U!Byte, Byte, Bytes, U!Bytes
<1>2. /\ m = Rec(m.name, m.pwd, m.unknown)
      /\ U!LoginRequest_MergeFrom(m, n) = Rec(y1, y2, y3)
  BY DEF U!LoginRequest, U!LoginRequest_MergeFrom
<1>3. U!LoginRequest_InternalSerialize(n) = e1 \o e2 \o n.unknown
  BY SameFields DEF U!LoginRequest_InternalSerialize
<1>4. y1 \in Bytes /\ y2 \in Bytes /\ y3 \in Bytes
  BY <1>1, Joined DEF U!Merged, Bytes
<1>5. \A x1, x2 \in Content : \A u \in Bytes :
        Rec(x1, x2, u) \in LoginRequests
  BY DEF LoginRequests
<1>6. Nat \subseteq Content /\ Bytes \subseteq Content
  BY DEF Content
<1>7. \A r \in LoginRequests : /\ <<r>> \in Results(LoginRequests) /\ <<r>> # Failure
                     /\ <<r>>[1] = r
  BY DEF Results, Failure
<1>8. Carries(FieldSet, LoginRequestStep, e1, <<Rec(m.name, m.pwd, m.unknown)>>,
              <<Rec(y1, m.pwd, m.unknown)>>)
  <2> DEFINE f == [tag |-> 10, value |-> n.name, raw |-> e1]
             r == Rec(m.name, m.pwd, m.unknown)
             s == Rec(y1, m.pwd, m.unknown)
  <2>1. n.name = << >> => s = r
    BY DEF U!Merged
  <2>2. ASSUME n.name # << >>
        PROVE  f \in FieldSet /\ LoginRequestStep[<< <<r>>, f>>] = <<s>>
    <3>1. f \in FieldSet /\ f.tag = 10 /\ f.value = n.name
      <4>1. e1 \in Bytes
        BY <1>1, FieldsAreBytes
      <4> QED BY <1>1, <4>1 DEF FieldSet
    <3>2. r \in LoginRequests
      BY <1>1, <1>4, <1>5, <1>6
    <3>3. [r EXCEPT !["name"] = n.name] = s
      BY <2>2 DEF U!Merged
    <3> HIDE DEF f, r, s
    <3>4. LoginRequestStep[<< <<r>>, f>>] = <<[r EXCEPT !["name"] = n.name]>>
      BY <1>7, <3>1, <3>2 DEF LoginRequestStep, U!Store
    <3> QED BY <3>1, <3>3, <3>4
  <2> HIDE DEF Rec
  <2> DEFINE c == <<r>>
             d == <<s>>
             v == n.name
  <2>3. /\ (v = << >> => d = c)
        /\ (v # << >> => f \in FieldSet /\ LoginRequestStep[<<c, f>>] = d)
    BY <2>1, <2>2
  <2>4. v \in Bytes /\ 10 \in Tags /\ 10 % 8 = 2
    BY <1>1 DEF Tags
  <2> HIDE DEF c, d, v
  <2>5. e1 = BytesField(10, v) /\ f = [tag |-> 10, value |-> v, raw |-> e1]
    BY DEF v
  <2> HIDE DEF e1, f
  <2>6. Carries(FieldSet, LoginRequestStep, e1, c, d)
    BY <2>3, <2>4, <2>5, BytesCarried
  <2> QED BY <2>6 DEF c, d
<1>9. Carries(FieldSet, LoginRequestStep, e2, <<Rec(y1, m.pwd, m.unknown)>>,
              <<Rec(y1, y2, m.unknown)>>)
  <2> DEFINE f == [tag |-> 18, value |-> n.pwd, raw |-> e2]
             r == Rec(y1, m.pwd, m.unknown)
             s == Rec(y1, y2, m.unknown)
  <2>1. n.pwd = << >> => s = r
    BY DEF U!Merged
  <2>2. ASSUME n.pwd # << >>
        PROVE  f \in FieldSet /\ LoginRequestStep[<< <<r>>, f>>] = <<s>>
    <3>1. f \in FieldSet /\ f.tag = 18 /\ f.value = n.pwd
      <4>1. e2 \in Bytes
        BY <1>1, FieldsAreBytes
      <4> QED BY <1>1, <4>1 DEF FieldSet
    <3>2. r \in LoginRequests
      BY <1>1, <1>4, <1>5, <1>6
    <3>3. [r EXCEPT !["pwd"] = n.pwd] = s
      BY <2>2 DEF U!Merged
    <3> HIDE DEF f, r, s
    <3>4. LoginRequestStep[<< <<r>>, f>>] = <<[r EXCEPT !["pwd"] = n.pwd]>>
      BY <1>7, <3>1, <3>2 DEF LoginRequestStep, U!Store
    <3> QED BY <3>1, <3>3, <3>4
  <2> HIDE DEF Rec
  <2> DEFINE c == <<r>>
             d == <<s>>
             v == n.pwd
  <2>3. /\ (v = << >> => d = c)
        /\ (v # << >> => f \in FieldSet /\ LoginRequestStep[<<c, f>>] = d)
    BY <2>1, <2>2
  <2>4. v \in Bytes /\ 18 \in Tags /\ 18 % 8 = 2
    BY <1>1 DEF Tags
  <2> HIDE DEF c, d, v
  <2>5. e2 = BytesField(18, v) /\ f = [tag |-> 18, value |-> v, raw |-> e2]
    BY DEF v
  <2> HIDE DEF e2, f
  <2>6. Carries(FieldSet, LoginRequestStep, e2, c, d)
    BY <2>3, <2>4, <2>5, BytesCarried
  <2> QED BY <2>6 DEF c, d
<1>10. Carries(FieldSet, LoginRequestStep, n.unknown,
               <<Rec(y1, y2, m.unknown)>>, <<Rec(y1, y2, y3)>>)
  <2> DEFINE r == Rec(y1, y2, m.unknown)
             s == Rec(y1, y2, y3)
             c == <<r>>
             d == <<s>>
  <2>1. n.unknown = << >> => d = c
    <3>1. m.unknown \o << >> = m.unknown
      BY <1>1, ConcatEmptySeq DEF Bytes
    <3> QED BY <3>1
  <2>2. ASSUME NEW f \in FieldSet, ForeignTag(f.tag), f.raw = n.unknown
        PROVE  LoginRequestStep[<<c, f>>] = d
    <3>1. r \in LoginRequests /\ r.unknown = m.unknown
      BY <1>1, <1>4, <1>5, <1>6
    <3>2. [r EXCEPT !["unknown"] = y3] = s
      <4> HIDE DEF y3
      <4> QED OBVIOUS
    <3>3. f.tag # 10 /\ f.tag # 18
      BY <2>2 DEF ForeignTag
    <3> HIDE DEF r, s
    <3>4. LoginRequestStep[<< <<r>>, f>>] = <<[r EXCEPT !["unknown"] = y3]>>
      BY <1>7, <2>2, <3>1, <3>3 DEF LoginRequestStep, U!Store, U!KeepUnknown
    <3> QED BY <3>2, <3>4
  <2> HIDE DEF c, d
  <2>3. Carries(FieldSet, LoginRequestStep, n.unknown, c, d)
    BY <2>1, <2>2, ForeignCarried
  <2> QED BY <2>3 DEF c, d
<1> DEFINE c0 == <<m>>
           c1 == <<Rec(y1, m.pwd, m.unknown)>>
           c2 == <<Rec(y1, y2, m.unknown)>>
           c3 == <<Rec(y1, y2, y3)>>
<1>11. /\ Carries(FieldSet, LoginRequestStep, e1, c0, c1)
      /\ Carries(FieldSet, LoginRequestStep, e2, c1, c2)
      /\ Carries(FieldSet, LoginRequestStep, n.unknown, c2, c3)
  <2> HIDE DEF Rec
  <2> QED BY <1>2, <1>8, <1>9, <1>10
<1>12. c3 = <<U!LoginRequest_MergeFrom(m, n)>>
  BY <1>2
<1> HIDE DEF Rec, e1, e2, c1, c2, c3, c0
<1>13. Carries(FieldSet, LoginRequestStep, e1 \o e2, c0, c2)
  BY <1>11, <1>11, CarriesOn
<1>14. Carries(FieldSet, LoginRequestStep, e1 \o e2 \o n.unknown, c0, c3)
  BY <1>11, <1>13, CarriesOn
<1> QED BY <1>3, <1>12, <1>14 DEF c0

\* The same of every login request (user.pb.cc:491-621).
THEOREM LoginRequestCodec ==
  ASSUME NEW m \in U!LoginRequest, m.unknown \in Foreign,
         NEW n \in U!LoginRequest, n.unknown \in Foreign
  PROVE  /\ U!LoginRequest_InternalParse(U!LoginRequest_Clear,
              U!LoginRequest_InternalSerialize(m)) = <<m>>
         /\ U!LoginRequest_ByteSizeLong(m)
              = Len(U!LoginRequest_InternalSerialize(m))
         /\ U!LoginRequest_CopyFrom(m) = m
         /\ U!LoginRequest_InternalParse(U!LoginRequest_Clear,
              U!LoginRequest_InternalSerialize(m)
                \o U!LoginRequest_InternalSerialize(n))
              = <<U!LoginRequest_MergeFrom(m, n)>>
         /\ U!LoginRequest_InternalSerialize(m) \in Bytes
<1>1. /\ m.name \in Bytes /\ m.pwd \in Bytes /\ m.unknown \in Bytes
  BY DEF U!LoginRequest, U!Byte, Byte, Bytes, U!Bytes
<1>2. /\ U!LoginRequest_Clear \in U!LoginRequest
      /\ U!LoginRequest_Clear \in LoginRequests
  BY EmptyBytes
  DEF U!LoginRequest_Clear, U!LoginRequest, LoginRequests, U!Byte, Byte, Bytes,
      Content, U!Bytes
<1>3. U!LoginRequest_MergeFrom(U!LoginRequest_Clear, m) = m
  <2>1. << >> \o m.unknown = m.unknown
    BY <1>1, ConcatEmptySeq DEF Bytes
  <2>2. m = [name |-> m.name, pwd |-> m.pwd, unknown |-> m.unknown]
    BY DEF U!LoginRequest
  <2> QED BY <2>1, <2>2, Zenon
          DEF U!LoginRequest_MergeFrom, U!LoginRequest_Clear, U!Merged
<1> DEFINE a == U!LoginRequest_InternalSerialize(m)
           b == U!LoginRequest_InternalSerialize(n)
           c0 == <<U!LoginRequest_Clear>>
           c1 == <<m>>
           c2 == <<U!LoginRequest_MergeFrom(m, n)>>
<1>4. Carries(FieldSet, LoginRequestStep, a, c0, c1)
  BY <1>2, <1>3, LoginRequestCarried
<1>5. Carries(FieldSet, LoginRequestStep, b, c1, c2)
  BY LoginRequestCarried
<1>6. U!LoginRequest_InternalParse(U!LoginRequest_Clear, a) = c1
  <2> HIDE DEF a, c1
  <2> QED BY <1>2, <1>4, LoginRequestParsed
<1>7. U!LoginRequest_InternalParse(U!LoginRequest_Clear, a \o b) = c2
  <2> HIDE DEF a, b, c1, c2
  <2>1. Carries(FieldSet, LoginRequestStep, a \o b, c0, c2)
    BY <1>4, <1>5, CarriesOn
  <2> QED BY <1>2, <2>1, LoginRequestParsed
<1>8. U!LoginRequest_ByteSizeLong(m) = Len(a)
  <2> DEFINE e1 == BytesField(10, m.name)
             e2 == BytesField(18, m.pwd)
  <2>1. a = e1 \o e2 \o m.unknown
    BY SameFields DEF U!LoginRequest_InternalSerialize
  <2>2. /\ e1 \in Seq(Byte) /\ Len(e1) = BytesSize(m.name)
        /\ e2 \in Seq(Byte) /\ Len(e2) = BytesSize(m.pwd)
    BY <1>1, FieldsAreBytes
  <2>3. U!LoginRequest_ByteSizeLong(m)
          = BytesSize(m.name) + BytesSize(m.pwd) + Len(m.unknown)
    BY SameFields DEF U!LoginRequest_ByteSizeLong
  <2> HIDE DEF a, e1, e2
  <2>4. m.unknown \in Seq(Byte)
    BY <1>1 DEF Bytes
  <2> DEFINE g2 == e1 \o e2
             g3 == g2 \o m.unknown
  <2>5. g2 \in Seq(Byte) /\ Len(g2) = Len(e1) + Len(e2)
    BY <2>2, <2>4, Joined, Zenon
  <2> HIDE DEF g2
  <2>6. g3 \in Seq(Byte) /\ Len(g3) = Len(g2) + Len(m.unknown)
    BY <2>2, <2>4, <2>5, Joined, Zenon
  <2>7. a = g3
    BY <2>1 DEF g2
  <2> HIDE DEF g3
  <2> QED BY <2>2, <2>3, <2>5, <2>6, <2>7
<1>9. a \in Bytes
  BY <1>4, CarriesBytes
<1> QED BY <1>3, <1>6, <1>7, <1>8, <1>9 DEF U!LoginRequest_CopyFrom

-----------------------------------------------------------------------------
\* What a parse of a register request gives where bytes lead to.
LEMMA RegisterRequestParsed ==
  ASSUME NEW m \in RegisterRequests, NEW b, NEW d,
         Carries(FieldSet, RegisterRequestStep, b, <<m>>, d)
  PROVE  U!RegisterRequest_InternalParse(m, b) = d
<1>1. PICK l \in Seq(FieldSet) : Opens(b, l) /\ Moves(RegisterRequestStep,
                                                      <<m>>, l, d)
  BY DEF Carries
<1>2. Fields[b] = <<l>>
  BY <1>1, OpensRead
<1>3. Runs(RegisterRequestStep, <<m>>, l, U!RegisterRequest_InternalParse(m, b))
  BY <1>1, <1>2, RegisterRequestRuns
<1> QED BY <1>1, <1>3 DEF Moves

\* What is written of one is merged with what was there.
LEMMA RegisterRequestCarried ==
  ASSUME NEW m \in U!RegisterRequest, NEW n \in U!RegisterRequest,
         n.unknown \in Foreign
  PROVE  Carries(FieldSet, RegisterRequestStep,
                 U!RegisterRequest_InternalSerialize(n), <<m>>,
                 <<U!RegisterRequest_MergeFrom(m, n)>>)
<1> DEFINE Rec(x1, x2, x3, x4) ==
             [id |-> x1,
              name |-> x2,
              pwd |-> x3,
              unknown |-> x4]
           e1 == VarintField(8, n.id)
           e2 == BytesField(18, n.name)
           e3 == BytesField(26, n.pwd)
           y1 == U!Merged(m.id, n.id, 0)
           y2 == U!Merged(m.name, n.name, << >>)
           y3 == U!Merged(m.pwd, n.pwd, << >>)
           y4 == m.unknown \o n.unknown
<1>1. /\ m.id \in Nat /\ n.id \in Nat
      /\ m.name \in Bytes /\ n.name \in Bytes
      /\ m.pwd \in Bytes /\ n.pwd \in Bytes
      /\ m.unknown \in Bytes /\ n.unknown \in Bytes
  BY DEF U!RegisterRequest, U!Byte, Byte, Bytes, U!Bytes
<1>2. /\ m = Rec(m.id, m.name, m.pwd, m.unknown)
      /\ U!RegisterRequest_MergeFrom(m, n) = Rec(y1, y2, y3, y4)
  BY DEF U!RegisterRequest, U!RegisterRequest_MergeFrom
<1>3. U!RegisterRequest_InternalSerialize(n) = e1 \o e2 \o e3 \o n.unknown
  BY SameFields DEF U!RegisterRequest_InternalSerialize
<1>4. y1 \in Nat /\ y2 \in Bytes /\ y3 \in Bytes /\ y4 \in Bytes
  BY <1>1, Joined DEF U!Merged, Bytes
<1>5. \A x1, x2, x3 \in Content : \A u \in Bytes :
        Rec(x1, x2, x3, u) \in RegisterRequests
  BY DEF RegisterRequests
<1>6. Nat \subseteq Content /\ Bytes \subseteq Content
  BY DEF Content
<1>7. \A r \in RegisterRequests : /\ <<r>> \in Results(RegisterRequests) /\ <<r>> # Failure
                     /\ <<r>>[1] = r
  BY DEF Results, Failure
<1>8. Carries(FieldSet, RegisterRequestStep, e1,
              <<Rec(m.id, m.name, m.pwd, m.unknown)>>,
                <<Rec(y1, m.name, m.pwd, m.unknown)>>)
  <2> DEFINE f == [tag |-> 8, value |-> n.id, raw |-> e1]
             r == Rec(m.id, m.name, m.pwd, m.unknown)
             s == Rec(y1, m.name, m.pwd, m.unknown)
  <2>1. n.id = 0 => s = r
    BY DEF U!Merged
  <2>2. ASSUME n.id # 0
        PROVE  f \in FieldSet /\ RegisterRequestStep[<< <<r>>, f>>] = <<s>>
    <3>1. f \in FieldSet /\ f.tag = 8 /\ f.value = n.id
      <4>1. e1 \in Bytes
        BY <1>1, FieldsAreBytes
      <4> QED BY <1>1, <4>1 DEF FieldSet
    <3>2. r \in RegisterRequests
      BY <1>1, <1>4, <1>5, <1>6
    <3>3. [r EXCEPT !["id"] = n.id] = s
      BY <2>2 DEF U!Merged
    <3> HIDE DEF f, r, s
    <3>4. RegisterRequestStep[<< <<r>>, f>>] = <<[r EXCEPT !["id"] = n.id]>>
      BY <1>7, <3>1, <3>2 DEF RegisterRequestStep, U!Store
    <3> QED BY <3>1, <3>3, <3>4
  <2> HIDE DEF Rec
  <2> DEFINE c == <<r>>
             d == <<s>>
             v == n.id
  <2>3. /\ (v = 0 => d = c)
        /\ (v # 0 => f \in FieldSet /\ RegisterRequestStep[<<c, f>>] = d)
    BY <2>1, <2>2
  <2>4. v \in Nat /\ 8 \in Tags /\ 8 % 8 = 0
    BY <1>1 DEF Tags
  <2> HIDE DEF c, d, v
  <2>5. e1 = VarintField(8, v) /\ f = [tag |-> 8, value |-> v, raw |-> e1]
    BY DEF v
  <2> HIDE DEF e1, f
  <2>6. Carries(FieldSet, RegisterRequestStep, e1, c, d)
    BY <2>3, <2>4, <2>5, VarintCarried
  <2> QED BY <2>6 DEF c, d
<1>9. Carries(FieldSet, RegisterRequestStep, e2,
              <<Rec(y1, m.name, m.pwd, m.unknown)>>,
                <<Rec(y1, y2, m.pwd, m.unknown)>>)
  <2> DEFINE f == [tag |-> 18, value |-> n.name, raw |-> e2]
             r == Rec(y1, m.name, m.pwd, m.unknown)
             s == Rec(y1, y2, m.pwd, m.unknown)
  <2>1. n.name = << >> => s = r
    BY DEF U!Merged
  <2>2. ASSUME n.name # << >>
        PROVE  f \in FieldSet /\ RegisterRequestStep[<< <<r>>, f>>] = <<s>>
    <3>1. f \in FieldSet /\ f.tag = 18 /\ f.value = n.name
      <4>1. e2 \in Bytes
        BY <1>1, FieldsAreBytes
      <4> QED BY <1>1, <4>1 DEF FieldSet
    <3>2. r \in RegisterRequests
      BY <1>1, <1>4, <1>5, <1>6
    <3>3. [r EXCEPT !["name"] = n.name] = s
      BY <2>2 DEF U!Merged
    <3> HIDE DEF f, r, s
    <3>4. RegisterRequestStep[<< <<r>>, f>>] = <<[r EXCEPT !["name"] = n.name]>>
      BY <1>7, <3>1, <3>2 DEF RegisterRequestStep, U!Store
    <3> QED BY <3>1, <3>3, <3>4
  <2> HIDE DEF Rec
  <2> DEFINE c == <<r>>
             d == <<s>>
             v == n.name
  <2>3. /\ (v = << >> => d = c)
        /\ (v # << >> => f \in FieldSet /\ RegisterRequestStep[<<c, f>>] = d)
    BY <2>1, <2>2
  <2>4. v \in Bytes /\ 18 \in Tags /\ 18 % 8 = 2
    BY <1>1 DEF Tags
  <2> HIDE DEF c, d, v
  <2>5. e2 = BytesField(18, v) /\ f = [tag |-> 18, value |-> v, raw |-> e2]
    BY DEF v
  <2> HIDE DEF e2, f
  <2>6. Carries(FieldSet, RegisterRequestStep, e2, c, d)
    BY <2>3, <2>4, <2>5, BytesCarried
  <2> QED BY <2>6 DEF c, d
<1>10. Carries(FieldSet, RegisterRequestStep, e3,
               <<Rec(y1, y2, m.pwd, m.unknown)>>, <<Rec(y1, y2, y3, m.unknown)>>)
  <2> DEFINE f == [tag |-> 26, value |-> n.pwd, raw |-> e3]
             r == Rec(y1, y2, m.pwd, m.unknown)
             s == Rec(y1, y2, y3, m.unknown)
  <2>1. n.pwd = << >> => s = r
    BY DEF U!Merged
  <2>2. ASSUME n.pwd # << >>
        PROVE  f \in FieldSet /\ RegisterRequestStep[<< <<r>>, f>>] = <<s>>
    <3>1. f \in FieldSet /\ f.tag = 26 /\ f.value = n.pwd
      <4>1. e3 \in Bytes
        BY <1>1, FieldsAreBytes
      <4> QED BY <1>1, <4>1 DEF FieldSet
    <3>2. r \in RegisterRequests
      BY <1>1, <1>4, <1>5, <1>6
    <3>3. [r EXCEPT !["pwd"] = n.pwd] = s
      BY <2>2 DEF U!Merged
    <3> HIDE DEF f, r, s
    <3>4. RegisterRequestStep[<< <<r>>, f>>] = <<[r EXCEPT !["pwd"] = n.pwd]>>
      BY <1>7, <3>1, <3>2 DEF RegisterRequestStep, U!Store
    <3> QED BY <3>1, <3>3, <3>4
  <2> HIDE DEF Rec
  <2> DEFINE c == <<r>>
             d == <<s>>
             v == n.pwd
  <2>3. /\ (v = << >> => d = c)
        /\ (v # << >> => f \in FieldSet /\ RegisterRequestStep[<<c, f>>] = d)
    BY <2>1, <2>2
  <2>4. v \in Bytes /\ 26 \in Tags /\ 26 % 8 = 2
    BY <1>1 DEF Tags
  <2> HIDE DEF c, d, v
  <2>5. e3 = BytesField(26, v) /\ f = [tag |-> 26, value |-> v, raw |-> e3]
    BY DEF v
  <2> HIDE DEF e3, f
  <2>6. Carries(FieldSet, RegisterRequestStep, e3, c, d)
    BY <2>3, <2>4, <2>5, BytesCarried
  <2> QED BY <2>6 DEF c, d
<1>11. Carries(FieldSet, RegisterRequestStep, n.unknown,
               <<Rec(y1, y2, y3, m.unknown)>>, <<Rec(y1, y2, y3, y4)>>)
  <2> DEFINE r == Rec(y1, y2, y3, m.unknown)
             s == Rec(y1, y2, y3, y4)
             c == <<r>>
             d == <<s>>
  <2>1. n.unknown = << >> => d = c
    <3>1. m.unknown \o << >> = m.unknown
      BY <1>1, ConcatEmptySeq DEF Bytes
    <3> QED BY <3>1
  <2>2. ASSUME NEW f \in FieldSet, ForeignTag(f.tag), f.raw = n.unknown
        PROVE  RegisterRequestStep[<<c, f>>] = d
    <3>1. r \in RegisterRequests /\ r.unknown = m.unknown
      BY <1>1, <1>4, <1>5, <1>6
    <3>2. [r EXCEPT !["unknown"] = y4] = s
      <4> HIDE DEF y4
      <4> QED OBVIOUS
    <3>3. f.tag # 8 /\ f.tag # 18 /\ f.tag # 26
      BY <2>2 DEF ForeignTag
    <3> HIDE DEF r, s
    <3>4. RegisterRequestStep[<< <<r>>, f>>] = <<[r EXCEPT !["unknown"] = y4]>>
      BY <1>7, <2>2, <3>1, <3>3 DEF RegisterRequestStep, U!Store, U!KeepUnknown
    <3> QED BY <3>2, <3>4
  <2> HIDE DEF c, d
  <2>3. Carries(FieldSet, RegisterRequestStep, n.unknown, c, d)
    BY <2>1, <2>2, ForeignCarried
  <2> QED BY <2>3 DEF c, d
<1> DEFINE c0 == <<m>>
           c1 == <<Rec(y1, m.name, m.pwd, m.unknown)>>
           c2 == <<Rec(y1, y2, m.pwd, m.unknown)>>
           c3 == <<Rec(y1, y2, y3, m.unknown)>>
           c4 == <<Rec(y1, y2, y3, y4)>>
<1>12. /\ Carries(FieldSet, RegisterRequestStep, e1, c0, c1)
      /\ Carries(FieldSet, RegisterRequestStep, e2, c1, c2)
      /\ Carries(FieldSet, RegisterRequestStep, e3, c2, c3)
      /\ Carries(FieldSet, RegisterRequestStep, n.unknown, c3, c4)
  <2> HIDE DEF Rec
  <2> QED BY <1>2, <1>8, <1>9, <1>10, <1>11
<1>13. c4 = <<U!RegisterRequest_MergeFrom(m, n)>>
  BY <1>2
<1> HIDE DEF Rec, e1, e2, e3, c1, c2, c3, c4, c0
<1>14. Carries(FieldSet, RegisterRequestStep, e1 \o e2, c0, c2)
  BY <1>12, <1>12, CarriesOn
<1>15. Carries(FieldSet, RegisterRequestStep, e1 \o e2 \o e3, c0, c3)
  BY <1>12, <1>14, CarriesOn
<1>16. Carries(FieldSet, RegisterRequestStep, e1 \o e2 \o e3 \o n.unknown, c0, c4)
  BY <1>12, <1>15, CarriesOn
<1> QED BY <1>3, <1>13, <1>16 DEF c0

\* The same of every register request (user.pb.cc:952-1105).
THEOREM RegisterRequestCodec ==
  ASSUME NEW m \in U!RegisterRequest, m.unknown \in Foreign,
         NEW n \in U!RegisterRequest, n.unknown \in Foreign
  PROVE  /\ U!RegisterRequest_InternalParse(U!RegisterRequest_Clear,
              U!RegisterRequest_InternalSerialize(m)) = <<m>>
         /\ U!RegisterRequest_ByteSizeLong(m)
              = Len(U!RegisterRequest_InternalSerialize(m))
         /\ U!RegisterRequest_CopyFrom(m) = m
         /\ U!RegisterRequest_InternalParse(U!RegisterRequest_Clear,
              U!RegisterRequest_InternalSerialize(m)
                \o U!RegisterRequest_InternalSerialize(n))
              = <<U!RegisterRequest_MergeFrom(m, n)>>
         /\ U!RegisterRequest_InternalSerialize(m) \in Bytes
<1>1. /\ m.id \in Nat /\ m.name \in Bytes /\ m.pwd \in Bytes /\ m.unknown \in Bytes
  BY DEF U!RegisterRequest, U!Byte, Byte, Bytes, U!Bytes
<1>2. /\ U!RegisterRequest_Clear \in U!RegisterRequest
      /\ U!RegisterRequest_Clear \in RegisterRequests
  BY EmptyBytes
  DEF U!RegisterRequest_Clear, U!RegisterRequest, RegisterRequests, U!Byte,
      Byte, Bytes, Content, U!Bytes
<1>3. U!RegisterRequest_MergeFrom(U!RegisterRequest_Clear, m) = m
  <2>1. << >> \o m.unknown = m.unknown
    BY <1>1, ConcatEmptySeq DEF Bytes
  <2>2. m = [id |-> m.id, name |-> m.name, pwd |-> m.pwd, unknown |-> m.unknown]
    BY DEF U!RegisterRequest
  <2> QED BY <2>1, <2>2, Zenon
          DEF U!RegisterRequest_MergeFrom, U!RegisterRequest_Clear, U!Merged
<1> DEFINE a == U!RegisterRequest_InternalSerialize(m)
           b == U!RegisterRequest_InternalSerialize(n)
           c0 == <<U!RegisterRequest_Clear>>
           c1 == <<m>>
           c2 == <<U!RegisterRequest_MergeFrom(m, n)>>
<1>4. Carries(FieldSet, RegisterRequestStep, a, c0, c1)
  BY <1>2, <1>3, RegisterRequestCarried
<1>5. Carries(FieldSet, RegisterRequestStep, b, c1, c2)
  BY RegisterRequestCarried
<1>6. U!RegisterRequest_InternalParse(U!RegisterRequest_Clear, a) = c1
  <2> HIDE DEF a, c1
  <2> QED BY <1>2, <1>4, RegisterRequestParsed
<1>7. U!RegisterRequest_InternalParse(U!RegisterRequest_Clear, a \o b) = c2
  <2> HIDE DEF a, b, c1, c2
  <2>1. Carries(FieldSet, RegisterRequestStep, a \o b, c0, c2)
    BY <1>4, <1>5, CarriesOn
  <2> QED BY <1>2, <2>1, RegisterRequestParsed
<1>8. U!RegisterRequest_ByteSizeLong(m) = Len(a)
  <2> DEFINE e1 == VarintField(8, m.id)
             e2 == BytesField(18, m.name)
             e3 == BytesField(26, m.pwd)
  <2>1. a = e1 \o e2 \o e3 \o m.unknown
    BY SameFields DEF U!RegisterRequest_InternalSerialize
  <2>2. /\ e1 \in Seq(Byte) /\ Len(e1) = VarintSize(m.id)
        /\ e2 \in Seq(Byte) /\ Len(e2) = BytesSize(m.name)
        /\ e3 \in Seq(Byte) /\ Len(e3) = BytesSize(m.pwd)
    BY <1>1, FieldsAreBytes
  <2>3. U!RegisterRequest_ByteSizeLong(m)
          = VarintSize(m.id) + BytesSize(m.name) + BytesSize(m.pwd) + Len(m.unknown)
    BY SameFields DEF U!RegisterRequest_ByteSizeLong
  <2> HIDE DEF a, e1, e2, e3
  <2>4. m.unknown \in Seq(Byte)
    BY <1>1 DEF Bytes
  <2> DEFINE g2 == e1 \o e2
             g3 == g2 \o e3
             g4 == g3 \o m.unknown
  <2>5. g2 \in Seq(Byte) /\ Len(g2) = Len(e1) + Len(e2)
    BY <2>2, <2>4, Joined, Zenon
  <2> HIDE DEF g2
  <2>6. g3 \in Seq(Byte) /\ Len(g3) = Len(g2) + Len(e3)
    BY <2>2, <2>4, <2>5, Joined, Zenon
  <2> HIDE DEF g3
  <2>7. g4 \in Seq(Byte) /\ Len(g4) = Len(g3) + Len(m.unknown)
    BY <2>2, <2>4, <2>6, Joined, Zenon
  <2>8. a = g4
    BY <2>1 DEF g2, g3
  <2> HIDE DEF g4
  <2> QED BY <2>2, <2>3, <2>5, <2>6, <2>7, <2>8
<1>9. a \in Bytes
  BY <1>4, CarriesBytes
<1> QED BY <1>3, <1>6, <1>7, <1>8, <1>9 DEF U!RegisterRequest_CopyFrom

-----------------------------------------------------------------------------
\* What a parse of a request for a list of friends gives where bytes lead to.
LEMMA FriendsRequestParsed ==
  ASSUME NEW m \in FriendsRequests, NEW b, NEW d,
         Carries(FieldSet, FriendsRequestStep, b, <<m>>, d)
  PROVE  F!GetFriendsListRequest_InternalParse(m, b) = d
<1>1. PICK l \in Seq(FieldSet) : Opens(b, l) /\ Moves(FriendsRequestStep, <<m>>,
                                                      l, d)
  BY DEF Carries
<1>2. Fields[b] = <<l>>
  BY <1>1, OpensRead
<1>3. Runs(FriendsRequestStep, <<m>>, l,
           F!GetFriendsListRequest_InternalParse(m, b))
  BY <1>1, <1>2, FriendsRequestRuns
<1> QED BY <1>1, <1>3 DEF Moves

\* What is written of one is merged with what was there.
LEMMA FriendsRequestCarried ==
  ASSUME NEW m \in F!GetFriendsListRequest, NEW n \in F!GetFriendsListRequest,
         n.unknown \in Foreign
  PROVE  Carries(FieldSet, FriendsRequestStep,
                 F!GetFriendsListRequest_InternalSerialize(n), <<m>>,
                 <<F!GetFriendsListRequest_MergeFrom(m, n)>>)
<1> DEFINE Rec(x1, x2) ==
             [userid |-> x1,
              unknown |-> x2]
           e1 == VarintField(8, n.userid)
           y1 == F!Merged(m.userid, n.userid, 0)
           y2 == m.unknown \o n.unknown
<1>1. /\ m.userid \in Nat /\ n.userid \in Nat
      /\ m.unknown \in Bytes /\ n.unknown \in Bytes
  BY DEF F!GetFriendsListRequest, F!Byte, Byte, Bytes, F!Bytes
<1>2. /\ m = Rec(m.userid, m.unknown)
      /\ F!GetFriendsListRequest_MergeFrom(m, n) = Rec(y1, y2)
  BY DEF F!GetFriendsListRequest, F!GetFriendsListRequest_MergeFrom
<1>3. F!GetFriendsListRequest_InternalSerialize(n) = e1 \o n.unknown
  BY SameFields DEF F!GetFriendsListRequest_InternalSerialize
<1>4. y1 \in Nat /\ y2 \in Bytes
  BY <1>1, Joined DEF F!Merged, Bytes
<1>5. \A x1 \in Content : \A u \in Bytes :
        Rec(x1, u) \in FriendsRequests
  BY DEF FriendsRequests
<1>6. Nat \subseteq Content /\ Bytes \subseteq Content
  BY DEF Content
<1>7. \A r \in FriendsRequests : /\ <<r>> \in Results(FriendsRequests) /\ <<r>> # Failure
                     /\ <<r>>[1] = r
  BY DEF Results, Failure
<1>8. Carries(FieldSet, FriendsRequestStep, e1, <<Rec(m.userid, m.unknown)>>,
              <<Rec(y1, m.unknown)>>)
  <2> DEFINE f == [tag |-> 8, value |-> n.userid, raw |-> e1]
             r == Rec(m.userid, m.unknown)
             s == Rec(y1, m.unknown)
  <2>1. n.userid = 0 => s = r
    BY DEF F!Merged
  <2>2. ASSUME n.userid # 0
        PROVE  f \in FieldSet /\ FriendsRequestStep[<< <<r>>, f>>] = <<s>>
    <3>1. f \in FieldSet /\ f.tag = 8 /\ f.value = n.userid
      <4>1. e1 \in Bytes
        BY <1>1, FieldsAreBytes
      <4> QED BY <1>1, <4>1 DEF FieldSet
    <3>2. r \in FriendsRequests
      BY <1>1, <1>4, <1>5, <1>6
    <3>3. [r EXCEPT !["userid"] = n.userid] = s
      BY <2>2 DEF F!Merged
    <3> HIDE DEF f, r, s
    <3>4. FriendsRequestStep[<< <<r>>, f>>] = <<[r EXCEPT !["userid"] = n.userid]>>
      BY <1>7, <3>1, <3>2 DEF FriendsRequestStep, F!Store
    <3> QED BY <3>1, <3>3, <3>4
  <2> HIDE DEF Rec
  <2> DEFINE c == <<r>>
             d == <<s>>
             v == n.userid
  <2>3. /\ (v = 0 => d = c)
        /\ (v # 0 => f \in FieldSet /\ FriendsRequestStep[<<c, f>>] = d)
    BY <2>1, <2>2
  <2>4. v \in Nat /\ 8 \in Tags /\ 8 % 8 = 0
    BY <1>1 DEF Tags
  <2> HIDE DEF c, d, v
  <2>5. e1 = VarintField(8, v) /\ f = [tag |-> 8, value |-> v, raw |-> e1]
    BY DEF v
  <2> HIDE DEF e1, f
  <2>6. Carries(FieldSet, FriendsRequestStep, e1, c, d)
    BY <2>3, <2>4, <2>5, VarintCarried
  <2> QED BY <2>6 DEF c, d
<1>9. Carries(FieldSet, FriendsRequestStep, n.unknown, <<Rec(y1, m.unknown)>>,
              <<Rec(y1, y2)>>)
  <2> DEFINE r == Rec(y1, m.unknown)
             s == Rec(y1, y2)
             c == <<r>>
             d == <<s>>
  <2>1. n.unknown = << >> => d = c
    <3>1. m.unknown \o << >> = m.unknown
      BY <1>1, ConcatEmptySeq DEF Bytes
    <3> QED BY <3>1
  <2>2. ASSUME NEW f \in FieldSet, ForeignTag(f.tag), f.raw = n.unknown
        PROVE  FriendsRequestStep[<<c, f>>] = d
    <3>1. r \in FriendsRequests /\ r.unknown = m.unknown
      BY <1>1, <1>4, <1>5, <1>6
    <3>2. [r EXCEPT !["unknown"] = y2] = s
      <4> HIDE DEF y2
      <4> QED OBVIOUS
    <3>3. f.tag # 8
      BY <2>2 DEF ForeignTag
    <3> HIDE DEF r, s
    <3>4. FriendsRequestStep[<< <<r>>, f>>] = <<[r EXCEPT !["unknown"] = y2]>>
      BY <1>7, <2>2, <3>1, <3>3 DEF FriendsRequestStep, F!Store, F!KeepUnknown
    <3> QED BY <3>2, <3>4
  <2> HIDE DEF c, d
  <2>3. Carries(FieldSet, FriendsRequestStep, n.unknown, c, d)
    BY <2>1, <2>2, ForeignCarried
  <2> QED BY <2>3 DEF c, d
<1> DEFINE c0 == <<m>>
           c1 == <<Rec(y1, m.unknown)>>
           c2 == <<Rec(y1, y2)>>
<1>10. /\ Carries(FieldSet, FriendsRequestStep, e1, c0, c1)
      /\ Carries(FieldSet, FriendsRequestStep, n.unknown, c1, c2)
  <2> HIDE DEF Rec
  <2> QED BY <1>2, <1>8, <1>9
<1>11. c2 = <<F!GetFriendsListRequest_MergeFrom(m, n)>>
  BY <1>2
<1> HIDE DEF Rec, e1, c1, c2, c0
<1>12. Carries(FieldSet, FriendsRequestStep, e1 \o n.unknown, c0, c2)
  BY <1>10, <1>10, CarriesOn
<1> QED BY <1>3, <1>11, <1>12 DEF c0

\* The same of every request for a list of friends (friend.pb.cc:416-519).
THEOREM FriendsRequestCodec ==
  ASSUME NEW m \in F!GetFriendsListRequest, m.unknown \in Foreign,
         NEW n \in F!GetFriendsListRequest, n.unknown \in Foreign
  PROVE  /\ F!GetFriendsListRequest_InternalParse(F!GetFriendsListRequest_Clear,
              F!GetFriendsListRequest_InternalSerialize(m)) = <<m>>
         /\ F!GetFriendsListRequest_ByteSizeLong(m)
              = Len(F!GetFriendsListRequest_InternalSerialize(m))
         /\ F!GetFriendsListRequest_CopyFrom(m) = m
         /\ F!GetFriendsListRequest_InternalParse(F!GetFriendsListRequest_Clear,
              F!GetFriendsListRequest_InternalSerialize(m)
                \o F!GetFriendsListRequest_InternalSerialize(n))
              = <<F!GetFriendsListRequest_MergeFrom(m, n)>>
         /\ F!GetFriendsListRequest_InternalSerialize(m) \in Bytes
<1>1. /\ m.userid \in Nat /\ m.unknown \in Bytes
  BY DEF F!GetFriendsListRequest, F!Byte, Byte, Bytes, F!Bytes
<1>2. /\ F!GetFriendsListRequest_Clear \in F!GetFriendsListRequest
      /\ F!GetFriendsListRequest_Clear \in FriendsRequests
  BY EmptyBytes
  DEF F!GetFriendsListRequest_Clear, F!GetFriendsListRequest, FriendsRequests,
      F!Byte, Byte, Bytes, Content, F!Bytes
<1>3. F!GetFriendsListRequest_MergeFrom(F!GetFriendsListRequest_Clear, m) = m
  <2>1. << >> \o m.unknown = m.unknown
    BY <1>1, ConcatEmptySeq DEF Bytes
  <2>2. m = [userid |-> m.userid, unknown |-> m.unknown]
    BY DEF F!GetFriendsListRequest
  <2> QED BY <2>1, <2>2, Zenon
          DEF F!GetFriendsListRequest_MergeFrom, F!GetFriendsListRequest_Clear,
              F!Merged
<1> DEFINE a == F!GetFriendsListRequest_InternalSerialize(m)
           b == F!GetFriendsListRequest_InternalSerialize(n)
           c0 == <<F!GetFriendsListRequest_Clear>>
           c1 == <<m>>
           c2 == <<F!GetFriendsListRequest_MergeFrom(m, n)>>
<1>4. Carries(FieldSet, FriendsRequestStep, a, c0, c1)
  BY <1>2, <1>3, FriendsRequestCarried
<1>5. Carries(FieldSet, FriendsRequestStep, b, c1, c2)
  BY FriendsRequestCarried
<1>6. F!GetFriendsListRequest_InternalParse(F!GetFriendsListRequest_Clear, a) = c1
  <2> HIDE DEF a, c1
  <2> QED BY <1>2, <1>4, FriendsRequestParsed
<1>7. F!GetFriendsListRequest_InternalParse(F!GetFriendsListRequest_Clear,
                                            a \o b) = c2
  <2> HIDE DEF a, b, c1, c2
  <2>1. Carries(FieldSet, FriendsRequestStep, a \o b, c0, c2)
    BY <1>4, <1>5, CarriesOn
  <2> QED BY <1>2, <2>1, FriendsRequestParsed
<1>8. F!GetFriendsListRequest_ByteSizeLong(m) = Len(a)
  <2> DEFINE e1 == VarintField(8, m.userid)
  <2>1. a = e1 \o m.unknown
    BY SameFields DEF F!GetFriendsListRequest_InternalSerialize
  <2>2. /\ e1 \in Seq(Byte) /\ Len(e1) = VarintSize(m.userid)
    BY <1>1, FieldsAreBytes
  <2>3. F!GetFriendsListRequest_ByteSizeLong(m)
          = VarintSize(m.userid) + Len(m.unknown)
    BY SameFields DEF F!GetFriendsListRequest_ByteSizeLong
  <2> HIDE DEF a, e1
  <2>4. m.unknown \in Seq(Byte)
    BY <1>1 DEF Bytes
  <2> DEFINE g2 == e1 \o m.unknown
  <2>5. g2 \in Seq(Byte) /\ Len(g2) = Len(e1) + Len(m.unknown)
    BY <2>2, <2>4, Joined, Zenon
  <2>6. a = g2
    BY <2>1
  <2> HIDE DEF g2
  <2> QED BY <2>2, <2>3, <2>5, <2>6
<1>9. a \in Bytes
  BY <1>4, CarriesBytes
<1> QED BY <1>3, <1>6, <1>7, <1>8, <1>9 DEF F!GetFriendsListRequest_CopyFrom

-----------------------------------------------------------------------------
\* What a parse of a result code gives where bytes lead to.
LEMMA CodeParsed ==
  ASSUME NEW m \in Codes, NEW b, NEW d, Carries(FieldSet, CodeStep, b, <<m>>, d)
  PROVE  U!ResultCode_InternalParse(m, b) = d
<1>1. PICK l \in Seq(FieldSet) : Opens(b, l) /\ Moves(CodeStep, <<m>>, l, d)
  BY DEF Carries
<1>2. Fields[b] = <<l>>
  BY <1>1, OpensRead
<1>3. Runs(CodeStep, <<m>>, l, U!ResultCode_InternalParse(m, b))
  BY <1>1, <1>2, CodeRuns
<1> QED BY <1>1, <1>3 DEF Moves

\* What is written of one is merged with what was there.
LEMMA CodeCarried ==
  ASSUME NEW m \in U!ResultCode, NEW n \in U!ResultCode, n.unknown \in Foreign
  PROVE  Carries(FieldSet, CodeStep, U!ResultCode_InternalSerialize(n), <<m>>,
                 <<U!ResultCode_MergeFrom(m, n)>>)
<1> DEFINE Rec(x1, x2, x3) ==
             [errcode |-> x1,
              errmsg |-> x2,
              unknown |-> x3]
           e1 == VarintField(8, n.errcode)
           e2 == BytesField(18, n.errmsg)
           y1 == U!Merged(m.errcode, n.errcode, 0)
           y2 == U!Merged(m.errmsg, n.errmsg, << >>)
           y3 == m.unknown \o n.unknown
<1>1. /\ m.errcode \in Nat /\ n.errcode \in Nat
      /\ m.errmsg \in Bytes /\ n.errmsg \in Bytes
      /\ m.unknown \in Bytes /\ n.unknown \in Bytes
  BY DEF U!ResultCode, U!Byte, Byte, Bytes, U!Bytes
<1>2. /\ m = Rec(m.errcode, m.errmsg, m.unknown)
      /\ U!ResultCode_MergeFrom(m, n) = Rec(y1, y2, y3)
  BY DEF U!ResultCode, U!ResultCode_MergeFrom
<1>3. U!ResultCode_InternalSerialize(n) = e1 \o e2 \o n.unknown
  BY SameFields DEF U!ResultCode_InternalSerialize
<1>4. y1 \in Nat /\ y2 \in Bytes /\ y3 \in Bytes
  BY <1>1, Joined DEF U!Merged, Bytes
<1>5. \A x1, x2 \in Content : \A u \in Bytes :
        Rec(x1, x2, u) \in Codes
  BY DEF Codes
<1>6. Nat \subseteq Content /\ Bytes \subseteq Content
  BY DEF Content
<1>7. \A r \in Codes : /\ <<r>> \in Results(Codes) /\ <<r>> # Failure
                     /\ <<r>>[1] = r
  BY DEF Results, Failure
<1>8. Carries(FieldSet, CodeStep, e1, <<Rec(m.errcode, m.errmsg, m.unknown)>>,
              <<Rec(y1, m.errmsg, m.unknown)>>)
  <2> DEFINE f == [tag |-> 8, value |-> n.errcode, raw |-> e1]
             r == Rec(m.errcode, m.errmsg, m.unknown)
             s == Rec(y1, m.errmsg, m.unknown)
  <2>1. n.errcode = 0 => s = r
    BY DEF U!Merged
  <2>2. ASSUME n.errcode # 0
        PROVE  f \in FieldSet /\ CodeStep[<< <<r>>, f>>] = <<s>>
    <3>1. f \in FieldSet /\ f.tag = 8 /\ f.value = n.errcode
      <4>1. e1 \in Bytes
        BY <1>1, FieldsAreBytes
      <4> QED BY <1>1, <4>1 DEF FieldSet
    <3>2. r \in Codes
      BY <1>1, <1>4, <1>5, <1>6
    <3>3. [r EXCEPT !["errcode"] = n.errcode] = s
      BY <2>2 DEF U!Merged
    <3> HIDE DEF f, r, s
    <3>4. CodeStep[<< <<r>>, f>>] = <<[r EXCEPT !["errcode"] = n.errcode]>>
      BY <1>7, <3>1, <3>2 DEF CodeStep, U!Store
    <3> QED BY <3>1, <3>3, <3>4
  <2> HIDE DEF Rec
  <2> DEFINE c == <<r>>
             d == <<s>>
             v == n.errcode
  <2>3. (v = 0 => d = c) /\ (v # 0 => f \in FieldSet /\ CodeStep[<<c, f>>] = d)
    BY <2>1, <2>2
  <2>4. v \in Nat /\ 8 \in Tags /\ 8 % 8 = 0
    BY <1>1 DEF Tags
  <2> HIDE DEF c, d, v
  <2>5. e1 = VarintField(8, v) /\ f = [tag |-> 8, value |-> v, raw |-> e1]
    BY DEF v
  <2> HIDE DEF e1, f
  <2>6. Carries(FieldSet, CodeStep, e1, c, d)
    BY <2>3, <2>4, <2>5, VarintCarried
  <2> QED BY <2>6 DEF c, d
<1>9. Carries(FieldSet, CodeStep, e2, <<Rec(y1, m.errmsg, m.unknown)>>,
              <<Rec(y1, y2, m.unknown)>>)
  <2> DEFINE f == [tag |-> 18, value |-> n.errmsg, raw |-> e2]
             r == Rec(y1, m.errmsg, m.unknown)
             s == Rec(y1, y2, m.unknown)
  <2>1. n.errmsg = << >> => s = r
    BY DEF U!Merged
  <2>2. ASSUME n.errmsg # << >>
        PROVE  f \in FieldSet /\ CodeStep[<< <<r>>, f>>] = <<s>>
    <3>1. f \in FieldSet /\ f.tag = 18 /\ f.value = n.errmsg
      <4>1. e2 \in Bytes
        BY <1>1, FieldsAreBytes
      <4> QED BY <1>1, <4>1 DEF FieldSet
    <3>2. r \in Codes
      BY <1>1, <1>4, <1>5, <1>6
    <3>3. [r EXCEPT !["errmsg"] = n.errmsg] = s
      BY <2>2 DEF U!Merged
    <3> HIDE DEF f, r, s
    <3>4. CodeStep[<< <<r>>, f>>] = <<[r EXCEPT !["errmsg"] = n.errmsg]>>
      BY <1>7, <3>1, <3>2 DEF CodeStep, U!Store
    <3> QED BY <3>1, <3>3, <3>4
  <2> HIDE DEF Rec
  <2> DEFINE c == <<r>>
             d == <<s>>
             v == n.errmsg
  <2>3. /\ (v = << >> => d = c)
        /\ (v # << >> => f \in FieldSet /\ CodeStep[<<c, f>>] = d)
    BY <2>1, <2>2
  <2>4. v \in Bytes /\ 18 \in Tags /\ 18 % 8 = 2
    BY <1>1 DEF Tags
  <2> HIDE DEF c, d, v
  <2>5. e2 = BytesField(18, v) /\ f = [tag |-> 18, value |-> v, raw |-> e2]
    BY DEF v
  <2> HIDE DEF e2, f
  <2>6. Carries(FieldSet, CodeStep, e2, c, d)
    BY <2>3, <2>4, <2>5, BytesCarried
  <2> QED BY <2>6 DEF c, d
<1>10. Carries(FieldSet, CodeStep, n.unknown, <<Rec(y1, y2, m.unknown)>>,
               <<Rec(y1, y2, y3)>>)
  <2> DEFINE r == Rec(y1, y2, m.unknown)
             s == Rec(y1, y2, y3)
             c == <<r>>
             d == <<s>>
  <2>1. n.unknown = << >> => d = c
    <3>1. m.unknown \o << >> = m.unknown
      BY <1>1, ConcatEmptySeq DEF Bytes
    <3> QED BY <3>1
  <2>2. ASSUME NEW f \in FieldSet, ForeignTag(f.tag), f.raw = n.unknown
        PROVE  CodeStep[<<c, f>>] = d
    <3>1. r \in Codes /\ r.unknown = m.unknown
      BY <1>1, <1>4, <1>5, <1>6
    <3>2. [r EXCEPT !["unknown"] = y3] = s
      <4> HIDE DEF y3
      <4> QED OBVIOUS
    <3>3. f.tag # 8 /\ f.tag # 18
      BY <2>2 DEF ForeignTag
    <3> HIDE DEF r, s
    <3>4. CodeStep[<< <<r>>, f>>] = <<[r EXCEPT !["unknown"] = y3]>>
      BY <1>7, <2>2, <3>1, <3>3 DEF CodeStep, U!Store, U!KeepUnknown
    <3> QED BY <3>2, <3>4
  <2> HIDE DEF c, d
  <2>3. Carries(FieldSet, CodeStep, n.unknown, c, d)
    BY <2>1, <2>2, ForeignCarried
  <2> QED BY <2>3 DEF c, d
<1> DEFINE c0 == <<m>>
           c1 == <<Rec(y1, m.errmsg, m.unknown)>>
           c2 == <<Rec(y1, y2, m.unknown)>>
           c3 == <<Rec(y1, y2, y3)>>
<1>11. /\ Carries(FieldSet, CodeStep, e1, c0, c1)
      /\ Carries(FieldSet, CodeStep, e2, c1, c2)
      /\ Carries(FieldSet, CodeStep, n.unknown, c2, c3)
  <2> HIDE DEF Rec
  <2> QED BY <1>2, <1>8, <1>9, <1>10
<1>12. c3 = <<U!ResultCode_MergeFrom(m, n)>>
  BY <1>2
<1> HIDE DEF Rec, e1, e2, c1, c2, c3, c0
<1>13. Carries(FieldSet, CodeStep, e1 \o e2, c0, c2)
  BY <1>11, <1>11, CarriesOn
<1>14. Carries(FieldSet, CodeStep, e1 \o e2 \o n.unknown, c0, c3)
  BY <1>11, <1>13, CarriesOn
<1> QED BY <1>3, <1>12, <1>14 DEF c0

\* The same of every result code (user.pb.cc:266-394, friend.pb.cc:203-331).
THEOREM CodeCodec ==
  ASSUME NEW m \in U!ResultCode, m.unknown \in Foreign, NEW n \in U!ResultCode,
         n.unknown \in Foreign
  PROVE  /\ U!ResultCode_InternalParse(U!ResultCode_Clear,
              U!ResultCode_InternalSerialize(m)) = <<m>>
         /\ U!ResultCode_ByteSizeLong(m) = Len(U!ResultCode_InternalSerialize(m))
         /\ U!ResultCode_CopyFrom(m) = m
         /\ U!ResultCode_InternalParse(U!ResultCode_Clear,
              U!ResultCode_InternalSerialize(m)
                \o U!ResultCode_InternalSerialize(n))
              = <<U!ResultCode_MergeFrom(m, n)>>
         /\ U!ResultCode_InternalSerialize(m) \in Bytes
<1>1. /\ m.errcode \in Nat /\ m.errmsg \in Bytes /\ m.unknown \in Bytes
  BY DEF U!ResultCode, U!Byte, Byte, Bytes, U!Bytes
<1>2. U!ResultCode_Clear \in U!ResultCode /\ U!ResultCode_Clear \in Codes
  BY EmptyBytes
  DEF U!ResultCode_Clear, U!ResultCode, Codes, U!Byte, Byte, Bytes, Content, U!Bytes
<1>3. U!ResultCode_MergeFrom(U!ResultCode_Clear, m) = m
  <2>1. << >> \o m.unknown = m.unknown
    BY <1>1, ConcatEmptySeq DEF Bytes
  <2>2. m = [errcode |-> m.errcode, errmsg |-> m.errmsg, unknown |-> m.unknown]
    BY DEF U!ResultCode
  <2> QED BY <2>1, <2>2, Zenon
          DEF U!ResultCode_MergeFrom, U!ResultCode_Clear, U!Merged
<1> DEFINE a == U!ResultCode_InternalSerialize(m)
           b == U!ResultCode_InternalSerialize(n)
           c0 == <<U!ResultCode_Clear>>
           c1 == <<m>>
           c2 == <<U!ResultCode_MergeFrom(m, n)>>
<1>4. Carries(FieldSet, CodeStep, a, c0, c1)
  BY <1>2, <1>3, CodeCarried
<1>5. Carries(FieldSet, CodeStep, b, c1, c2)
  BY CodeCarried
<1>6. U!ResultCode_InternalParse(U!ResultCode_Clear, a) = c1
  <2> HIDE DEF a, c1
  <2> QED BY <1>2, <1>4, CodeParsed
<1>7. U!ResultCode_InternalParse(U!ResultCode_Clear, a \o b) = c2
  <2> HIDE DEF a, b, c1, c2
  <2>1. Carries(FieldSet, CodeStep, a \o b, c0, c2)
    BY <1>4, <1>5, CarriesOn
  <2> QED BY <1>2, <2>1, CodeParsed
<1>8. U!ResultCode_ByteSizeLong(m) = Len(a)
  <2> DEFINE e1 == VarintField(8, m.errcode)
             e2 == BytesField(18, m.errmsg)
  <2>1. a = e1 \o e2 \o m.unknown
    BY SameFields DEF U!ResultCode_InternalSerialize
  <2>2. /\ e1 \in Seq(Byte) /\ Len(e1) = VarintSize(m.errcode)
        /\ e2 \in Seq(Byte) /\ Len(e2) = BytesSize(m.errmsg)
    BY <1>1, FieldsAreBytes
  <2>3. U!ResultCode_ByteSizeLong(m)
          = VarintSize(m.errcode) + BytesSize(m.errmsg) + Len(m.unknown)
    BY SameFields DEF U!ResultCode_ByteSizeLong
  <2> HIDE DEF a, e1, e2
  <2>4. m.unknown \in Seq(Byte)
    BY <1>1 DEF Bytes
  <2> DEFINE g2 == e1 \o e2
             g3 == g2 \o m.unknown
  <2>5. g2 \in Seq(Byte) /\ Len(g2) = Len(e1) + Len(e2)
    BY <2>2, <2>4, Joined, Zenon
  <2> HIDE DEF g2
  <2>6. g3 \in Seq(Byte) /\ Len(g3) = Len(g2) + Len(m.unknown)
    BY <2>2, <2>4, <2>5, Joined, Zenon
  <2>7. a = g3
    BY <2>1 DEF g2
  <2> HIDE DEF g3
  <2> QED BY <2>2, <2>3, <2>5, <2>6, <2>7
<1>9. a \in Bytes
  BY <1>4, CarriesBytes
<1> QED BY <1>3, <1>6, <1>7, <1>8, <1>9 DEF U!ResultCode_CopyFrom

-----------------------------------------------------------------------------
(* The answers, which have a result code within.                           *)

\* A result code whose unknown fields a parse may keep.
Coded(p) == p # << >> => p[1].unknown \in Foreign

\* The result code within an answer is a result code, new or there before.
LEMMA CodesAre ==
  /\ U!ResultCode \subseteq Codes /\ F!ResultCode = U!ResultCode
  /\ U!ResultCode_Clear \in U!ResultCode
  /\ \A p \in U!AtMostOne(U!ResultCode) :
       /\ U!Mutable(p) \in U!ResultCode
       /\ p # << >> => p[1] \in U!ResultCode /\ p = <<p[1]>>
<1>1. U!ResultCode \subseteq Codes /\ F!ResultCode = U!ResultCode
  BY DEF U!ResultCode, F!ResultCode, Codes, U!Bytes, F!Bytes, U!Byte, F!Byte,
         Byte, Bytes, Content
<1>2. U!ResultCode_Clear \in U!ResultCode
  BY EmptyBytes DEF U!ResultCode_Clear, U!ResultCode, U!Bytes
<1>3. ASSUME NEW p \in U!AtMostOne(U!ResultCode), p # << >>
      PROVE  p[1] \in U!ResultCode /\ p = <<p[1]>>
  BY <1>3 DEF U!AtMostOne
<1> QED BY <1>1, <1>2, <1>3, Zenon DEF U!Mutable

\* The bytes of a result code within an answer.
LEMMA ResultFieldIs ==
  ASSUME NEW p \in U!AtMostOne(U!ResultCode), Coded(p)
  PROVE  /\ p = << >> => U!ResultField(p) = << >> /\ U!ResultSize(p) = 0
         /\ p # << >> =>
              /\ U!ResultCode_InternalSerialize(p[1]) \in Bytes
              /\ U!ResultField(p)
                   = StringField(10, U!ResultCode_InternalSerialize(p[1]))
         /\ U!ResultField(p) \in Seq(Byte)
         /\ Len(U!ResultField(p)) = U!ResultSize(p)
         /\ U!MergedResult(<< >>, p) = p
<1>1. CASE p = << >>
  <2>1. /\ U!ResultField(p) = << >> /\ U!ResultSize(p) = 0
        /\ U!MergedResult(<< >>, p) = p
    BY <1>1 DEF U!ResultField, U!ResultSize, U!MergedResult
  <2>2. << >> \in Seq(Byte) /\ Len(<< >>) = 0
    BY EmptyBytes
  <2> QED BY <1>1, <2>1, <2>2
<1>2. CASE p # << >>
  <2> DEFINE c == p[1]
             b == U!ResultCode_InternalSerialize(c)
  <2>1. c \in U!ResultCode /\ c.unknown \in Foreign /\ p = <<c>>
    BY <1>2, CodesAre DEF Coded
  <2> HIDE DEF c
  <2>2. /\ b \in Bytes /\ U!ResultCode_ByteSizeLong(c) = Len(b)
        /\ U!ResultCode_CopyFrom(c) = c
    BY <2>1, CodeCodec
  <2>3. U!ResultField(p) = StringField(10, b)
    <3>1. U!ResultField(p) = <<10>> \o Varint[U!ResultCode_ByteSizeLong(c)] \o b
      BY <1>2, SameFields DEF U!ResultField, c
    <3> QED BY <2>2, <3>1 DEF StringField
  <2>4. U!ResultSize(p) = 1 + Len(Varint[Len(b)]) + Len(b)
    <3>1. U!ResultSize(p) = 1 + Len(Varint[U!ResultCode_ByteSizeLong(c)])
                              + U!ResultCode_ByteSizeLong(c)
      BY <1>2, SameFields DEF U!ResultSize, c
    <3> QED BY <2>2, <3>1
  <2>5. U!MergedResult(<< >>, p) = p
    <3>1. U!MergedResult(<< >>, p)
            = <<U!ResultCode_MergeFrom(U!ResultCode_Clear, c)>>
      BY <1>2 DEF U!MergedResult, U!Mutable, c
    <3> QED BY <2>1, <2>2, <3>1 DEF U!ResultCode_CopyFrom
  <2>6. StringField(10, b) \in Seq(Byte)
        /\ Len(StringField(10, b)) = 1 + Len(Varint[Len(b)]) + Len(b)
    <3> HIDE DEF b
    <3>1. StringField(10, b) \in Bytes
          /\ Len(StringField(10, b)) = 1 + Len(Varint[Len(b)]) + Len(b)
      BY <2>2, FieldsAreBytes
    <3> QED BY <3>1 DEF Bytes
  <2> QED BY <1>2, <2>2, <2>3, <2>4, <2>5, <2>6 DEF c, b
<1> QED BY <1>1, <1>2

\* What is made of the result of r by that of an answer that is read.
LEMMA ResultIsMerged ==
  ASSUME NEW q \in U!AtMostOne(U!ResultCode), NEW p \in U!AtMostOne(U!ResultCode),
         Coded(p), p # << >>
  PROVE  LET b == U!ResultCode_InternalSerialize(p[1]) IN
         /\ U!ResultCode_InternalParse(U!Mutable(q), b) = U!MergedResult(q, p)
         /\ U!MergedResult(q, p) # Failure
<1> DEFINE c == p[1]
           b == U!ResultCode_InternalSerialize(c)
           a == U!Mutable(q)
           d == <<U!ResultCode_MergeFrom(a, c)>>
<1>1. c \in U!ResultCode /\ c.unknown \in Foreign
  BY CodesAre DEF Coded
<1>2. a \in U!ResultCode /\ a \in Codes
  BY CodesAre
<1>3. U!MergedResult(q, p) = d
  BY DEF U!MergedResult
<1> HIDE DEF a, c
<1>4. Carries(FieldSet, CodeStep, b, <<a>>, d)
  BY <1>1, <1>2, CodeCarried
<1> HIDE DEF d
<1>5. U!ResultCode_InternalParse(a, b) = d
  BY <1>2, <1>4, CodeParsed
<1>6. d # Failure
  BY DEF d, Failure
<1> QED BY <1>3, <1>5, <1>6 DEF a, c

\* A merged result is one result code at most.
LEMMA MergedResultIs ==
  ASSUME NEW q \in U!AtMostOne(U!ResultCode), NEW p \in U!AtMostOne(U!ResultCode)
  PROVE  U!MergedResult(q, p) \in U!AtMostOne(U!ResultCode)
<1>1. CASE p = << >>
  BY <1>1 DEF U!MergedResult
<1>2. CASE p # << >>
  <2> DEFINE a == U!Mutable(q)
             c == p[1]
             d == U!ResultCode_MergeFrom(a, c)
  <2>1. a \in U!ResultCode /\ c \in U!ResultCode
    BY <1>2, CodesAre
  <2> HIDE DEF a, c
  <2>2. d \in U!ResultCode
    <3>1. a.unknown \o c.unknown \in Seq(Byte)
      BY <2>1, Joined DEF U!ResultCode, U!Bytes, U!Byte, Byte
    <3>2. /\ U!Merged(a.errcode, c.errcode, 0) \in Nat
          /\ U!Merged(a.errmsg, c.errmsg, << >>) \in Seq(Byte)
      BY <2>1 DEF U!ResultCode, U!Bytes, U!Byte, Byte, U!Merged
    <3> QED BY <3>1, <3>2
            DEF U!ResultCode_MergeFrom, U!ResultCode, U!Bytes, U!Byte, Byte
  <2>3. U!MergedResult(q, p) = <<d>>
    BY <1>2 DEF U!MergedResult, a, c
  <2> HIDE DEF d
  <2> QED BY <2>2, <2>3 DEF U!AtMostOne
<1> QED BY <1>1, <1>2

\* What a parse of an answer gives where bytes lead to.
LEMMA AnswerParsed ==
  ASSUME NEW m \in Responses, NEW b, NEW d,
         Carries(MessageFields, AnswerStep, b, <<m>>, d)
  PROVE  U!LoginResponse_InternalParse(m, b) = d
<1>1. PICK l \in Seq(MessageFields) : Opens(b, l) /\ Moves(AnswerStep, <<m>>, l, d)
  BY DEF Carries
<1>2. Fields[b] = <<l>>
  BY <1>1, OpensRead
<1>3. Runs(AnswerStep, <<m>>, l, U!LoginResponse_InternalParse(m, b))
  BY <1>1, <1>2, AnswerRuns
<1> QED BY <1>1, <1>3 DEF Moves

\* What is written of one is merged with what was there.
LEMMA AnswerCarried ==
  ASSUME NEW m \in U!LoginResponse, NEW n \in U!LoginResponse,
         n.unknown \in Foreign, Coded(n.result)
  PROVE  Carries(MessageFields, AnswerStep, U!LoginResponse_InternalSerialize(n),
                 <<m>>, <<U!LoginResponse_MergeFrom(m, n)>>)
<1> DEFINE Rec(x1, x2, x3) == [result |-> x1, sucess |-> x2, unknown |-> x3]
           R == U!AtMostOne(U!ResultCode)
           e1 == U!ResultField(n.result)
           e2 == BoolField(16, n.sucess)
           y1 == U!MergedResult(m.result, n.result)
           y2 == U!Merged(m.sucess, n.sucess, FALSE)
           y3 == m.unknown \o n.unknown
<1>1. /\ m.result \in R /\ n.result \in R
      /\ m.sucess \in BOOLEAN /\ n.sucess \in BOOLEAN
      /\ m.unknown \in Bytes /\ n.unknown \in Bytes
  BY DEF U!LoginResponse, U!Byte, Byte, Bytes, U!Bytes
<1>2. /\ m = Rec(m.result, m.sucess, m.unknown)
      /\ U!LoginResponse_MergeFrom(m, n) = Rec(y1, y2, y3)
  BY DEF U!LoginResponse, U!LoginResponse_MergeFrom
<1>3. U!LoginResponse_InternalSerialize(n) = e1 \o e2 \o n.unknown
  BY SameFields DEF U!LoginResponse_InternalSerialize
<1>4. y1 \in R /\ y2 \in BOOLEAN /\ y3 \in Bytes
  BY <1>1, Joined, MergedResultIs DEF U!Merged, Bytes
<1>5. \A x1 \in R, x2 \in BOOLEAN, x3 \in Bytes : Rec(x1, x2, x3) \in Responses
  BY CodesAre DEF Responses, U!AtMostOne
<1>6. \A r \in Responses : /\ <<r>> \in Results(Responses) /\ <<r>> # Failure
                         /\ <<r>>[1] = r
  BY DEF Results, Failure
<1> HIDE DEF R
<1>7. Carries(MessageFields, AnswerStep, e1, <<Rec(m.result, m.sucess, m.unknown)>>,
              <<Rec(y1, m.sucess, m.unknown)>>)
  <2> DEFINE r == Rec(m.result, m.sucess, m.unknown)
             s == Rec(y1, m.sucess, m.unknown)
             p == n.result
             v == U!ResultCode_InternalSerialize(p[1])
             c == <<r>>
             d == <<s>>
  <2>1. CASE p = << >>
    <3>1. e1 = << >> /\ d = c
      BY <1>1, <2>1, ResultFieldIs DEF U!MergedResult, R
    <3> HIDE DEF c, d, e1
    <3>2. Carries(MessageFields, AnswerStep, e1, c, d)
      BY <3>1, CarriesNone
    <3> QED BY <3>2 DEF c, d
  <2>2. CASE p # << >>
    <3> DEFINE f == [tag |-> 10, value |-> v, raw |-> e1]
    <3>1. v \in Bytes /\ e1 = StringField(10, v) /\ e1 \in Bytes
      BY <1>1, <2>2, ResultFieldIs DEF R, Bytes
    <3>2. U!ResultCode_InternalParse(U!Mutable(m.result), v) = y1 /\ y1 # Failure
      BY <1>1, <2>2, ResultIsMerged DEF R
    <3> HIDE DEF v
    <3>3. f \in MessageFields /\ f.tag = 10 /\ f.value = v
      BY <3>1 DEF MessageFields, FieldSet
    <3>4. r \in Responses /\ r.result = m.result
      BY <1>1, <1>5
    <3>5. [r EXCEPT !["result"] = y1] = s
      <4> HIDE DEF y1
      <4> QED OBVIOUS
    <3> HIDE DEF f, r, s, y1
    <3>6. AnswerStep[<<c, f>>] = U!ParseResult(r, f)
      BY <1>6, <3>3, <3>4 DEF AnswerStep
    <3>7. U!ParseResult(r, f) = <<[r EXCEPT !["result"] = y1]>>
      BY <3>2, <3>3, <3>4 DEF U!ParseResult, U!Store, U!Failure, Failure
    <3>8. AnswerStep[<<c, f>>] = d
      BY <3>5, <3>6, <3>7
    <3> HIDE DEF c, d, e1
    <3>9. 10 \in Tags /\ 10 % 8 = 2
      BY DEF Tags
    <3>10. f = [tag |-> 10, value |-> v, raw |-> e1]
      BY DEF f
    <3>11. Carries(MessageFields, AnswerStep, e1, c, d)
      BY <3>1, <3>3, <3>8, <3>9, <3>10, StringCarried
    <3> QED BY <3>11 DEF c, d, r, s
  <2> QED BY <2>1, <2>2
<1>8. Carries(MessageFields, AnswerStep, e2, <<Rec(y1, m.sucess, m.unknown)>>,
              <<Rec(y1, y2, m.unknown)>>)
  <2> DEFINE f == [tag |-> 16, value |-> 1, raw |-> e2]
             r == Rec(y1, m.sucess, m.unknown)
             s == Rec(y1, y2, m.unknown)
  <2>1. ~n.sucess => s = r
    BY <1>1 DEF U!Merged
  <2>2. ASSUME n.sucess
        PROVE  f \in MessageFields /\ AnswerStep[<< <<r>>, f>>] = <<s>>
    <3>1. f \in MessageFields /\ f.tag = 16 /\ f.value = 1
      <4>1. e2 \in Bytes
        BY <1>1, FieldsAreBytes
      <4> QED BY <4>1 DEF FieldSet, MessageFields
    <3>2. r \in Responses
      BY <1>1, <1>4, <1>5
    <3>3. [r EXCEPT !["sucess"] = TRUE] = s
      <4>1. n.sucess = TRUE
        BY <1>1, <2>2
      <4>2. y2 = TRUE
        BY <4>1 DEF U!Merged
      <4> DEFINE x == TRUE
      <4>3. y2 = x
        BY <4>2
      <4> HIDE DEF x, y1, y2
      <4>4. [r EXCEPT !["sucess"] = x] = s
        BY <4>3
      <4> QED BY <4>4 DEF x
    <3> HIDE DEF f, r, s
    <3>4. AnswerStep[<< <<r>>, f>>] = <<[r EXCEPT !["sucess"] = (1 # 0)]>>
      BY <1>6, <3>1, <3>2 DEF AnswerStep, U!Store
    <3>5. (1 # 0) = TRUE
      OBVIOUS
    <3> QED BY <3>1, <3>3, <3>4, <3>5
  <2> HIDE DEF Rec
  <2> DEFINE c == <<r>>
             d == <<s>>
             v == n.sucess
  <2>3. (~v => d = c) /\ (v => f \in MessageFields /\ AnswerStep[<<c, f>>] = d)
    BY <2>1, <2>2
  <2>4. v \in BOOLEAN /\ 16 \in Tags /\ 16 % 8 = 0
    BY <1>1 DEF Tags
  <2> HIDE DEF c, d, v
  <2>5. e2 = BoolField(16, v) /\ f = [tag |-> 16, value |-> 1, raw |-> e2]
    BY DEF v
  <2> HIDE DEF e2, f
  <2>6. Carries(MessageFields, AnswerStep, e2, c, d)
    BY <2>3, <2>4, <2>5, BoolCarried
  <2> QED BY <2>6 DEF c, d
<1>9. Carries(MessageFields, AnswerStep, n.unknown, <<Rec(y1, y2, m.unknown)>>,
              <<Rec(y1, y2, y3)>>)
  <2> DEFINE r == Rec(y1, y2, m.unknown)
             s == Rec(y1, y2, y3)
             c == <<r>>
             d == <<s>>
  <2>1. n.unknown = << >> => d = c
    <3>1. m.unknown \o << >> = m.unknown
      BY <1>1, ConcatEmptySeq DEF Bytes
    <3> QED BY <3>1
  <2>2. ASSUME NEW f \in FieldSet, ForeignTag(f.tag), f.raw = n.unknown
        PROVE  f \in MessageFields /\ AnswerStep[<<c, f>>] = d
    <3>1. r \in Responses /\ r.unknown = m.unknown
      BY <1>1, <1>4, <1>5
    <3>2. [r EXCEPT !["unknown"] = y3] = s
      <4> HIDE DEF y1, y2, y3
      <4> QED OBVIOUS
    <3>3. f.tag # 10 /\ f.tag # 16 /\ f \in MessageFields
      BY <2>2 DEF ForeignTag, MessageFields
    <3> HIDE DEF r, s
    <3>4. AnswerStep[<< <<r>>, f>>] = <<[r EXCEPT !["unknown"] = y3]>>
      BY <1>6, <2>2, <3>1, <3>3 DEF AnswerStep, U!Store, U!KeepUnknown
    <3> QED BY <3>2, <3>3, <3>4
  <2> HIDE DEF c, d
  <2>3. Carries(MessageFields, AnswerStep, n.unknown, c, d)
    BY <2>1, <2>2, ForeignCarried
  <2> QED BY <2>3 DEF c, d
<1> DEFINE c0 == <<m>>
           c1 == <<Rec(y1, m.sucess, m.unknown)>>
           c2 == <<Rec(y1, y2, m.unknown)>>
           c3 == <<Rec(y1, y2, y3)>>
<1>10. /\ Carries(MessageFields, AnswerStep, e1, c0, c1)
       /\ Carries(MessageFields, AnswerStep, e2, c1, c2)
       /\ Carries(MessageFields, AnswerStep, n.unknown, c2, c3)
  <2> HIDE DEF Rec
  <2> QED BY <1>2, <1>7, <1>8, <1>9
<1>11. c3 = <<U!LoginResponse_MergeFrom(m, n)>>
  BY <1>2
<1> HIDE DEF Rec, e1, e2, c0, c1, c2, c3
<1>12. Carries(MessageFields, AnswerStep, e1 \o e2, c0, c2)
  BY <1>10, CarriesOn
<1>13. Carries(MessageFields, AnswerStep, e1 \o e2 \o n.unknown, c0, c3)
  BY <1>10, <1>12, CarriesOn
<1> QED BY <1>3, <1>11, <1>13 DEF c0

\* The same of every answer, whether it has a result within or not; the
\* results of two answers are merged too (user.pb.cc:727-853).
THEOREM AnswerCodec ==
  ASSUME NEW m \in U!LoginResponse, m.unknown \in Foreign, Coded(m.result),
         NEW n \in U!LoginResponse, n.unknown \in Foreign, Coded(n.result)
  PROVE  /\ U!LoginResponse_InternalParse(U!LoginResponse_Clear,
              U!LoginResponse_InternalSerialize(m)) = <<m>>
         /\ U!LoginResponse_ByteSizeLong(m)
              = Len(U!LoginResponse_InternalSerialize(m))
         /\ U!LoginResponse_CopyFrom(m) = m
         /\ U!LoginResponse_InternalParse(U!LoginResponse_Clear,
              U!LoginResponse_InternalSerialize(m)
                \o U!LoginResponse_InternalSerialize(n))
              = <<U!LoginResponse_MergeFrom(m, n)>>
<1>1. /\ m.result \in U!AtMostOne(U!ResultCode) /\ m.sucess \in BOOLEAN
      /\ m.unknown \in Bytes
  BY DEF U!LoginResponse, U!Byte, Byte, Bytes, U!Bytes
<1>2. /\ U!LoginResponse_Clear \in U!LoginResponse
      /\ U!LoginResponse_Clear \in Responses
  BY EmptyBytes DEF U!LoginResponse_Clear, U!LoginResponse, Responses, U!AtMostOne,
                    U!Byte, Byte, Bytes, U!Bytes
<1>3. U!LoginResponse_MergeFrom(U!LoginResponse_Clear, m) = m
  <2>1. << >> \o m.unknown = m.unknown
    BY <1>1, ConcatEmptySeq DEF Bytes
  <2>2. m = [result |-> m.result, sucess |-> m.sucess, unknown |-> m.unknown]
    BY DEF U!LoginResponse
  <2>3. U!MergedResult(<< >>, m.result) = m.result
    BY <1>1, ResultFieldIs
  <2>4. U!Merged(FALSE, m.sucess, FALSE) = m.sucess
    BY <1>1 DEF U!Merged
  <2> QED BY <2>1, <2>2, <2>3, <2>4, Zenon
          DEF U!LoginResponse_MergeFrom, U!LoginResponse_Clear
<1> DEFINE a == U!LoginResponse_InternalSerialize(m)
           b == U!LoginResponse_InternalSerialize(n)
           c0 == <<U!LoginResponse_Clear>>
           c1 == <<m>>
           c2 == <<U!LoginResponse_MergeFrom(m, n)>>
<1>4. Carries(MessageFields, AnswerStep, a, c0, c1)
  BY <1>2, <1>3, AnswerCarried
<1>5. Carries(MessageFields, AnswerStep, b, c1, c2)
  BY AnswerCarried
<1>6. U!LoginResponse_InternalParse(U!LoginResponse_Clear, a) = c1
  <2> HIDE DEF a, c1
  <2> QED BY <1>2, <1>4, AnswerParsed
<1>7. U!LoginResponse_InternalParse(U!LoginResponse_Clear, a \o b) = c2
  <2> HIDE DEF a, b, c1, c2
  <2>1. Carries(MessageFields, AnswerStep, a \o b, c0, c2)
    BY <1>4, <1>5, CarriesOn
  <2> QED BY <1>2, <2>1, AnswerParsed
<1>8. U!LoginResponse_ByteSizeLong(m) = Len(a)
  <2> DEFINE e1 == U!ResultField(m.result)
             e2 == BoolField(16, m.sucess)
  <2>1. a = e1 \o e2 \o m.unknown
    BY SameFields DEF U!LoginResponse_InternalSerialize
  <2>2. /\ e1 \in Seq(Byte) /\ Len(e1) = U!ResultSize(m.result)
        /\ e2 \in Seq(Byte) /\ Len(e2) = BoolSize(m.sucess)
    BY <1>1, ResultFieldIs, FieldsAreBytes
  <2>3. U!LoginResponse_ByteSizeLong(m)
          = U!ResultSize(m.result) + BoolSize(m.sucess) + Len(m.unknown)
    BY SameFields DEF U!LoginResponse_ByteSizeLong
  <2> HIDE DEF a, e1, e2
  <2>4. m.unknown \in Seq(Byte)
    BY <1>1 DEF Bytes
  <2> DEFINE g2 == e1 \o e2
             g3 == g2 \o m.unknown
  <2>5. g2 \in Seq(Byte) /\ Len(g2) = Len(e1) + Len(e2)
    BY <2>2, Joined, Zenon
  <2> HIDE DEF g2
  <2>6. g3 \in Seq(Byte) /\ Len(g3) = Len(g2) + Len(m.unknown)
    <3>1. g2 \in Seq(Byte)
      BY <2>5
    <3> QED BY ONLY <2>4, <3>1, Joined
  <2>7. a = g3
    BY <2>1 DEF g2
  <2> HIDE DEF g3
  <2> QED BY <2>2, <2>3, <2>5, <2>6, <2>7
<1> QED BY <1>3, <1>6, <1>7, <1>8 DEF U!LoginResponse_CopyFrom

\* The answer to a register request is the same but for its name.
LEMMA RegisterAnswers ==
  /\ U!RegisterResponse = U!LoginResponse
  /\ U!RegisterResponse_Clear = U!LoginResponse_Clear
  /\ \A m, n : /\ U!RegisterResponse_InternalParse(m, n)
                    = U!LoginResponse_InternalParse(m, n)
               /\ U!RegisterResponse_InternalSerialize(m)
                    = U!LoginResponse_InternalSerialize(m)
               /\ U!RegisterResponse_ByteSizeLong(m)
                    = U!LoginResponse_ByteSizeLong(m)
               /\ U!RegisterResponse_MergeFrom(m, n)
                    = U!LoginResponse_MergeFrom(m, n)
               /\ U!RegisterResponse_CopyFrom(m) = U!LoginResponse_CopyFrom(m)
<1>1. U!RegisterResponse = U!LoginResponse
  BY DEF U!RegisterResponse, U!LoginResponse
<1>2. U!RegisterResponse_Clear = U!LoginResponse_Clear
  BY DEF U!RegisterResponse_Clear, U!LoginResponse_Clear
<1>3. ASSUME NEW m, NEW b
      PROVE  U!RegisterResponse_InternalParse(m, b)
               = U!LoginResponse_InternalParse(m, b)
  BY DEF U!RegisterResponse_InternalParse, U!LoginResponse_InternalParse
<1>4. ASSUME NEW m, NEW n
      PROVE  /\ U!RegisterResponse_InternalSerialize(m)
                  = U!LoginResponse_InternalSerialize(m)
             /\ U!RegisterResponse_ByteSizeLong(m) = U!LoginResponse_ByteSizeLong(m)
             /\ U!RegisterResponse_MergeFrom(m, n) = U!LoginResponse_MergeFrom(m, n)
  BY Zenon
  DEF U!RegisterResponse_InternalSerialize, U!LoginResponse_InternalSerialize,
     U!RegisterResponse_ByteSizeLong, U!LoginResponse_ByteSizeLong,
     U!RegisterResponse_MergeFrom, U!LoginResponse_MergeFrom
<1>5. \A m : U!RegisterResponse_CopyFrom(m) = U!LoginResponse_CopyFrom(m)
  BY <1>2, <1>4, Zenon DEF U!RegisterResponse_CopyFrom, U!LoginResponse_CopyFrom
<1> QED BY <1>1, <1>2, <1>3, <1>4, <1>5

-----------------------------------------------------------------------------
(* The list of friends: any number of strings.                             *)

\* g[i] is what is written of the first i strings.
FlatBy(fs, g) ==
  /\ \A i \in 0..Len(fs) : g[i] \in Bytes
  /\ g[0] = << >>
  /\ \A i \in 1..Len(fs) : g[i] = g[i - 1] \o StringField(18, fs[i])
  /\ F!FlattenSeq([i \in DOMAIN fs |-> F!FriendField(fs[i])]) = g[Len(fs)]

\* The strings are written one behind the other.
LEMMA FriendsAreFlat ==
  ASSUME NEW fs \in Seq(Bytes)
  PROVE  \E g : FlatBy(fs, g)
<1> DEFINE n == Len(fs)
           S == 1..n
           x(i) == StringField(18, fs[i])
           Body(f, i) == IF i = 1 THEN x(1) ELSE f[i - 1] \o x(i)
           r == [i \in S |-> i]
           G == [fi \in [S -> Bytes] \X S |-> Body(fi[1], fi[2])]
           seqs == [i \in DOMAIN fs |-> F!FriendField(fs[i])]
<1>1. n \in Nat /\ DOMAIN fs = S /\ \A i \in S : fs[i] \in Bytes /\ i \in Nat
  BY ElementOfSeq
<1>2. \A i \in S : F!FriendField(fs[i]) = x(i) /\ x(i) \in Bytes
  <2> TAKE i \in S
  <2>1. F!FriendField(fs[i]) = x(i)
    BY SameFields DEF F!FriendField, StringField
  <2>2. x(i) \in Bytes
    <3> DEFINE v == fs[i]
    <3>1. v \in Bytes
      BY <1>1
    <3> HIDE DEF v
    <3> QED BY <3>1, FieldsAreBytes DEF v
  <2> QED BY <2>1, <2>2
<1> HIDE DEF x
<1>3. seqs = [i \in S |-> x(i)] /\ Len(seqs) = n
  <2>1. seqs = [i \in S |-> x(i)]
    BY <1>1, <1>2
  <2> HIDE DEF n, seqs
  <2> QED BY <1>1, <2>1
<1> HIDE DEF n, seqs
<1>4. LooksDown(S, Bytes, r, G)
  <2>1. \A f \in [S -> Bytes], i \in S : G[<<f, i>>] = Body(f, i)
    OBVIOUS
  <2>2. ASSUME NEW f \in [S -> Bytes], NEW i \in S PROVE Body(f, i) \in Bytes
    <3>1. CASE i = 1
      BY <1>2, <3>1
    <3>2. CASE i # 1
      <4>1. i - 1 \in S
        BY <1>1, <3>2
      <4>2. f[i - 1] \in Seq(Byte) /\ x(i) \in Seq(Byte)
        BY <1>2, <4>1 DEF Bytes
      <4> DEFINE a == f[i - 1]
                 b == x(i)
      <4> HIDE DEF a, b
      <4>3. a \o b \in Seq(Byte)
        BY <4>2, Joined DEF a, b
      <4> QED BY <3>2, <4>3 DEF a, b, Bytes
    <3> QED BY <3>1, <3>2
  <2>3. ASSUME NEW f \in [S -> Bytes], NEW h \in [S -> Bytes], NEW i \in S,
               \A k \in S : k < i => f[k] = h[k]
        PROVE  Body(f, i) = Body(h, i)
    <3>1. i # 1 => i - 1 \in S /\ i - 1 < i
      BY <1>1
    <3> QED BY <2>3, <3>1
  <2>4. r \in [S -> Nat] /\ \A i \in S : r[i] = i
    BY <1>1
  <2> HIDE DEF r, G, Body, S
  <2>5. \A f, h \in [S -> Bytes] : \A i \in S :
          (\A y \in S : r[y] < r[i] => f[y] = h[y]) => G[<<f, i>>] = G[<<h, i>>]
    <3> TAKE f, h \in [S -> Bytes]
    <3> TAKE i \in S
    <3> HAVE \A y \in S : r[y] < r[i] => f[y] = h[y]
    <3>1. \A y \in S : y < i => f[y] = h[y]
      BY <2>4
    <3>2. Body(f, i) = Body(h, i)
      BY <2>3, <3>1
    <3> QED BY <2>1, <3>2
  <2>6. \A f \in [S -> Bytes], i \in S : G[<<f, i>>] \in Bytes
    BY <2>1, <2>2
  <2> QED BY <2>4, <2>5, <2>6 DEF LooksDown
<1>5. PICK f \in [S -> Bytes] : \A i \in S : f[i] = Body(f, i)
  <2>1. \A f \in [S -> Bytes], i \in S : G[<<f, i>>] = Body(f, i)
    OBVIOUS
  <2>2. << >> \in Bytes
    BY EmptyBytes DEF Bytes
  <2> HIDE DEF G, Body, S, r
  <2>3. Defines(S, Bytes, G)
    BY <1>4, <2>2, RecursionDefines
  <2> QED BY <2>1, <2>3 DEF Defines
<1> DEFINE Made(h, i) == IF i = 1 THEN seqs[i] ELSE h[i - 1] \o seqs[i]
           flat == CHOOSE h : h = [i \in 1..Len(seqs) |-> Made(h, i)]
<1>6. f = [i \in 1..Len(seqs) |-> Made(f, i)]
  <2>1. \A i \in S : f[i] = Made(f, i)
    BY <1>3, <1>5
  <2> HIDE DEF Made
  <2> QED BY <1>3, <1>5, <2>1
<1>7. flat = [i \in 1..Len(seqs) |-> Made(flat, i)]
  <2> HIDE DEF Made
  <2> QED BY <1>6
<1>8. F!FlattenSeq(seqs) = IF Len(seqs) = 0 THEN seqs ELSE flat[Len(seqs)]
  BY DEF F!FlattenSeq
<1> HIDE DEF flat
<1>9. \A i \in S : flat[i] = IF i = 1 THEN x(i) ELSE flat[i - 1] \o x(i)
  <2>1. \A i \in S : flat[i] = Made(flat, i)
    <3> HIDE DEF Made
    <3> QED BY <1>3, <1>7
  <2> QED BY <1>3, <2>1
<1>10. \A i \in S : flat[i] \in Bytes
  <2> DEFINE Bad == {i \in S : flat[i] \notin Bytes}
  <2>1. CASE Bad = {}
    BY <2>1
  <2>2. CASE Bad # {}
    <3>1. Bad \in SUBSET Nat
      BY <1>1
    <3> HIDE DEF Bad
    <3>2. PICK k \in Bad : \A l \in Bad : k <= l
      BY <2>2, <3>1, Least
    <3>3. k \in S /\ flat[k] \notin Bytes /\ k \in Nat
      BY <1>1, <3>2 DEF Bad
    <3>4. k # 1
      BY <1>2, <1>9, <3>3
    <3>5. k - 1 \in S /\ ~(k <= k - 1)
      BY <1>1, <3>3, <3>4
    <3>6. flat[k - 1] \in Bytes
      BY <3>2, <3>5 DEF Bad
    <3>7. flat[k] = flat[k - 1] \o x(k) /\ x(k) \in Bytes
      BY <1>2, <1>9, <3>3, <3>4
    <3> DEFINE a == flat[k - 1]
               b == x(k)
    <3>8. a \in Seq(Byte) /\ b \in Seq(Byte)
      BY <3>6, <3>7 DEF Bytes
    <3> HIDE DEF a, b
    <3>9. a \o b \in Seq(Byte)
      BY <3>8, Joined
    <3> QED BY <3>3, <3>7, <3>9 DEF a, b, Bytes
  <2> QED BY <2>1, <2>2
<1> DEFINE g == [i \in 0..n |-> IF i = 0 THEN << >> ELSE flat[i]]
<1>11. /\ g[0] = << >> /\ \A i \in S : g[i] = flat[i]
       /\ \A i \in 0..n : i = 0 \/ i \in S
  BY <1>1
<1> HIDE DEF g
<1>12. \A i \in 0..n : g[i] \in Bytes
  <2>1. << >> \in Bytes
    BY EmptyBytes DEF Bytes
  <2> QED BY <1>10, <1>11, <2>1
<1>13. \A i \in S : g[i] = g[i - 1] \o x(i)
  <2> TAKE i \in S
  <2>1. CASE i = 1
    <3>1. << >> \o x(1) = x(1)
      <4> DEFINE b == x(1)
      <4>1. b \in Seq(Byte)
        BY <1>2, <2>1 DEF Bytes
      <4> HIDE DEF b
      <4> QED BY <4>1, ConcatEmptySeq DEF b
    <3>2. g[1] = x(1) /\ g[1 - 1] = << >>
      BY <1>9, <1>11, <2>1
    <3> QED BY <2>1, <3>1, <3>2
  <2>2. CASE i # 1
    <3>1. i - 1 \in S
      BY <1>1, <2>2
    <3> QED BY <1>9, <1>11, <2>2, <3>1
  <2> QED BY <2>1, <2>2
<1>14. F!FlattenSeq(seqs) = g[n]
  <2>1. CASE n = 0
    <3>1. seqs = << >>
      <4>1. S = {}
        BY <2>1
      <4>2. seqs = [i \in {} |-> x(i)]
        BY <1>3, <4>1
      <4>3. seqs \in Seq({})
        BY <1>3, <2>1, <4>2
      <4> QED BY <1>3, <2>1, <4>3, EmptySeq
    <3> QED BY <1>3, <1>8, <1>11, <2>1, <3>1
  <2>2. CASE n # 0
    <3>1. n \in S
      BY <1>1, <2>2
    <3> QED BY <1>3, <1>8, <1>11, <2>2, <3>1
  <2> QED BY <2>1, <2>2
<1>15. FlatBy(fs, g)
  BY <1>12, <1>13, <1>11, <1>14 DEF FlatBy, n, seqs, x
<1> QED BY <1>15

\* The size of a list, string by string.
SizeStep ==
  [dx \in Nat \X Bytes |-> dx[1] + 1 + Len(Varint[Len(dx[2])]) + Len(dx[2])]

\* A string adds the length of what is written for it.
LEMMA SizeStepIs ==
  ASSUME NEW d \in Nat, NEW v \in Bytes
  PROVE  SizeStep[<<d, v>>] = d + Len(StringField(18, v))
<1>1. Len(StringField(18, v)) = 1 + Len(Varint[Len(v)]) + Len(v)
  BY FieldsAreBytes
<1>2. Len(v) \in Nat
  BY DEF Bytes
<1>3. Len(Varint[Len(v)]) \in Nat
  BY <1>2, VarintIs
<1> DEFINE p == Len(v)
           q == Len(Varint[p])
<1> HIDE DEF p, q
<1>4. p \in Nat /\ q \in Nat /\ Len(StringField(18, v)) = 1 + q + p
  BY <1>1, <1>2, <1>3 DEF p, q
<1>5. SizeStep[<<d, v>>] = d + 1 + q + p
  BY DEF SizeStep, p, q
<1> QED BY <1>4, <1>5

\* The announced size is that of the result, the strings and what is unknown.
LEMMA FriendsSize ==
  ASSUME NEW m, NEW l \in Seq(Bytes), m.friends = l, NEW p, m.result = p,
         NEW k, Moves(SizeStep, 0, l, k)
  PROVE  F!GetFriendsListResponse_ByteSizeLong(m)
           = U!ResultSize(p) + k + Len(m.unknown)
<1> DEFINE One(d, s) == d + 1 + Len(Varint[Len(s)]) + Len(s)
           Body(f, s) == IF s = {} THEN 0 ELSE One(f[s \ {Max(s)}], l[Max(s)])
           iter == CHOOSE f : f = [s \in SUBSET DOMAIN l |-> Body(f, s)]
           V == Nat
<1>1. F!GetFriendsListResponse_ByteSizeLong(m)
        = U!ResultSize(p) + iter[DOMAIN l] + Len(m.unknown)
  <2>1. F!GetFriendsListResponse_ByteSizeLong(m)
          = (IF p = << >> THEN 0
             ELSE 1 + Len(Varint[U!ResultCode_ByteSizeLong(p[1])])
                    + U!ResultCode_ByteSizeLong(p[1]))
              + iter[DOMAIN l] + Len(m.unknown)
    <3>1. /\ F!Varint = Varint
          /\ F!ResultCode_ByteSizeLong(p[1]) = U!ResultCode_ByteSizeLong(p[1])
      BY SameFields, SameCodes
    <3> QED BY <3>1 DEF F!GetFriendsListResponse_ByteSizeLong, F!FoldLeft,
                        F!MapThenFoldSet, F!Max, Max
  <2>2. U!ResultSize(p) = IF p = << >> THEN 0
             ELSE 1 + Len(Varint[U!ResultCode_ByteSizeLong(p[1])])
                    + U!ResultCode_ByteSizeLong(p[1])
    BY SameFields DEF U!ResultSize
  <2> HIDE DEF iter
  <2> QED BY <2>1, <2>2
<1>2. /\ DOMAIN l = 1..Len(l) /\ Len(l) \in Nat
      /\ \A i \in 1..Len(l) : l[i] \in Bytes
  BY ElementOfSeq
<1>3. \A d \in V, v \in Bytes : One(d, v) \in V
  <2> TAKE d \in V, v \in Bytes
  <2>1. Len(v) \in Nat
    BY DEF Bytes
  <2>2. Len(Varint[Len(v)]) \in Nat
    BY <2>1, VarintIs
  <2> DEFINE a == Len(v)
             b == Len(Varint[Len(v)])
  <2>0. a \in Nat /\ b \in Nat
    BY <2>1, <2>2
  <2> HIDE DEF a, b
  <2>3. d + 1 + b + a \in Nat
    BY <2>0
  <2> QED BY <2>3 DEF a, b
<1>4. \A d \in V, v \in Bytes : SizeStep[<<d, v>>] = One(d, v)
  BY DEF SizeStep
<1>5. SizeStep \in [V \X Bytes -> V]
  <2> HIDE DEF One, V
  <2>1. \A df \in V \X Bytes : SizeStep[df] \in V
    BY <1>3, <1>4
  <2>2. SizeStep = [df \in V \X Bytes |-> SizeStep[df]]
    BY DEF SizeStep, V
  <2> QED BY <2>1, <2>2
<1> DEFINE c == 0
<1>6. c \in V
  OBVIOUS
<1> HIDE DEF One, V, c
<1>7. Folds(V, SizeStep, c, l)
  BY <1>5, <1>6, FoldIsDefined
<1>8. PICK f \in [SUBSET (1..Len(l)) -> V] : \A s \in SUBSET (1..Len(l)) :
        f[s] = IF s = {} THEN c
               ELSE SizeStep[<<f[s \ {Max(s)}], l[Max(s)]>>]
  BY <1>7 DEF Folds
<1>9. \A s \in SUBSET (1..Len(l)) : f[s] = Body(f, s)
  <2> TAKE s \in SUBSET (1..Len(l))
  <2>1. CASE s = {}
    BY <1>8, <2>1 DEF c
  <2>2. CASE s # {}
    <3>1. Max(s) \in 1..Len(l) /\ s \ {Max(s)} \in SUBSET (1..Len(l))
      BY <1>2, <2>2, FewerIndices
    <3>2. f[s \ {Max(s)}] \in V /\ l[Max(s)] \in Bytes
      BY <1>2, <3>1
    <3>3. SizeStep[<<f[s \ {Max(s)}], l[Max(s)]>>]
            = One(f[s \ {Max(s)}], l[Max(s)])
      BY <1>4, <3>2
    <3> QED BY <1>8, <2>2, <3>3
  <2> QED BY <2>1, <2>2
<1>10. f = [s \in SUBSET DOMAIN l |-> Body(f, s)]
  <2> HIDE DEF Body
  <2> QED BY <1>2, <1>9
<1>11. iter = [s \in SUBSET DOMAIN l |-> Body(iter, s)]
  <2> HIDE DEF Body
  <2> QED BY <1>10
<1> HIDE DEF iter
<1>12. \A s \in SUBSET (1..Len(l)) : iter[s] = Body(iter, s)
  <2> HIDE DEF Body
  <2> QED BY <1>2, <1>11
<1>13. f[1..Len(l)] = iter[1..Len(l)]
  <2>1. f[{}] = iter[{}]
    BY <1>9, <1>12
  <2>2. \A s \in SUBSET (1..Len(l)) :
          s # {} /\ f[s \ {Max(s)}] = iter[s \ {Max(s)}] => f[s] = iter[s]
    BY <1>9, <1>12
  <2> QED BY <1>2, <2>1, <2>2, FoldsAgree
<1>14. Runs(SizeStep, 0, l, f[1..Len(l)])
  BY <1>8 DEF Runs, c
<1>15. iter[DOMAIN l] = k
  BY <1>2, <1>13, <1>14 DEF Moves
<1> QED BY <1>1, <1>15

-----------------------------------------------------------------------------
\* A prefix is a shorter one and one element more.
LEMMA PrefixGrows ==
  ASSUME NEW S, NEW s \in Seq(S), NEW k \in 1..Len(s)
  PROVE  /\ SubSeq(s, 1, k) = SubSeq(s, 1, k - 1) \o <<s[k]>>
         /\ SubSeq(s, 1, k - 1) \in Seq(S) /\ SubSeq(s, 1, k) \in Seq(S)
         /\ s[k] \in S
<1>1. s[k] \in S /\ k \in Nat /\ 1 \in 1..Len(s) /\ k \in 1..Len(s) /\ k \in Int
      /\ k - 1 \in Int /\ 1 \in Int /\ Len(s) \in Nat
  BY ElementOfSeq
<1>2. SubSeq(s, 1, k) = SubSeq(s, 1, k - 1) \o <<s[k]>>
  <2>1. k \in 1..Len(s) /\ 1 \in 1..Len(s)
    BY <1>1
  <2> QED BY <2>1, SubSeqRecursiveSecond
<1>3. \A i \in 1..k : s[i] \in S
  BY <1>1, ElementOfSeq
<1>4. SubSeq(s, 1, k) \in Seq(S)
  BY <1>1, <1>3, SubSeqProperties
<1>5. \A i \in 1..(k - 1) : s[i] \in S
  BY <1>1, <1>3
<1>6. SubSeq(s, 1, k - 1) \in Seq(S)
  BY <1>1, <1>5, SubSeqProperties
<1> QED BY <1>1, <1>2, <1>4, <1>6

\* The strings of a list are read one after the other, and counted alike.
LEMMA FriendsCarried ==
  ASSUME NEW x \in U!AtMostOne(Codes), NEW h \in Seq(Bytes), NEW u \in Bytes,
         NEW fs \in Seq(Bytes), NEW g, FlatBy(fs, g)
  PROVE  /\ Carries(MessageFields, FriendsAnswerStep, g[Len(fs)],
                    <<[result |-> x, friends |-> h, unknown |-> u]>>,
                    <<[result |-> x, friends |-> h \o fs, unknown |-> u]>>)
         /\ Moves(SizeStep, 0, fs, Len(g[Len(fs)]))
<1> DEFINE n == Len(fs)
           Rec(y) == [result |-> x, friends |-> y, unknown |-> u]
           Pre(k) == SubSeq(fs, 1, k)
           c == <<Rec(h)>>
           Good(k) == /\ Carries(MessageFields, FriendsAnswerStep, g[k], c,
                                 <<Rec(h \o Pre(k))>>)
                      /\ Moves(SizeStep, 0, Pre(k), Len(g[k]))
<1>1. n \in Nat
  OBVIOUS
<1> HIDE DEF n
<1>2. /\ \A i \in 0..n : g[i] \in Bytes
      /\ g[0] = << >> /\ \A i \in 1..n : g[i] = g[i - 1] \o StringField(18, fs[i])
  BY DEF FlatBy, n
<1>3. \A y \in Seq(Bytes) : Rec(y) \in FriendsAnswers
  <2>1. Bytes \subseteq Content
    BY DEF Content
  <2>2. Seq(Bytes) \subseteq Seq(Content)
    <3> HIDE DEF Rec
    <3> QED BY <2>1
  <2> QED BY <2>2 DEF FriendsAnswers
<1>4. \A r \in FriendsAnswers : /\ <<r>> \in Results(FriendsAnswers)
                                /\ <<r>> # Failure /\ <<r>>[1] = r
  BY DEF Results, Failure
<1>5. Good(0)
  <2>1. Pre(0) = << >>
    BY SubSeqEmpty
  <2>2. h \o << >> = h
    BY ConcatEmptySeq
  <2>3. h \o Pre(0) = h
    BY <2>1, <2>2
  <2>4. Len(g[0]) = 0
    BY <1>2
  <2> HIDE DEF Rec, Pre, c
  <2>5. Carries(MessageFields, FriendsAnswerStep, g[0], c, <<Rec(h \o Pre(0))>>)
    <3>1. <<Rec(h \o Pre(0))>> = c
      BY <2>3 DEF c
    <3> QED BY <1>2, <3>1, CarriesNone
  <2>6. Moves(SizeStep, 0, Pre(0), Len(g[0]))
    BY <2>1, <2>4, MovesNone
  <2> QED BY <2>5, <2>6
<1>6. ASSUME NEW k \in 1..n, Good(k - 1) PROVE Good(k)
  <2> DEFINE v == fs[k]
             p == Pre(k - 1)
             q == Pre(k)
             y == h \o p
             z == h \o q
             e == StringField(18, v)
             f == [tag |-> 18, value |-> v, raw |-> e]
  <2>1. /\ q = p \o <<v>> /\ p \in Seq(Bytes) /\ q \in Seq(Bytes) /\ v \in Bytes
    <3>1. k \in 1..Len(fs)
      BY DEF n
    <3> QED BY <3>1, PrefixGrows
  <2> HIDE DEF v, p, q
  <2>2. y \in Seq(Bytes) /\ z \in Seq(Bytes) /\ z = Append(y, v)
    <3>1. y \in Seq(Bytes) /\ z \in Seq(Bytes)
      BY <2>1, Joined
    <3>2. <<v>> \in Seq(Bytes)
      BY <2>1
    <3>3. h \o (p \o <<v>>) = (h \o p) \o <<v>>
      BY <2>1, <3>2, ConcatAssociative
    <3>4. Append(y, v) = y \o <<v>>
      <4> HIDE DEF y
      <4> QED BY <2>1, <3>1, AppendIsConcat
    <3>5. z = h \o (p \o <<v>>)
      BY <2>1
    <3> QED BY <3>1, <3>3, <3>4, <3>5
  <2>3. e \in Bytes /\ Len(e) \in Nat
    <3>1. e \in Bytes
      BY <2>1, FieldsAreBytes
    <3> QED BY <3>1 DEF Bytes
  <2> HIDE DEF y, z, e
  <2>4. f \in MessageFields /\ f.tag = 18 /\ f.value = v
    BY <2>1, <2>3 DEF MessageFields, FieldSet
  <2> DEFINE r == Rec(y)
             s == Rec(z)
             a == <<r>>
             b == <<s>>
  <2>5. r \in FriendsAnswers /\ r.friends = y
    BY <1>3, <2>2
  <2>6. [r EXCEPT !["friends"] = z] = s
    OBVIOUS
  <2>7. f = [tag |-> 18, value |-> v, raw |-> e]
    OBVIOUS
  <2> HIDE DEF f, r, s
  <2>8. FriendsAnswerStep[<<a, f>>] = <<[r EXCEPT !["friends"] = z]>>
    <3>1. a \in Results(FriendsAnswers) /\ a # Failure /\ a[1] = r
      BY <1>4, <2>5
    <3>2. f.tag # 10 /\ f.tag = 18
      BY <2>4
    <3> HIDE DEF a
    <3>3. FriendsAnswerStep[<<a, f>>]
            = F!Store(a[1], "friends", Append(a[1].friends, f.value))
      BY <2>4, <3>1, <3>2 DEF FriendsAnswerStep
    <3>4. Append(a[1].friends, f.value) = z
      BY <2>2, <2>4, <2>5, <3>1
    <3> QED BY <3>1, <3>3, <3>4 DEF F!Store
  <2>9. FriendsAnswerStep[<<a, f>>] = b
    BY <2>6, <2>8
  <2>10. Carries(MessageFields, FriendsAnswerStep, g[k - 1], c, a)
    BY <1>6 DEF r, y, p
  <2> HIDE DEF a, b, c
  <2>11. Carries(MessageFields, FriendsAnswerStep, e, a, b)
    <3>1. 18 \in Tags /\ 18 % 8 = 2
      BY DEF Tags
    <3>2. e = StringField(18, v)
      BY DEF e
    <3> QED BY <2>1, <2>4, <2>7, <2>9, <3>1, <3>2, StringCarried
  <2>12. g[k] = g[k - 1] \o e
    BY <1>2 DEF e, v
  <2>13. Carries(MessageFields, FriendsAnswerStep, g[k], c, b)
    BY <2>10, <2>11, <2>12, CarriesOn
  <2>14. Moves(SizeStep, 0, q, Len(g[k]))
    <3>1. g[k - 1] \in Bytes /\ Len(g[k - 1]) \in Nat
      <4>1. k - 1 \in 0..n
        BY <1>1
      <4>2. g[k - 1] \in Bytes
        BY <1>2, <4>1
      <4> QED BY <4>2 DEF Bytes
    <3>2. Len(g[k]) = Len(g[k - 1]) + Len(e)
      <4> DEFINE i == g[k - 1]
      <4>1. i \in Seq(Byte) /\ e \in Seq(Byte)
        BY <2>3, <3>1 DEF Bytes
      <4> HIDE DEF i
      <4>2. Len(i \o e) = Len(i) + Len(e)
        BY ONLY <4>1, Joined
      <4> QED BY <2>12, <4>2 DEF i
    <3>3. SizeStep[<<Len(g[k - 1]), v>>] = Len(g[k])
      BY <2>1, <3>1, <3>2, SizeStepIs DEF e
    <3>4. Moves(SizeStep, Len(g[k - 1]), <<v>>, Len(g[k]))
      BY <3>3, MovesOne
    <3>5. Moves(SizeStep, 0, p, Len(g[k - 1]))
      BY <1>6 DEF p
    <3>6. <<v>> \in Seq(Bytes)
      BY <2>1
    <3>7. Moves(SizeStep, 0, p \o <<v>>, Len(g[k]))
      BY <2>1, <3>4, <3>5, <3>6, MovesOn
    <3> QED BY <2>1, <3>7
  <2> QED BY <2>13, <2>14 DEF b, s, z, q
<1>7. Good(n)
  <2> HIDE DEF Good
  <2> DEFINE Bad == {k \in 0..n : ~Good(k)}
  <2>1. CASE Bad = {}
    BY <1>1, <2>1
  <2>2. CASE Bad # {}
    <3>1. Bad \in SUBSET Nat
      BY <1>1
    <3> HIDE DEF Bad
    <3>2. PICK k \in Bad : \A l \in Bad : k <= l
      BY <2>2, <3>1, Least
    <3>3. k \in 0..n /\ ~Good(k)
      BY <3>2 DEF Bad
    <3>4. k # 0
      BY <1>5, <3>3
    <3>5. k \in 1..n /\ k - 1 \in 0..n /\ ~(k <= k - 1)
      BY <1>1, <3>3, <3>4
    <3>6. Good(k - 1)
      BY <3>2, <3>5 DEF Bad
    <3> QED BY <1>6, <3>3, <3>5, <3>6
  <2> QED BY <2>1, <2>2
<1>8. Pre(n) = fs
  BY SubSeqFull DEF n
<1> QED BY <1>7, <1>8 DEF n

-----------------------------------------------------------------------------
\* What a parse of a list of friends gives where bytes lead to.
LEMMA FriendsAnswerParsed ==
  ASSUME NEW m \in FriendsAnswers, NEW b, NEW d,
         Carries(MessageFields, FriendsAnswerStep, b, <<m>>, d)
  PROVE  F!GetFriendsListResponse_InternalParse(m, b) = d
<1>1. PICK l \in Seq(MessageFields) : Opens(b, l) /\ Moves(FriendsAnswerStep,
                                                           <<m>>, l, d)
  BY DEF Carries
<1>2. Fields[b] = <<l>>
  BY <1>1, OpensRead
<1>3. Runs(FriendsAnswerStep, <<m>>, l,
           F!GetFriendsListResponse_InternalParse(m, b))
  BY <1>1, <1>2, FriendsAnswerRuns
<1> QED BY <1>1, <1>3 DEF Moves

\* A list of friends is the record of its three fields.
LEMMA FriendsAnswerIs ==
  ASSUME NEW m \in F!GetFriendsListResponse
  PROVE  /\ m.result \in U!AtMostOne(U!ResultCode) /\ m.friends \in Seq(Bytes)
         /\ m.unknown \in Bytes
         /\ m = [result |-> m.result, friends |-> m.friends, unknown |-> m.unknown]
<1>1. F!GetFriendsListResponse
        = [result : U!AtMostOne(U!ResultCode), friends : Seq(Bytes),
           unknown : Bytes]
  <2>1. F!Bytes = Bytes /\ F!AtMostOne(F!ResultCode) = U!AtMostOne(U!ResultCode)
    BY CodesAre DEF F!Bytes, F!Byte, Byte, Bytes, F!AtMostOne, U!AtMostOne
  <2> QED BY <2>1 DEF F!GetFriendsListResponse
<1> QED BY <1>1

\* Merging two lists merges the results and puts the friends behind each other.
LEMMA FriendsMerged ==
  ASSUME NEW m, NEW n
  PROVE  F!GetFriendsListResponse_MergeFrom(m, n)
           = [result |-> U!MergedResult(m.result, n.result),
              friends |-> m.friends \o n.friends,
              unknown |-> m.unknown \o n.unknown]
<1> DEFINE p == n.result
           q == m.result
<1>1. /\ F!Mutable(q) = U!Mutable(q)
      /\ F!ResultCode_MergeFrom(U!Mutable(q), p[1])
           = U!ResultCode_MergeFrom(U!Mutable(q), p[1])
  BY SameCodes
<1>2. (IF p = << >> THEN q ELSE <<F!ResultCode_MergeFrom(F!Mutable(q), p[1])>>)
        = U!MergedResult(q, p)
  BY <1>1 DEF U!MergedResult
<1> QED BY <1>2 DEF F!GetFriendsListResponse_MergeFrom

\* What is written for a list: the result, the strings, what is unknown.
LEMMA FriendsSerialized ==
  ASSUME NEW n, NEW g, FlatBy(n.friends, g)
  PROVE  F!GetFriendsListResponse_InternalSerialize(n)
           = U!ResultField(n.result) \o g[Len(n.friends)] \o n.unknown
<1> DEFINE p == n.result
           flat == F!FlattenSeq([i \in DOMAIN n.friends |-> F!FriendField(n.friends[i])])
<1>1. flat = g[Len(n.friends)]
  BY DEF FlatBy
<1>2. (IF p = << >> THEN << >>
       ELSE <<10>> \o F!Varint[F!ResultCode_ByteSizeLong(p[1])]
              \o F!ResultCode_InternalSerialize(p[1])) = U!ResultField(p)
  <2>1. /\ F!ResultCode_ByteSizeLong(p[1]) = U!ResultCode_ByteSizeLong(p[1])
        /\ F!ResultCode_InternalSerialize(p[1])
             = U!ResultCode_InternalSerialize(p[1])
        /\ F!Varint = U!Varint
    BY SameCodes, SameFields
  <2> QED BY <2>1 DEF U!ResultField
<1> DEFINE first == IF p = << >> THEN << >>
                    ELSE <<10>> \o F!Varint[F!ResultCode_ByteSizeLong(p[1])]
                           \o F!ResultCode_InternalSerialize(p[1])
<1>3. F!GetFriendsListResponse_InternalSerialize(n) = first \o flat \o n.unknown
  BY DEF F!GetFriendsListResponse_InternalSerialize
<1> HIDE DEF flat
<1>4. first = U!ResultField(p)
  BY <1>2
<1> HIDE DEF first
<1> QED BY <1>1, <1>3, <1>4

\* What is written of one is merged with what was there.
LEMMA FriendsAnswerCarried ==
  ASSUME NEW m \in F!GetFriendsListResponse, NEW n \in F!GetFriendsListResponse,
         n.unknown \in Foreign, Coded(n.result)
  PROVE  Carries(MessageFields, FriendsAnswerStep,
                 F!GetFriendsListResponse_InternalSerialize(n),
                 <<m>>, <<F!GetFriendsListResponse_MergeFrom(m, n)>>)
<1> DEFINE Rec(x1, x2, x3) == [result |-> x1, friends |-> x2, unknown |-> x3]
           R == U!AtMostOne(U!ResultCode)
           e1 == U!ResultField(n.result)
           y1 == U!MergedResult(m.result, n.result)
           y2 == m.friends \o n.friends
           y3 == m.unknown \o n.unknown
<1>1. /\ m.result \in R /\ n.result \in R
      /\ m.friends \in Seq(Bytes) /\ n.friends \in Seq(Bytes)
      /\ m.unknown \in Bytes /\ n.unknown \in Bytes
  BY FriendsAnswerIs
<1>2. /\ m = Rec(m.result, m.friends, m.unknown)
      /\ F!GetFriendsListResponse_MergeFrom(m, n) = Rec(y1, y2, y3)
  BY FriendsAnswerIs, FriendsMerged
<1>3. PICK g : FlatBy(n.friends, g)
  BY <1>1, FriendsAreFlat
<1> DEFINE e2 == g[Len(n.friends)]
<1>4. F!GetFriendsListResponse_InternalSerialize(n) = e1 \o e2 \o n.unknown
  BY <1>3, FriendsSerialized
<1>5. y1 \in R /\ y2 \in Seq(Bytes) /\ y3 \in Bytes
  BY <1>1, Joined, MergedResultIs DEF Bytes
<1>6. R \subseteq U!AtMostOne(Codes)
  BY CodesAre DEF U!AtMostOne
<1>7. \A x1 \in R, x2 \in Seq(Bytes),
        x3 \in Bytes : Rec(x1, x2, x3) \in FriendsAnswers
  <2>1. Bytes \subseteq Content
    BY DEF Content
  <2>2. Seq(Bytes) \subseteq Seq(Content)
    BY <2>1
  <2> HIDE DEF R
  <2> QED BY <1>6, <2>2 DEF FriendsAnswers
<1>8. \A r \in FriendsAnswers : /\ <<r>> \in Results(FriendsAnswers)
                                /\ <<r>> # Failure /\ <<r>>[1] = r
  BY DEF Results, Failure
<1> HIDE DEF R
<1>9. Carries(MessageFields, FriendsAnswerStep, e1,
              <<Rec(m.result, m.friends, m.unknown)>>,
              <<Rec(y1, m.friends, m.unknown)>>)
  <2> DEFINE r == Rec(m.result, m.friends, m.unknown)
             s == Rec(y1, m.friends, m.unknown)
             p == n.result
             v == U!ResultCode_InternalSerialize(p[1])
             c == <<r>>
             d == <<s>>
  <2>1. CASE p = << >>
    <3>1. e1 = << >> /\ d = c
      BY <1>1, <2>1, ResultFieldIs DEF U!MergedResult, R
    <3> HIDE DEF c, d, e1
    <3>2. Carries(MessageFields, FriendsAnswerStep, e1, c, d)
      BY <3>1, CarriesNone
    <3> QED BY <3>2 DEF c, d
  <2>2. CASE p # << >>
    <3> DEFINE f == [tag |-> 10, value |-> v, raw |-> e1]
               q == m.result
               w == F!ResultCode_InternalParse(F!Mutable(q), v)
    <3>1. v \in Bytes /\ e1 = StringField(10, v) /\ e1 \in Bytes
      BY <1>1, <2>2, ResultFieldIs DEF R, Bytes
    <3>2. w = y1 /\ y1 # Failure
      <4>1. U!ResultCode_InternalParse(U!Mutable(q), v) = y1 /\ y1 # Failure
        BY <1>1, <2>2, ResultIsMerged DEF R
      <4>2. /\ F!Mutable(q) = U!Mutable(q)
            /\ F!ResultCode_InternalParse(U!Mutable(q), v)
                 = U!ResultCode_InternalParse(U!Mutable(q), v)
        BY SameCodes
      <4> QED BY <4>1, <4>2
    <3> HIDE DEF v
    <3>3. f \in MessageFields /\ f.tag = 10 /\ f.value = v
      BY <3>1 DEF MessageFields, FieldSet
    <3>4. r \in FriendsAnswers /\ r.result = q
      BY <1>1, <1>7
    <3>5. [r EXCEPT !["result"] = y1] = s
      <4> HIDE DEF y1
      <4> QED OBVIOUS
    <3> HIDE DEF f, r, s, y1, q
    <3>6. FriendsAnswerStep[<<c, f>>] = IF w = F!Failure THEN F!Failure
                                        ELSE F!Store(r, "result", w)
      BY <1>8, <3>3, <3>4 DEF FriendsAnswerStep
    <3> HIDE DEF w
    <3>7. FriendsAnswerStep[<<c, f>>] = <<[r EXCEPT !["result"] = y1]>>
      BY <3>2, <3>6 DEF F!Store, F!Failure, Failure
    <3>8. FriendsAnswerStep[<<c, f>>] = d
      BY <3>5, <3>7
    <3> HIDE DEF c, d, e1
    <3>9. 10 \in Tags /\ 10 % 8 = 2
      BY DEF Tags
    <3>10. f = [tag |-> 10, value |-> v, raw |-> e1]
      BY DEF f
    <3>11. Carries(MessageFields, FriendsAnswerStep, e1, c, d)
      BY <3>1, <3>3, <3>8, <3>9, <3>10, StringCarried
    <3> QED BY <3>11 DEF c, d, r, s, q
  <2> QED BY <2>1, <2>2
<1>10. Carries(MessageFields, FriendsAnswerStep, e2,
               <<Rec(y1, m.friends, m.unknown)>>, <<Rec(y1, y2, m.unknown)>>)
  <2>1. y1 \in U!AtMostOne(Codes)
    BY <1>5, <1>6
  <2> HIDE DEF y1
  <2> QED BY <1>1, <1>3, <2>1, FriendsCarried
<1>11. Carries(MessageFields, FriendsAnswerStep, n.unknown,
               <<Rec(y1, y2, m.unknown)>>, <<Rec(y1, y2, y3)>>)
  <2> DEFINE r == Rec(y1, y2, m.unknown)
             s == Rec(y1, y2, y3)
             c == <<r>>
             d == <<s>>
  <2>1. n.unknown = << >> => d = c
    <3>1. m.unknown \o << >> = m.unknown
      BY <1>1, ConcatEmptySeq DEF Bytes
    <3> HIDE DEF y1, y2
    <3> QED BY <3>1
  <2>2. ASSUME NEW f \in FieldSet, ForeignTag(f.tag), f.raw = n.unknown
        PROVE  f \in MessageFields /\ FriendsAnswerStep[<<c, f>>] = d
    <3>1. r \in FriendsAnswers /\ r.unknown = m.unknown
      <4> HIDE DEF y1, y2, y3
      <4> QED BY <1>1, <1>5, <1>7
    <3>2. [r EXCEPT !["unknown"] = y3] = s
      <4> HIDE DEF y1, y2, y3
      <4> QED OBVIOUS
    <3>3. f.tag # 10 /\ f.tag # 18 /\ f \in MessageFields
      BY <2>2 DEF ForeignTag, MessageFields
    <3> HIDE DEF r, s
    <3>4. FriendsAnswerStep[<< <<r>>, f>>] = <<[r EXCEPT !["unknown"] = y3]>>
      BY <1>8, <2>2, <3>1, <3>3 DEF FriendsAnswerStep, F!Store, F!KeepUnknown
    <3> QED BY <3>2, <3>3, <3>4
  <2> HIDE DEF c, d
  <2>3. Carries(MessageFields, FriendsAnswerStep, n.unknown, c, d)
    BY <2>1, <2>2, ForeignCarried
  <2> QED BY <2>3 DEF c, d
<1> DEFINE c0 == <<m>>
           c1 == <<Rec(y1, m.friends, m.unknown)>>
           c2 == <<Rec(y1, y2, m.unknown)>>
           c3 == <<Rec(y1, y2, y3)>>
<1>12. /\ Carries(MessageFields, FriendsAnswerStep, e1, c0, c1)
       /\ Carries(MessageFields, FriendsAnswerStep, e2, c1, c2)
       /\ Carries(MessageFields, FriendsAnswerStep, n.unknown, c2, c3)
  <2> HIDE DEF Rec
  <2> QED BY <1>2, <1>9, <1>10, <1>11
<1>13. c3 = <<F!GetFriendsListResponse_MergeFrom(m, n)>>
  BY <1>2
<1> HIDE DEF Rec, e1, e2, c0, c1, c2, c3
<1>14. Carries(MessageFields, FriendsAnswerStep, e1 \o e2, c0, c2)
  BY <1>12, CarriesOn
<1>15. Carries(MessageFields, FriendsAnswerStep, e1 \o e2 \o n.unknown, c0, c3)
  BY <1>12, <1>14, CarriesOn
<1> QED BY <1>4, <1>13, <1>15 DEF c0

\* The same of every list of friends, however many there are and empty names
\* included; two lists are put behind each other (friend.pb.cc:620-753).
THEOREM FriendsAnswerCodec ==
  ASSUME NEW m \in F!GetFriendsListResponse, m.unknown \in Foreign, Coded(m.result),
         NEW n \in F!GetFriendsListResponse, n.unknown \in Foreign, Coded(n.result)
  PROVE  /\ F!GetFriendsListResponse_InternalParse(F!GetFriendsListResponse_Clear,
              F!GetFriendsListResponse_InternalSerialize(m)) = <<m>>
         /\ F!GetFriendsListResponse_ByteSizeLong(m)
              = Len(F!GetFriendsListResponse_InternalSerialize(m))
         /\ F!GetFriendsListResponse_CopyFrom(m) = m
         /\ F!GetFriendsListResponse_InternalParse(F!GetFriendsListResponse_Clear,
              F!GetFriendsListResponse_InternalSerialize(m)
                \o F!GetFriendsListResponse_InternalSerialize(n))
              = <<F!GetFriendsListResponse_MergeFrom(m, n)>>
<1> DEFINE z == F!GetFriendsListResponse_Clear
<1>1. /\ m.result \in U!AtMostOne(U!ResultCode) /\ m.friends \in Seq(Bytes)
      /\ m.unknown \in Bytes
  BY FriendsAnswerIs
<1>2. /\ z \in F!GetFriendsListResponse /\ z \in FriendsAnswers
      /\ z.result = << >> /\ z.friends = << >> /\ z.unknown = << >>
  BY EmptyBytes DEF F!GetFriendsListResponse_Clear, F!GetFriendsListResponse,
     FriendsAnswers, U!AtMostOne, F!AtMostOne, F!Byte, Byte, Bytes, F!Bytes
<1>3. F!GetFriendsListResponse_MergeFrom(z, m) = m
  <2>1. << >> \o m.unknown = m.unknown /\ << >> \o m.friends = m.friends
    BY <1>1, ConcatEmptySeq DEF Bytes
  <2>2. m = [result |-> m.result, friends |-> m.friends, unknown |-> m.unknown]
    BY FriendsAnswerIs
  <2>3. U!MergedResult(<< >>, m.result) = m.result
    BY <1>1, ResultFieldIs
  <2> HIDE DEF z
  <2>4. F!GetFriendsListResponse_MergeFrom(z, m)
          = [result |-> U!MergedResult(z.result, m.result),
             friends |-> z.friends \o m.friends, unknown |-> z.unknown \o m.unknown]
    BY FriendsMerged
  <2> QED BY <1>2, <2>1, <2>2, <2>3, <2>4, Zenon
<1> DEFINE a == F!GetFriendsListResponse_InternalSerialize(m)
           b == F!GetFriendsListResponse_InternalSerialize(n)
           c0 == <<z>>
           c1 == <<m>>
           c2 == <<F!GetFriendsListResponse_MergeFrom(m, n)>>
<1> HIDE DEF z
<1>4. Carries(MessageFields, FriendsAnswerStep, a, c0, c1)
  BY <1>2, <1>3, FriendsAnswerCarried
<1>5. Carries(MessageFields, FriendsAnswerStep, b, c1, c2)
  BY FriendsAnswerCarried
<1>6. F!GetFriendsListResponse_InternalParse(z, a) = c1
  <2> HIDE DEF a, c1
  <2> QED BY <1>2, <1>4, FriendsAnswerParsed
<1>7. F!GetFriendsListResponse_InternalParse(z, a \o b) = c2
  <2> HIDE DEF a, b, c1, c2
  <2>1. Carries(MessageFields, FriendsAnswerStep, a \o b, c0, c2)
    BY <1>4, <1>5, CarriesOn
  <2> QED BY <1>2, <2>1, FriendsAnswerParsed
<1>8. F!GetFriendsListResponse_ByteSizeLong(m) = Len(a)
  <2>1. PICK g : FlatBy(m.friends, g)
    BY <1>1, FriendsAreFlat
  <2> DEFINE e1 == U!ResultField(m.result)
             e2 == g[Len(m.friends)]
             k == Len(e2)
  <2>2. a = e1 \o e2 \o m.unknown
    BY <2>1, FriendsSerialized
  <2>3. Moves(SizeStep, 0, m.friends, k)
    <3>1. << >> \in U!AtMostOne(Codes) /\ << >> \in Seq(Bytes) /\ << >> \in Bytes
      BY EmptyBytes DEF U!AtMostOne, Bytes
    <3> QED BY <1>1, <2>1, <3>1, FriendsCarried
  <2> HIDE DEF k
  <2>4. F!GetFriendsListResponse_ByteSizeLong(m)
          = U!ResultSize(m.result) + k + Len(m.unknown)
    BY <1>1, <2>3, FriendsSize
  <2>5. /\ e1 \in Seq(Byte) /\ Len(e1) = U!ResultSize(m.result)
        /\ e2 \in Seq(Byte)
    <3>1. Len(m.friends) \in 0..Len(m.friends)
      BY <1>1
    <3>2. e2 \in Bytes
      BY <2>1, <3>1 DEF FlatBy
    <3> QED BY <1>1, <3>2, ResultFieldIs DEF Bytes
  <2>6. m.unknown \in Seq(Byte) /\ Len(e2) = k
    BY <1>1 DEF Bytes, k
  <2> HIDE DEF a, e1, e2
  <2> DEFINE g2 == e1 \o e2
             g3 == g2 \o m.unknown
  <2>7. g2 \in Seq(Byte) /\ Len(g2) = Len(e1) + Len(e2)
    <3>1. e1 \in Seq(Byte) /\ e2 \in Seq(Byte)
      BY <2>5
    <3> QED BY ONLY <3>1, Joined
  <2> HIDE DEF g2
  <2>8. g3 \in Seq(Byte) /\ Len(g3) = Len(g2) + Len(m.unknown)
    <3>1. g2 \in Seq(Byte) /\ m.unknown \in Seq(Byte)
      BY <2>6, <2>7
    <3> QED BY ONLY <3>1, Joined
  <2>9. a = g3
    BY <2>2 DEF g2
  <2> HIDE DEF g3
  <2> QED BY <2>4, <2>5, <2>6, <2>7, <2>8, <2>9
<1> QED BY <1>3, <1>6, <1>7, <1>8 DEF F!GetFriendsListResponse_CopyFrom, z
=============================================================================

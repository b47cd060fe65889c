----------------------------- MODULE Algorithms -----------------------------
(***************************************************************************)
(* The sequential programs of the repository, as operators: the two maze   *)
(* searches, the decimal numbers of BigInt, the K most frequent values,    *)
(* and mprpc's configuration file.  Each is compared with what it has to   *)
(* compute on every input of a small set; so are the generated messages.   *)
(***************************************************************************)
EXTENDS Integers, Sequences, SequencesExt, FiniteSets, Messages

CONSTANTS Sides,        \* sides of the (square) mazes
          Numbers,      \* operands of BigInt
          K,            \* 10 in the code
          MaxCount,     \* bound: how often a value occurs
          MaxValues     \* bound: different values

ASSUME AlgorithmsAssumption ==
  /\ Sides \subseteq Nat \ {0, 1} /\ Numbers \subseteq Nat
  /\ K \in Nat \ {0} /\ MaxCount \in Nat /\ MaxValues \in Nat

VARIABLE input

-----------------------------------------------------------------------------
(* Mazes.  A cell is <<x, y>>, a maze the set of its free cells.  A loop is *)
(* the function that gives its state after each number of rounds.          *)
Ways == {"RIGHT", "LEFT", "UP", "DOWN"}
Opposite == [RIGHT |-> "LEFT", LEFT |-> "RIGHT", UP |-> "DOWN", DOWN |-> "UP"]
Go(c, way) == CASE way = "RIGHT" -> <<c[1], c[2] + 1>>
                [] way = "LEFT" -> <<c[1], c[2] - 1>>
                [] way = "UP" -> <<c[1] - 1, c[2]>>
                [] way = "DOWN" -> <<c[1] + 1, c[2]>>

Cells(n) == (0..(n - 1)) \X (0..(n - 1))
Start == <<0, 0>>
Goal(n) == <<n - 1, n - 1>>

\* initNode() and setNodeState(): the ways that are YES.
NodeStates(n, free) ==
  [c \in Cells(n) |-> IF c \notin free THEN {}
                      ELSE {way \in Ways : Go(c, way) \in free}]

\* The edge is not taken again, in either direction.
Closed(state, c, way) ==
  [state EXCEPT ![c] = @ \ {way}, ![Go(c, way)] = @ \ {Opposite[way]}]

\* bfs.cpp: one way of the cell at the front of the queue.
Index(n, c) == c[1] * n + c[2]
TryWay(n, s, c, way) ==
  IF s.found \/ way \notin s.state[c] THEN s
  ELSE [state |-> Closed(s.state, c, way),
        path |-> [s.path EXCEPT ![Index(n, Go(c, way))] = c],
        queue |-> Append(s.queue, Go(c, way)),
        found |-> Go(c, way) = Goal(n)]

BreadthRound(n, s) ==
  LET c == Head(s.queue)
      r == TryWay(n, s, c, "RIGHT")
      l == TryWay(n, r, c, "LEFT")
      u == TryWay(n, l, c, "UP")
      t == TryWay(n, u, c, "DOWN")
  IN IF s.found \/ s.queue = << >> THEN s
     ELSE IF t.found THEN t ELSE [t EXCEPT !.queue = Tail(@)]

\* No more rounds than ways to take, and cells to begin and to end with.
Rounds(n) == 4 * n * n + 2

BreadthFirst(n, free) ==
  LET run[k \in Nat] ==
        IF k = 0
        THEN [state |-> NodeStates(n, free), found |-> FALSE,
              path |-> [i \in 0..(n * n - 1) |-> Start],
              queue |-> IF Start \in free THEN <<Start>> ELSE << >>]
        ELSE BreadthRound(n, run[k - 1])
  IN run[Rounds(n)]

\* showMazePath(): the cells marked on the way back, none for "Path is Error!".
StepBack(n, path, c) == IF c = Start THEN c ELSE path[Index(n, c)]
Marked(n, path) ==
  LET back[k \in Nat] ==
        IF k = 0 THEN Goal(n) ELSE StepBack(n, path, back[k - 1])
  IN {back[k] : k \in 0..(n * n)}
BreadthPath(n, free) ==
  LET s == BreadthFirst(n, free) IN
  IF s.queue = << >> THEN {} ELSE Marked(n, s.path)

\* dfs.cpp: the first way that is open, or back.
FirstOf(open) == IF "RIGHT" \in open THEN "RIGHT"
                 ELSE IF "LEFT" \in open THEN "LEFT"
                 ELSE IF "UP" \in open THEN "UP" ELSE "DOWN"
DepthRound(n, s) ==
  LET c == Last(s.stack)
      way == FirstOf(s.state[c])
  IN IF s.stack = << >> \/ c = Goal(n) THEN s
     ELSE IF s.state[c] = {} THEN [s EXCEPT !.stack = Front(@)]
     ELSE [state |-> Closed(s.state, c, way),
           stack |-> Append(s.stack, Go(c, way))]

DepthFirst(n, free) ==
  LET run[k \in Nat] ==
        IF k = 0
        THEN [state |-> NodeStates(n, free),
              stack |-> IF Start \in free THEN <<Start>> ELSE << >>]
        ELSE DepthRound(n, run[k - 1])
  IN run[2 * Rounds(n)].stack

-----------------------------------------------------------------------------
(* BigInt: a string of digits, here of characters.                         *)
Zero == 48
Minus == 45

\* The digit k places from the right, 0 to the left of the number.
Digit(s, k) == IF k <= Len(s) THEN s[Len(s) + 1 - k] - Zero ELSE 0
Places(l, r) == IF Len(l) < Len(r) THEN Len(r) ELSE Len(l)
None == [digits |-> << >>, flag |-> FALSE]

\* Variant: a carry is not passed on.
AddPlace_NoCarry(l, r, sum, k) ==
  [digits |-> <<Zero + ((Digit(l, k) + Digit(r, k)) % 10)>> \o sum.digits,
   flag |-> FALSE]

AddPlace(l, r, sum, k) ==
  LET ret == Digit(l, k) + Digit(r, k) + IF sum.flag THEN 1 ELSE 0 IN
  [digits |-> <<Zero + (ret % 10)>> \o sum.digits, flag |-> ret >= 10]

Plus(l, r) ==
  LET sum[k \in Nat] == IF k = 0 THEN None ELSE AddPlace(l, r, sum[k - 1], k)
      all == sum[Places(l, r)]
  IN (IF all.flag THEN <<Zero + 1>> ELSE << >>) \o all.digits

\* Shorter, or of the same length and before it in the order of strings.
Below(l, r) ==
  \/ Len(l) < Len(r)
  \/ /\ Len(l) = Len(r)
     /\ \E i \in 1..Len(l) : /\ l[i] < r[i]
                             /\ \A j \in 1..(i - 1) : l[j] = r[j]

SubtractPlace(max, min, rest, k) ==
  LET ret == Digit(max, k) - Digit(min, k) - IF rest.flag THEN 1 ELSE 0 IN
  [digits |-> <<Zero + (ret % 10)>> \o rest.digits, flag |-> ret < 0]

NoLeadingZeros(s) ==
  LET kept == {i \in DOMAIN s : s[i] # Zero} IN
  IF kept = {} THEN << >>
  ELSE SubSeq(s, CHOOSE i \in kept : \A j \in kept : i <= j, Len(s))

\* The sign of a negative difference is its last character.
Difference(l, r) ==
  LET minor == Below(l, r)
      max == IF minor THEN r ELSE l
      min == IF minor THEN l ELSE r
      rest[k \in Nat] == IF k = 0 THEN None
                         ELSE SubtractPlace(max, min, rest[k - 1], k)
  IN IF l = r THEN <<Zero>>
     ELSE NoLeadingZeros(rest[Len(max)].digits)
            \o (IF minor THEN <<Minus>> ELSE << >>)

-----------------------------------------------------------------------------
(* The K values that occur most often.  counts is the map in the order of  *)
(* its iteration; the heap may have either of two equal counts on top.     *)
Tops(counts, heap) ==
  {i \in heap : \A j \in heap : counts[i] <= counts[j]}

\* The heaps that heap may become with the i-th value.
Insert(counts, heap, i) ==
  IF i <= K THEN {heap \cup {i}}
  ELSE {IF counts[i] > counts[top] THEN (heap \ {top}) \cup {i} ELSE heap :
        top \in Tops(counts, heap)}

Heaps(counts) ==
  LET after[i \in Nat] ==
        IF i = 0 THEN {{}}
        ELSE UNION {Insert(counts, heap, i) : heap \in after[i - 1]}
  IN after[Len(counts)]

-----------------------------------------------------------------------------
(* The configuration file: a sequence of lines of characters, each but     *)
(* perhaps the last with a newline at its end.                             *)
Trim(s) ==
  LET kept == {i \in DOMAIN s : s[i] # "space"} IN
  IF kept = {} THEN s
  ELSE SubSeq(s, CHOOSE i \in kept : \A j \in kept : i <= j,
                 CHOOSE i \in kept : \A j \in kept : j <= i)

Find(s, char) ==
  LET at == {i \in DOMAIN s : s[i] = char} IN
  IF at = {} THEN 0 ELSE CHOOSE i \in at : \A j \in at : i <= j

\* insert() keeps the value a key already has.
ReadLine(map, line) ==
  LET read_buf == Trim(line)
      idx == Find(read_buf, "=")
      key == Trim(SubSeq(read_buf, 1, idx - 1))
      endidx == Find(read_buf, "newline")
      value == SubSeq(read_buf, idx + 1,
                      IF endidx = 0 THEN Len(read_buf) ELSE endidx - 1)
  IN IF read_buf[1] = "#" \/ idx = 0 THEN map
     ELSE IF \E i \in DOMAIN map : map[i].key = key THEN map
     ELSE Append(map, [key |-> key, value |-> value])

LoadConfigFile(lines) ==
  LET map[i \in 0..Len(lines)] ==
        IF i = 0 THEN << >> ELSE ReadLine(map[i - 1], lines[i])
  IN map[Len(lines)]

Load(map, key) ==
  LET at == {i \in DOMAIN map : map[i].key = key} IN
  IF at = {} THEN << >> ELSE map[CHOOSE i \in at : TRUE].value

-----------------------------------------------------------------------------
(* The inputs.                                                             *)
Decimal[n \in Nat] ==
  (IF n < 10 THEN << >> ELSE Decimal[n \div 10]) \o <<Zero + (n % 10)>>

\* The mazes of the comments (bfs.cpp:11-18, dfs.cpp:9-15), and a winding way
\* that leads UP or, mirrored, LEFT.
Drawn ==
  {<< <<0,0,1,1,1,1>>, <<1,0,0,0,0,1>>, <<1,0,1,1,0,1>>,
      <<1,0,0,0,0,1>>, <<1,0,1,1,1,1>>, <<1,0,0,0,0,0>> >>,
   << <<0,0,0,1,1>>, <<1,0,0,0,1>>, <<1,1,0,1,1>>, <<1,1,0,0,1>>, <<1,1,1,0,0>> >>,
   << <<0,1,0,0,0>>, <<0,1,0,1,0>>, <<0,1,0,1,0>>, <<0,1,0,1,0>>, <<0,0,0,1,0>> >>,
   << <<0,0,0,0,0>>, <<1,1,1,1,0>>, <<0,0,0,0,0>>, <<0,1,1,1,1>>, <<0,0,0,0,0>> >>}
Free(rows) ==
  {c \in Cells(Len(rows)) : rows[c[1] + 1][c[2] + 1] = 0}

Counts == UNION {[1..n -> 1..MaxCount] : n \in 0..MaxValues}

\* A line as its author meant it; the file ends with a newline or without.
Lines ==
  [kind : {"item"}, pad : {<< >>, <<"space">>}, key : {<<"a">>, <<"b">>},
   value : {<<"1">>, <<"space", "2">>, <<"3", "space">>, <<"=">>}]
    \cup {[kind |-> kind, pad |-> << >>, key |-> <<"a">>, value |-> <<"4">>] :
           kind \in {"comment", "note", "blank"}}
Text(line) ==
  CASE line.kind = "item" -> line.pad \o line.key \o line.pad \o <<"=">>
                               \o line.value
    [] line.kind = "comment" -> <<"space", "#">> \o line.key \o <<"=">> \o line.value
    [] line.kind = "note" -> line.key
    [] line.kind = "blank" -> <<"space", "space">>
File(lines, newline) ==
  [i \in DOMAIN lines |-> Text(lines[i]) \o
     (IF newline \/ i < Len(lines) THEN <<"newline">> ELSE << >>)]

\* MessageSets with and without each field, and with one that is not known.
Strings == {<< >>, <<65>>, <<66, 67>>}
Ints == {0, 1, 300}
WithUnknown(S) == S \cup {[m EXCEPT !.unknown = <<120, 7>>] : m \in S}
ResultCodes ==
  {U!ResultCode_set_errmsg(U!ResultCode_set_errcode(U!ResultCode_Clear, n), s)
   : n \in {0, 300}, s \in {<< >>, <<65>>}}
MessageSets ==
  [RpcHeader |-> WithUnknown(
     {H!set_args_size(H!set_method_name(H!set_service_name(H!Clear, s), t), n)
      : s \in {<< >>, <<65>>}, t \in {<< >>, <<66>>}, n \in Ints}),
   ResultCode |-> WithUnknown(ResultCodes),
   LoginRequest |-> WithUnknown(
     {U!LoginRequest_set_pwd(U!LoginRequest_set_name(U!LoginRequest_Clear, s), t)
      : s \in Strings, t \in Strings}),
   RegisterRequest |-> WithUnknown(
     {U!RegisterRequest_set_id(U!RegisterRequest_set_name(
        U!RegisterRequest_set_pwd(U!RegisterRequest_Clear, s), t), n)
      : s \in {<< >>, <<65>>}, t \in {<< >>, <<66>>}, n \in Ints}),
   LoginResponse |-> WithUnknown(
     {U!LoginResponse_set_sucess([U!LoginResponse_Clear EXCEPT !.result = r], b)
      : r \in {<< >>} \cup {<<c>> : c \in ResultCodes}, b \in BOOLEAN}),
   GetFriendsListRequest |-> WithUnknown(
     {F!GetFriendsListRequest_set_userid(F!GetFriendsListRequest_Clear, n)
      : n \in Ints}),
   GetFriendsListResponse |-> WithUnknown(
     {[F!GetFriendsListResponse_Clear EXCEPT !.result = r, !.friends = f]
      : r \in {<< >>} \cup {<<c>> : c \in ResultCodes},
        f \in {<< >>, <<<< >>>>, <<<<65>>, <<66>>>>}})]

Inputs ==
  [kind : {"sum", "difference"}, l : Numbers, r : Numbers]
    \cup (UNION {[kind : {"maze"}, n : {n}, free : SUBSET Cells(n)] : n \in Sides})
    \cup {[kind |-> "maze", n |-> Len(rows), free |-> Free(rows)] : rows \in Drawn}
    \cup [kind : {"top"}, counts : Counts]
    \cup [kind : {"config"}, lines : Lines \X Lines, newline : BOOLEAN]
    \cup UNION {[kind : {type}, m : MessageSets[type]] : type \in DOMAIN MessageSets}

AlgorithmsInit == input \in Inputs

-----------------------------------------------------------------------------
Near(c, d) == \E way \in Ways : Go(c, way) = d

\* The free cells at most k steps from the start.
Spread(free, W) == UNION {{d} \cup {c \in free : Near(c, d)} : d \in W}
Within(free, k) ==
  LET reached[i \in Nat] ==
        IF i = 0 THEN {Start} \cap free ELSE Spread(free, reached[i - 1])
  IN reached[k]
Distance(n, free) ==
  CHOOSE k \in 0..(n * n) : /\ Goal(n) \in Within(free, k)
                            /\ k > 0 => Goal(n) \notin Within(free, k - 1)

\* Both searches find a way exactly if there is one.  The breadth first one
\* marks a shortest way; what is left on the stack of the other leads over
\* free cells from the start to the goal (bfs.cpp:79-162, dfs.cpp:75-117).
MazesAreSolved(n, free) ==
  LET marked == BreadthPath(n, free)
      stack == DepthFirst(n, free)
      dist == Distance(n, free)
      Layer(k) == marked \cap (Within(free, k) \
                                IF k = 0 THEN {} ELSE Within(free, k - 1))
  IN IF Goal(n) \notin Within(free, n * n)
     THEN marked = {} /\ stack = << >>
     ELSE /\ Cardinality(marked) = dist + 1
          /\ {Start, Goal(n)} \subseteq marked
          /\ \A k \in 0..dist : Cardinality(Layer(k)) = 1
          /\ \A k \in 1..dist :
               \E c \in Layer(k), d \in Layer(k - 1) : Near(c, d)
          /\ stack[1] = Start /\ Last(stack) = Goal(n)
          /\ ToSet(stack) \subseteq free
          /\ \A i \in 2..Len(stack) : Near(stack[i - 1], stack[i])

\* The heap keeps K values, or all, and none that occurs less often than one it
\* dropped (BigdataInTopK.cpp:35-49).
TopIsKept(counts) ==
  \A heap \in Heaps(counts) :
    /\ Cardinality(heap) = IF Len(counts) < K THEN Len(counts) ELSE K
    /\ \A i \in heap, j \in DOMAIN counts \ heap : counts[i] >= counts[j]

\* A key has the value of its first item, spaces before it included; those
\* behind it are kept unless the file ends there (mprpcconfig.cc:7-65).
FirstItemCounts(lines, newline) ==
  LET map == LoadConfigFile(File(lines, newline)) IN
  \A key \in {<<"a">>, <<"b">>, <<"c">>} :
    LET at == {i \in DOMAIN lines :
                 lines[i].kind = "item" /\ lines[i].key = key}
        i == CHOOSE j \in at : \A k \in at : j <= k
        value == lines[i].value
    IN Load(map, key) = IF at = {} THEN << >>
                        ELSE IF i = Len(lines) /\ ~newline /\ Last(value) = "space"
                        THEN Front(value) ELSE value

\* What is serialized is parsed again, unknown fields included, in the size
\* that was announced; parsing two messages in a row merges them.
CodecIsFaithful(S, m, clear, P(_, _), Serialize(_), Size(_), Merge(_, _), Copy(_)) ==
  /\ P(clear, Serialize(m)) = <<m>>
  /\ Size(m) = Len(Serialize(m))
  /\ Copy(m) = m
  /\ \A n \in S : P(clear, Serialize(m) \o Serialize(n)) = <<Merge(m, n)>>

MessageIsParsedAgain(type, m) ==
  LET S == MessageSets[type] IN
  CASE type = "RpcHeader" -> CodecIsFaithful(S, m, H!Clear, H!InternalParse,
         H!InternalSerialize, H!ByteSizeLong, H!MergeFrom, H!CopyFrom)
    [] type = "ResultCode" -> CodecIsFaithful(S, m, U!ResultCode_Clear,
         U!ResultCode_InternalParse, U!ResultCode_InternalSerialize,
         U!ResultCode_ByteSizeLong, U!ResultCode_MergeFrom, U!ResultCode_CopyFrom)
    [] type = "LoginRequest" -> CodecIsFaithful(S, m, U!LoginRequest_Clear,
         U!LoginRequest_InternalParse, U!LoginRequest_InternalSerialize,
         U!LoginRequest_ByteSizeLong, U!LoginRequest_MergeFrom,
         U!LoginRequest_CopyFrom)
    [] type = "RegisterRequest" -> CodecIsFaithful(S, m, U!RegisterRequest_Clear,
         U!RegisterRequest_InternalParse, U!RegisterRequest_InternalSerialize,
         U!RegisterRequest_ByteSizeLong, U!RegisterRequest_MergeFrom,
         U!RegisterRequest_CopyFrom)
    [] type = "LoginResponse" ->
         /\ CodecIsFaithful(S, m, U!LoginResponse_Clear,
              U!LoginResponse_InternalParse, U!LoginResponse_InternalSerialize,
              U!LoginResponse_ByteSizeLong, U!LoginResponse_MergeFrom,
              U!LoginResponse_CopyFrom)
         /\ CodecIsFaithful(S, m, U!RegisterResponse_Clear,
              U!RegisterResponse_InternalParse,
              U!RegisterResponse_InternalSerialize,
              U!RegisterResponse_ByteSizeLong, U!RegisterResponse_MergeFrom,
              U!RegisterResponse_CopyFrom)
    [] type = "GetFriendsListRequest" ->
         CodecIsFaithful(S, m, F!GetFriendsListRequest_Clear,
           F!GetFriendsListRequest_InternalParse,
           F!GetFriendsListRequest_InternalSerialize,
           F!GetFriendsListRequest_ByteSizeLong,
           F!GetFriendsListRequest_MergeFrom, F!GetFriendsListRequest_CopyFrom)
    [] type = "GetFriendsListResponse" ->
         CodecIsFaithful(S, m, F!GetFriendsListResponse_Clear,
           F!GetFriendsListResponse_InternalParse,
           F!GetFriendsListResponse_InternalSerialize,
           F!GetFriendsListResponse_ByteSizeLong,
           F!GetFriendsListResponse_MergeFrom, F!GetFriendsListResponse_CopyFrom)

\* Every program computes what it is for: the searches, the heap, the
\* configuration file and the messages as said above, and BigInt the sum of two
\* numbers, or their distance followed by the sign (bigint.cpp:21-162).
ResultsAreRight ==
  CASE input.kind = "maze" -> MazesAreSolved(input.n, input.free)
    [] input.kind = "sum" ->
         Plus(Decimal[input.l], Decimal[input.r]) = Decimal[input.l + input.r]
    [] input.kind = "difference" ->
         Difference(Decimal[input.l], Decimal[input.r]) =
           IF input.l < input.r
           THEN Append(Decimal[input.r - input.l], Minus)
           ELSE Decimal[input.l - input.r]
    [] input.kind = "top" -> TopIsKept(input.counts)
    [] input.kind = "config" -> FirstItemCounts(input.lines, input.newline)
    [] input.kind \in DOMAIN MessageSets -> MessageIsParsedAgain(input.kind, input.m)
=============================================================================

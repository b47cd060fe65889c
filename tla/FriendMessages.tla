--------------------------- MODULE FriendMessages ---------------------------
(***************************************************************************)
(* The messages of friend.proto, as protoc generated them; its ResultCode  *)
(* is a class of its own, with the same fields as that of user.proto.      *)
(***************************************************************************)
EXTENDS Protobuf

Bytes == Seq(Byte)
AtMostOne(S) == {<< >>} \cup {<<x>> : x \in S}

-----------------------------------------------------------------------------
ResultCode == [errcode : Nat, errmsg : Bytes, unknown : Bytes]
ResultCode_Clear == [errcode |-> 0, errmsg |-> << >>, unknown |-> << >>]
ResultCode_InternalParse(m, b) ==
  Parse(LAMBDA r, f : CASE f.tag = 8 -> Store(r, "errcode", f.value)
                        [] f.tag = 18 -> Store(r, "errmsg", f.value)
                        [] OTHER -> KeepUnknown(r, f), m, b)
ResultCode_InternalSerialize(m) ==
  VarintField(8, m.errcode) \o BytesField(18, m.errmsg) \o m.unknown
ResultCode_ByteSizeLong(m) ==
  VarintSize(m.errcode) + BytesSize(m.errmsg) + Len(m.unknown)
ResultCode_MergeFrom(m, from) ==
  [errcode |-> Merged(m.errcode, from.errcode, 0),
   errmsg |-> Merged(m.errmsg, from.errmsg, << >>),
   unknown |-> m.unknown \o from.unknown]
ResultCode_CopyFrom(from) == ResultCode_MergeFrom(ResultCode_Clear, from)
ResultCode_set_errcode(m, value) == [m EXCEPT !.errcode = value]
ResultCode_set_errmsg(m, value) == [m EXCEPT !.errmsg = value]
Mutable(p) == IF p = << >> THEN ResultCode_Clear ELSE p[1]

-----------------------------------------------------------------------------
GetFriendsListRequest == [userid : Nat, unknown : Bytes]
GetFriendsListRequest_Clear == [userid |-> 0, unknown |-> << >>]
GetFriendsListRequest_InternalParse(m, b) ==
  Parse(LAMBDA r, f : IF f.tag = 8 THEN Store(r, "userid", f.value)
                      ELSE KeepUnknown(r, f), m, b)
GetFriendsListRequest_InternalSerialize(m) ==
  VarintField(8, m.userid) \o m.unknown
GetFriendsListRequest_ByteSizeLong(m) == VarintSize(m.userid) + Len(m.unknown)
GetFriendsListRequest_MergeFrom(m, from) ==
  [userid |-> Merged(m.userid, from.userid, 0),
   unknown |-> m.unknown \o from.unknown]
GetFriendsListRequest_CopyFrom(from) ==
  GetFriendsListRequest_MergeFrom(GetFriendsListRequest_Clear, from)
GetFriendsListRequest_set_userid(m, value) == [m EXCEPT !.userid = value]

-----------------------------------------------------------------------------
\* An element of the repeated field is written even if it is empty.
FriendField(name) == <<18>> \o Varint[Len(name)] \o name

GetFriendsListResponse == [result : AtMostOne(ResultCode),
                           friends : Seq(Bytes), unknown : Bytes]
GetFriendsListResponse_Clear ==
  [result |-> << >>, friends |-> << >>, unknown |-> << >>]
GetFriendsListResponse_InternalParse(m, b) ==
  Parse(LAMBDA r, f :
          CASE f.tag = 10 ->
                 LET p == ResultCode_InternalParse(Mutable(r.result), f.value)
                 IN IF p = Failure THEN Failure ELSE Store(r, "result", p)
            [] f.tag = 18 -> Store(r, "friends", Append(r.friends, f.value))
            [] OTHER -> KeepUnknown(r, f), m, b)
GetFriendsListResponse_InternalSerialize(m) ==
  (IF m.result = << >> THEN << >>
   ELSE <<10>> \o Varint[ResultCode_ByteSizeLong(m.result[1])]
          \o ResultCode_InternalSerialize(m.result[1]))
    \o FlattenSeq([i \in DOMAIN m.friends |-> FriendField(m.friends[i])])
    \o m.unknown
GetFriendsListResponse_ByteSizeLong(m) ==
  LET n == ResultCode_ByteSizeLong(m.result[1]) IN
  (IF m.result = << >> THEN 0 ELSE 1 + Len(Varint[n]) + n)
    + FoldLeft(LAMBDA sum, s : sum + 1 + Len(Varint[Len(s)]) + Len(s), 0,
               m.friends)
    + Len(m.unknown)
GetFriendsListResponse_MergeFrom(m, from) ==
  [result |-> IF from.result = << >> THEN m.result
              ELSE <<ResultCode_MergeFrom(Mutable(m.result), from.result[1])>>,
   friends |-> m.friends \o from.friends,
   unknown |-> m.unknown \o from.unknown]
GetFriendsListResponse_CopyFrom(from) ==
  GetFriendsListResponse_MergeFrom(GetFriendsListResponse_Clear, from)
GetFriendsListResponse_mutable_result(m) == [m EXCEPT !.result = <<Mutable(@)>>]
GetFriendsListResponse_add_friends(m, name) ==
  [m EXCEPT !.friends = Append(@, name)]
=============================================================================

---------------------------- MODULE UserMessages ----------------------------
(***************************************************************************)
(* The messages of user.proto and the service UserServiceRpc, as protoc    *)
(* generated them.  A ResultCode within a response is a pointer that may   *)
(* be null: a sequence of at most one.                                     *)
(***************************************************************************)
EXTENDS Protobuf

Bytes == Seq(Byte)
AtMostOne(S) == {<< >>} \cup {<<x>> : x \in S}

-----------------------------------------------------------------------------
ResultCode == [errcode : Nat, errmsg : Bytes, unknown : Bytes]
ResultCode_Clear == [errcode |-> 0, errmsg |-> << >>, unknown |-> << >>]
ResultCode_InternalParse(m, b) ==
  Parse(LAMBDA r, f : CASE f.tag = 8 -> Store(r, "errcode", f.value)
                        [] f.tag = 18 -> Store(r, "errmsg", f.value)
                        [] OTHER -> KeepUnknown(r, f), m, b)
ResultCode_InternalSerialize(m) ==
  VarintField(8, m.errcode) \o BytesField(18, m.errmsg) \o m.unknown
ResultCode_ByteSizeLong(m) ==
  VarintSize(m.errcode) + BytesSize(m.errmsg) + Len(m.unknown)
ResultCode_MergeFrom(m, from) ==
  [errcode |-> Merged(m.errcode, from.errcode, 0),
   errmsg |-> Merged(m.errmsg, from.errmsg, << >>),
   unknown |-> m.unknown \o from.unknown]
ResultCode_CopyFrom(from) == ResultCode_MergeFrom(ResultCode_Clear, from)
ResultCode_set_errcode(m, value) == [m EXCEPT !.errcode = value]
ResultCode_set_errmsg(m, value) == [m EXCEPT !.errmsg = value]

\* A field of type ResultCode: null unless it is read or asked for.
Mutable(p) == IF p = << >> THEN ResultCode_Clear ELSE p[1]
ParseResult(r, f) ==
  LET p == ResultCode_InternalParse(Mutable(r.result), f.value) IN
  IF p = Failure THEN Failure ELSE Store(r, "result", p)
ResultField(p) ==
  IF p = << >> THEN << >>
  ELSE <<10>> \o Varint[ResultCode_ByteSizeLong(p[1])]
         \o ResultCode_InternalSerialize(p[1])
ResultSize(p) ==
  IF p = << >> THEN 0
  ELSE LET n == ResultCode_ByteSizeLong(p[1]) IN 1 + Len(Varint[n]) + n
MergedResult(p, from) ==
  IF from = << >> THEN p ELSE <<ResultCode_MergeFrom(Mutable(p), from[1])>>

-----------------------------------------------------------------------------
LoginRequest == [name : Bytes, pwd : Bytes, unknown : Bytes]
LoginRequest_Clear == [name |-> << >>, pwd |-> << >>, unknown |-> << >>]
LoginRequest_InternalParse(m, b) ==
  Parse(LAMBDA r, f : CASE f.tag = 10 -> Store(r, "name", f.value)
                        [] f.tag = 18 -> Store(r, "pwd", f.value)
                        [] OTHER -> KeepUnknown(r, f), m, b)
LoginRequest_InternalSerialize(m) ==
  BytesField(10, m.name) \o BytesField(18, m.pwd) \o m.unknown
LoginRequest_ByteSizeLong(m) ==
  BytesSize(m.name) + BytesSize(m.pwd) + Len(m.unknown)
LoginRequest_MergeFrom(m, from) ==
  [name |-> Merged(m.name, from.name, << >>),
   pwd |-> Merged(m.pwd, from.pwd, << >>),
   unknown |-> m.unknown \o from.unknown]
LoginRequest_CopyFrom(from) == LoginRequest_MergeFrom(LoginRequest_Clear, from)
LoginRequest_set_name(m, value) == [m EXCEPT !.name = value]
LoginRequest_set_pwd(m, value) == [m EXCEPT !.pwd = value]

-----------------------------------------------------------------------------
LoginResponse == [result : AtMostOne(ResultCode), sucess : BOOLEAN,
                  unknown : Bytes]
LoginResponse_Clear ==
  [result |-> << >>, sucess |-> FALSE, unknown |-> << >>]
LoginResponse_InternalParse(m, b) ==
  Parse(LAMBDA r, f : CASE f.tag = 10 -> ParseResult(r, f)
                        [] f.tag = 16 -> Store(r, "sucess", f.value # 0)
                        [] OTHER -> KeepUnknown(r, f), m, b)
LoginResponse_InternalSerialize(m) ==
  ResultField(m.result) \o BoolField(16, m.sucess) \o m.unknown
LoginResponse_ByteSizeLong(m) ==
  ResultSize(m.result) + BoolSize(m.sucess) + Len(m.unknown)
LoginResponse_MergeFrom(m, from) ==
  [result |-> MergedResult(m.result, from.result),
   sucess |-> Merged(m.sucess, from.sucess, FALSE),
   unknown |-> m.unknown \o from.unknown]
LoginResponse_CopyFrom(from) ==
  LoginResponse_MergeFrom(LoginResponse_Clear, from)
LoginResponse_mutable_result(m) == [m EXCEPT !.result = <<Mutable(@)>>]
LoginResponse_set_sucess(m, value) == [m EXCEPT !.sucess = value]

-----------------------------------------------------------------------------
RegisterRequest == [id : Nat, name : Bytes, pwd : Bytes, unknown : Bytes]
RegisterRequest_Clear ==
  [id |-> 0, name |-> << >>, pwd |-> << >>, unknown |-> << >>]
RegisterRequest_InternalParse(m, b) ==
  Parse(LAMBDA r, f : CASE f.tag = 8 -> Store(r, "id", f.value)
                        [] f.tag = 18 -> Store(r, "name", f.value)
                        [] f.tag = 26 -> Store(r, "pwd", f.value)
                        [] OTHER -> KeepUnknown(r, f), m, b)
RegisterRequest_InternalSerialize(m) ==
  VarintField(8, m.id) \o BytesField(18, m.name) \o BytesField(26, m.pwd)
    \o m.unknown
RegisterRequest_ByteSizeLong(m) ==
  VarintSize(m.id) + BytesSize(m.name) + BytesSize(m.pwd) + Len(m.unknown)
RegisterRequest_MergeFrom(m, from) ==
  [id |-> Merged(m.id, from.id, 0),
   name |-> Merged(m.name, from.name, << >>),
   pwd |-> Merged(m.pwd, from.pwd, << >>),
   unknown |-> m.unknown \o from.unknown]
RegisterRequest_CopyFrom(from) ==
  RegisterRequest_MergeFrom(RegisterRequest_Clear, from)
RegisterRequest_set_id(m, value) == [m EXCEPT !.id = value]
RegisterRequest_set_name(m, value) == [m EXCEPT !.name = value]
RegisterRequest_set_pwd(m, value) == [m EXCEPT !.pwd = value]

-----------------------------------------------------------------------------
RegisterResponse == [result : AtMostOne(ResultCode), sucess : BOOLEAN,
                     unknown : Bytes]
RegisterResponse_Clear ==
  [result |-> << >>, sucess |-> FALSE, unknown |-> << >>]
RegisterResponse_InternalParse(m, b) ==
  Parse(LAMBDA r, f : CASE f.tag = 10 -> ParseResult(r, f)
                        [] f.tag = 16 -> Store(r, "sucess", f.value # 0)
                        [] OTHER -> KeepUnknown(r, f), m, b)
RegisterResponse_InternalSerialize(m) ==
  ResultField(m.result) \o BoolField(16, m.sucess) \o m.unknown
RegisterResponse_ByteSizeLong(m) ==
  ResultSize(m.result) + BoolSize(m.sucess) + Len(m.unknown)
RegisterResponse_MergeFrom(m, from) ==
  [result |-> MergedResult(m.result, from.result),
   sucess |-> Merged(m.sucess, from.sucess, FALSE),
   unknown |-> m.unknown \o from.unknown]
RegisterResponse_CopyFrom(from) ==
  RegisterResponse_MergeFrom(RegisterResponse_Clear, from)
RegisterResponse_mutable_result(m) == [m EXCEPT !.result = <<Mutable(@)>>]
RegisterResponse_set_sucess(m, value) == [m EXCEPT !.sucess = value]
=============================================================================

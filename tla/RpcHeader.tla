----------------------------- MODULE RpcHeader -----------------------------
(***************************************************************************)
(* The message mprpc.RpcHeader, which goes before the arguments of a call, *)
(* as protoc generated it.                                                 *)
(***************************************************************************)
EXTENDS Protobuf

RpcHeader == [service_name : Seq(Byte), method_name : Seq(Byte),
              args_size : Nat, unknown : Seq(Byte)]

Clear == [service_name |-> << >>, method_name |-> << >>, args_size |-> 0,
          unknown |-> << >>]

InternalParse(m, b) ==
  Parse(LAMBDA r, f : CASE f.tag = 10 -> Store(r, "service_name", f.value)
                        [] f.tag = 18 -> Store(r, "method_name", f.value)
                        [] f.tag = 24 -> Store(r, "args_size", f.value)
                        [] OTHER -> KeepUnknown(r, f), m, b)

InternalSerialize(m) ==
  BytesField(10, m.service_name) \o BytesField(18, m.method_name)
    \o VarintField(24, m.args_size) \o m.unknown

ByteSizeLong(m) == BytesSize(m.service_name) + BytesSize(m.method_name)
                     + VarintSize(m.args_size) + Len(m.unknown)

MergeFrom(m, from) ==
  [service_name |-> Merged(m.service_name, from.service_name, << >>),
   method_name |-> Merged(m.method_name, from.method_name, << >>),
   args_size |-> Merged(m.args_size, from.args_size, 0),
   unknown |-> m.unknown \o from.unknown]

CopyFrom(from) == MergeFrom(Clear, from)

set_service_name(m, value) == [m EXCEPT !.service_name = value]
set_method_name(m, value) == [m EXCEPT !.method_name = value]
set_args_size(m, value) == [m EXCEPT !.args_size = value]
=============================================================================

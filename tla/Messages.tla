------------------------------ MODULE Messages ------------------------------
(***************************************************************************)
(* The generated messages of mprpc and of its two example services.        *)
(***************************************************************************)
H == INSTANCE RpcHeader
U == INSTANCE UserMessages
F == INSTANCE FriendMessages
=============================================================================

-------------------------------- MODULE MCRpc --------------------------------
(***************************************************************************)
(* The RPC stubs for TLC: all of them, with their real sizes.              *)
(***************************************************************************)
EXTENDS RpcStub, RpcTable
=============================================================================

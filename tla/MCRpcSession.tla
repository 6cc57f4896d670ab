----------------------------- MODULE MCRpcSession -----------------------------
(* Small instances of RpcSession. *)
EXTENDS RpcSession
=============================================================================

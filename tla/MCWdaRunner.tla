----------------------------- MODULE MCWdaRunner -----------------------------
(* A small instance of WdaRunner.                                           *)
EXTENDS WdaRunner
=============================================================================

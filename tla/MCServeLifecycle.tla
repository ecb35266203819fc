-------------------------- MODULE MCServeLifecycle --------------------------
(* ServeLifecycle with three connections: one may be idle while one is new  *)
(* and one in the middle of a request.                                     *)
EXTENDS ServeLifecycle
=============================================================================

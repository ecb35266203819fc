----------------------------- MODULE MCProcess ------------------------------
(* Process with one machine that may change once.                          *)
EXTENDS Process

OneObject == {[ifaces |-> <<"ip">>, renderable |-> TRUE]}
=============================================================================

------------------------- MODULE MCRequestPipeline --------------------------
(* Two concurrent requests; the counters are all they share.               *)
EXTENDS RequestPipeline
=============================================================================

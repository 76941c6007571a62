---------------------------- MODULE MCGraphRun ----------------------------
(* GraphRun on small sets of requests and instances. *)
EXTENDS GraphRun
=============================================================================

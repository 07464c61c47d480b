------------------------------ MODULE MCShutdown ------------------------------
(* A task, a publication worker, the republishing task and a listener,
   and a channel for one announcement. *)
EXTENDS Shutdown

CONSTANTS t1, w1, l1
=============================================================================

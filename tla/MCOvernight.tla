---------------------------- MODULE MCOvernight ----------------------------
(* Three tasks, a queue of two, two connections. *)
EXTENDS Overnight

CONSTANTS t1, t2, t3
=============================================================================

---------------------------- MODULE MCScheduler ----------------------------
(* A managed consumer that runs until it is cancelled, and a one-time job  *)
(* of a plugin, with two calls of start() at a time.                       *)
EXTENDS Scheduler

CONSTANTS co, once, r1, r2
=============================================================================

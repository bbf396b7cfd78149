---------------------------- MODULE MCScheduler ----------------------------
(* The scheduler by itself, with low water marks. *)
EXTENDS Scheduler

MCMarks == {<<4, 5>>}
=============================================================================

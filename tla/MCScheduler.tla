---------------------------- MODULE MCScheduler ----------------------------
(***************************************************************************)
(* Scheduler for TLC: main and the threads it creates. sleep() is called   *)
(* with a time that lasts two turns of its loop while there is one thread, *)
(* one turn when there are two and none when there are three.              *)
(***************************************************************************)
EXTENDS Scheduler

MCSleepTimes == {2}
=============================================================================

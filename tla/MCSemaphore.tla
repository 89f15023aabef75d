---------------------------- MODULE MCSemaphore ----------------------------
(***************************************************************************)
(* Semaphore for TLC: two workers, two permits and three calls each, so    *)
(* that a third taker is refused, a release finds the counter at its       *)
(* maximum, and a sleeper is woken or outruns its pause.                   *)
(***************************************************************************)
EXTENDS Semaphore
=============================================================================

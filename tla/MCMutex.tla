------------------------------ MODULE MCMutex ------------------------------
(***************************************************************************)
(* Mutex for TLC. MCMutex.cfg: two workers, nested and misused calls, and  *)
(* everything that follows an overrun. MCMutexQueue.cfg: three workers, so *)
(* that two can sleep in the queue, followed up to the first overrun only. *)
(***************************************************************************)
EXTENDS Mutex

UpToOverrun == ~overran
=============================================================================

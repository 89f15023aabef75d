----------------------------- MODULE MCMonitor -----------------------------
(***************************************************************************)
(* Monitor for TLC: two workers with three calls each; once a thread has   *)
(* outrun its pause, only the behaviours with half of the calls still to   *)
(* come are followed, since a stale entry may hold anything.               *)
(***************************************************************************)
EXTENDS Monitor, FiniteSetsExt

EarlyOverrun ==
  overran => MapThenSumSet(LAMBDA t : calls[t], Workers) >= MaxCalls
=============================================================================

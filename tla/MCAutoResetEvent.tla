-------------------------- MODULE MCAutoResetEvent --------------------------
(***************************************************************************)
(* AutoResetEvent for TLC: three threads with two calls each, enough for   *)
(* two sets that overlap while a waiter passes between the test and the    *)
(* store of one of them, and for two waiters that compete for one set.     *)
(***************************************************************************)
EXTENDS AutoResetEvent
=============================================================================

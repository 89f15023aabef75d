------------------------- MODULE MCManualResetEvent -------------------------
(***************************************************************************)
(* ManualResetEvent for TLC. MCManualResetEvent.cfg: three workers, so     *)
(* that two sleep in the queue when the third sets the event, followed up  *)
(* to the first overrun. MCManualResetEventBlocks.cfg: what an overrun     *)
(* does to one waiter.                                                     *)
(***************************************************************************)
EXTENDS ManualResetEvent

UpToOverrun == ~overran
=============================================================================

----------------------------- MODULE MCDisplay -----------------------------
(***************************************************************************)
(* Display for TLC: two lines of four cells and the spare line, two        *)
(* terminals, two threads that print two characters between them, wherever *)
(* the cursor is at the start, and one interrupt. Once two threads have    *)
(* met in a terminal and a copy has been overtaken, the two ghosts stay    *)
(* set and nothing is claimed any more.                                    *)
(***************************************************************************)
EXTENDS Display, TLC

WriterSymmetry == Permutations(Writers)

StillClaimed == ~(torn /\ crowded)
=============================================================================

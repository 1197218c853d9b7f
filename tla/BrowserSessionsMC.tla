------------------------- MODULE BrowserSessionsMC -------------------------
(* A small instance of BrowserSessions for TLC.                            *)
EXTENDS BrowserSessions, TLC

\* Calls are alike: nothing distinguishes one from another but what it does.
Symmetry == Permutations(Call)
=============================================================================

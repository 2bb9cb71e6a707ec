---------------------------- MODULE MCMatchHistory ----------------------------
(* Small instances of the match history for TLC.                           *)
EXTENDS MatchHistory, TLC

CONSTANTS c1, c2

Symmetry == Permutations(Calls)
===============================================================================

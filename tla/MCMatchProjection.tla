--------------------------- MODULE MCMatchProjection ---------------------------
(* Small instances of the projection for TLC.                              *)
EXTENDS MatchProjection, TLC

CONSTANTS p1, p2, k1, k2, k3, c1, c2

(* A clip of each player.                                                  *)
TwoFiles == {1, 2}
BothPlayers == (1 :> p1) @@ (2 :> p2)

Symmetry == Permutations(Codes) \cup Permutations(Calls)
===============================================================================

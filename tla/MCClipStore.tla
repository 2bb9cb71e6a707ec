------------------------------ MODULE MCClipStore ------------------------------
(* Small instances of the clip store for TLC.                              *)
EXTENDS ClipStore, TLC

CONSTANTS f1, m1, m2, c1, c2, video, poster

OwnerOfOne == [f \in Files |-> m1]

Symmetry == Permutations(Calls)
===============================================================================

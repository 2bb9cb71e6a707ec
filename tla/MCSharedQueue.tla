----------------------------- MODULE MCSharedQueue -----------------------------
(* Small instances of the queue with its enqueues for TLC.                 *)
EXTENDS SharedQueue, TLC

CONSTANTS p1, p2, w1, w2, c1, e1, e2

OneJob == {1}
CancelAndDelete == {"cancel", "delete"}

Symmetry == Permutations(Players) \cup Permutations(Workers) \cup Permutations(Enqueues)
===============================================================================

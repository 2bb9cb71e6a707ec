--------------------------------- MODULE MCAuth ---------------------------------
(* Small instances of the logins for TLC.                                  *)
EXTENDS Auth, TLC

CONSTANTS p1, p2, i1, i2, s1, s2, t1, t2, c1, c2

OneUse == [i \in Invites |-> 1]

Symmetry == Permutations(People) \cup Permutations(Invites) \cup Permutations(States)
              \cup Permutations(Tokens) \cup Permutations(Calls)
===============================================================================

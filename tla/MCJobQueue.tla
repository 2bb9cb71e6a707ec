------------------------------ MODULE MCJobQueue ------------------------------
(* Small instances of the job queue for TLC.                               *)
EXTENDS JobQueue, TLC

CONSTANTS w1, w2, c1, c2

OneJob == {1}
AllRequests == RequestKinds

(* Workers and call slots are interchangeable; jobs are ordered by age.    *)
Symmetry == Permutations(Workers) \cup Permutations(Calls)
===============================================================================

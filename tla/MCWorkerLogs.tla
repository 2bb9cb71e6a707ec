------------------------------ MODULE MCWorkerLogs ------------------------------
(* Small instances of the worker fleet for TLC.                            *)
EXTENDS WorkerLogs, TLC

CONSTANTS n1, t1, t2, c1, c2

Symmetry == Permutations(Tokens) \cup Permutations(Calls)
===============================================================================

------------------------------- MODULE MCEnqueue -------------------------------
(* A small instance of the enqueue protocol for TLC.                        *)
EXTENDS Enqueue

CONSTANTS p1, p2, p3, c1, c2, l1, l2

TwoJobs == {1, 2}
===============================================================================

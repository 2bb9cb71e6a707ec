-------------------------------- MODULE MCReclip --------------------------------
(* Small instances of the reclip for TLC.                                  *)
EXTENDS Reclip, TLC

CONSTANTS p1, p2, c1, a1

TwoJobs == {1, 2}

(* The bound of the search: some job is left of which the properties speak. *)
OneClean == raced \cup late # Jobs

Symmetry == Permutations(Players)
===============================================================================

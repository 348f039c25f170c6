------------------------ MODULE MCEODOperationWorker ------------------------
(***************************************************************************)
(* Instance of EODOperationWorker for TLC.  The shortest configuration the *)
(* code accepts has a lease of three heartbeat intervals.                  *)
(***************************************************************************)
EXTENDS EODOperationWorker, TLC

CONSTANTS j1, j2, r1, r2, w1, w2

Symmetry == Permutations({j1, j2}) \cup Permutations({r1, r2})
            \cup Permutations({w1, w2})
=============================================================================

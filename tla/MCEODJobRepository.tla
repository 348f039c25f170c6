------------------------- MODULE MCEODJobRepository -------------------------
(***************************************************************************)
(* Instance of EODJobRepository for TLC: three jobs of at most two         *)
(* requests, so that a chain of retries and a competing request both fit.  *)
(***************************************************************************)
EXTENDS EODJobRepository, TLC

CONSTANTS j1, j2, j3, r1, r2, k1, k2, w1, w2

Symmetry == Permutations({j1, j2, j3}) \cup Permutations({r1, r2})
            \cup Permutations({k1, k2}) \cup Permutations({w1, w2})
=============================================================================

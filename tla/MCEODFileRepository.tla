------------------------ MODULE MCEODFileRepository ------------------------
(***************************************************************************)
(* Instance of EODFileRepository for TLC: two writers that may be given    *)
(* the same generation id, and a reader.                                   *)
(***************************************************************************)
EXTENDS EODFileRepository, TLC

CONSTANTS g1, g2, g3, b1, b2, p1, p2, c1

Symmetry == Permutations({g1, g2, g3}) \cup Permutations({b1, b2})
            \cup Permutations({p1, p2})
=============================================================================

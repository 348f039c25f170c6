----------------------- MODULE MCEODDatasetOperations -----------------------
(***************************************************************************)
(* Instance of EODMaintenanceRecords for TLC: two updating threads, two    *)
(* that clean the repository and a dry run.  Both limits of maintenance    *)
(* are reached.  What was told is never read again, so that states are     *)
(* told apart without it.                                                  *)
(***************************************************************************)
EXTENDS EODMaintenanceRecords, TLC

CONSTANTS g1, g2, g3, b1, b2, p1, p2, m1, m2

Symmetry == Permutations({g1, g2, g3}) \cup Permutations({b1, b2})
            \cup Permutations({p1, p2}) \cup Permutations({m1, m2})

WithoutTold == recordVars
=============================================================================

------------------------------ MODULE MCEODBatch ------------------------------
(***************************************************************************)
(* A small instance of EODBatchRecords for TLC.  A record that was made is *)
(* never read again, so that states are told apart without it.             *)
(***************************************************************************)
EXTENDS EODBatchRecords, TLC

Symmetry == Permutations(Batches)

WithoutTold == vars
=============================================================================

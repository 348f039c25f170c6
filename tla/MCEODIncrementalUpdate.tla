------------------------ MODULE MCEODIncrementalUpdate ------------------------
(***************************************************************************)
(* A small instance of EODUpdateRecords for TLC.  What a call reports is   *)
(* never read again, so that states are told apart without it.             *)
(***************************************************************************)
EXTENDS EODUpdateRecords, TLC

MCDays == 1..5
MCTradingDays == {1, 2, 4, 5}

Symmetry == Permutations(Values)

WithoutReport == vars
=============================================================================

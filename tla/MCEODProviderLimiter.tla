------------------------- MODULE MCEODProviderLimiter -------------------------
(***************************************************************************)
(* A small instance of EODProviderChain, without its records, for TLC.     *)
(***************************************************************************)
EXTENDS EODProviderChain

MCKey == [p \in Providers |-> "k1"]

MCDelay == [n \in 1..MaxAttempts |-> 1]
=============================================================================

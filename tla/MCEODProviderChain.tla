-------------------------- MODULE MCEODProviderChain --------------------------
(***************************************************************************)
(* A small instance of EODChainRecords for TLC.                            *)
(***************************************************************************)
EXTENDS EODChainRecords

\* Two versions of one provider share a limit.
MCKey == [p \in Providers |-> IF p = 3 THEN "k2" ELSE "k1"]

MCDelay == [n \in 1..MaxAttempts |-> 1]
=============================================================================

----------------------------- MODULE MCCatalogue ------------------------------
(* The Base catalogue on one token and two people, for TLC.                *)
EXTENDS EvmCatalogue, TLC

Swaps == Permutations(Wei) \cup Permutations(People)
=============================================================================

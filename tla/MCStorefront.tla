---------------------------- MODULE MCStorefront ----------------------------
(* The storefront on one asset and two wallets, for TLC.                   *)
EXTENDS Storefront, TLC

Swaps == Permutations(Requests)
=============================================================================

----------------------------- MODULE MCEvmMarket -----------------------------
(* Constants of the TLC runs of the EVM market.                             *)
EXTENDS EvmMarket, TLC

CONSTANTS alice, bob, carol

Everyone == {alice, bob, carol}
OnlyAlice == {alice}
=============================================================================

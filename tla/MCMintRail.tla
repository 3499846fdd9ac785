------------------------------ MODULE MCMintRail ------------------------------
(* Constants of the TLC runs of the pay-then-mint rail.                     *)
EXTENDS MintRailProperties

CONSTANTS k1, s1, s2, a1, h1, h2, seedA, seedB

OneSweeper == {s1}
KickerAndSweeper == {k1, s1}
OneSeed == {seedA}
TwoSeeds == {seedA, seedB}
=============================================================================

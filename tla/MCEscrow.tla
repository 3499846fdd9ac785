------------------------------- MODULE MCEscrow -------------------------------
(* Constants of the TLC run of the escrow program.                          *)
EXTENDS EscrowProgram, TLC

\* No action, invariant or part of the refinement tells one wallet from
\* another, and nothing about liveness is checked.
WalletSymmetry == Permutations(Wallets)
=============================================================================

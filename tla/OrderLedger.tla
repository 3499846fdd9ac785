----------------------------- MODULE OrderLedger -----------------------------
(***************************************************************************)
(* What one paid mint order promises, with none of the machinery: money is *)
(* captured at most once and comes back at most once, and the NFT reaches  *)
(* the buyer at most once and only for money that was captured.            *)
(*                                                                         *)
(* Exclusive is the stronger promise payments.ts makes to the platform: an *)
(* order is delivered or refunded, never both.                             *)
(***************************************************************************)

CONSTANT Exclusive      \* a Boolean

VARIABLES money,   \* where the buyer's money is
          goods    \* whether the NFT exists

ledgerVars == <<money, goods>>

Init == money = "none" /\ goods = "none"

\* The buyer is charged.
Capture ==
    /\ money = "none"
    /\ money' = "captured"
    /\ UNCHANGED goods

\* The NFT appears on chain, for money that was captured.
Deliver ==
    /\ money # "none"
    /\ Exclusive => money = "captured"
    /\ goods = "none"
    /\ goods' = "delivered"
    /\ UNCHANGED money

\* The money goes back to the buyer.
Return ==
    /\ money = "captured"
    /\ Exclusive => goods = "none"
    /\ money' = "returned"
    /\ UNCHANGED goods

Next == Capture \/ Deliver \/ Return

Spec == Init /\ [][Next]_ledgerVars
=============================================================================

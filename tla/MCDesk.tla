-------------------------------- MODULE MCDesk --------------------------------
(***************************************************************************)
(* Four parts of the worker in one run: the medal vault, fee quotes, the   *)
(* wallet-signed mint, and likes, albums and files.  They share no state,  *)
(* so each is explored with the other three at rest.                       *)
(***************************************************************************)
EXTENDS MedalVault, FeeQuotes, WalletMint, Library, TLC

VARIABLE part

deskVars == <<medalVars, feeVars, walletVars, libraryVars, part>>

DeskInit ==
    /\ MedalInit /\ FeeInit /\ WalletInit /\ LibraryInit
    /\ part \in {"medals", "fees", "wallets", "library"}

DeskNext ==
    /\ UNCHANGED part
    /\ \/ part = "medals" /\ MedalNext /\ UNCHANGED <<feeVars, walletVars, libraryVars>>
       \/ part = "fees" /\ FeeNext /\ UNCHANGED <<medalVars, walletVars, libraryVars>>
       \/ part = "wallets" /\ WalletNext /\ UNCHANGED <<medalVars, feeVars, libraryVars>>
       \/ part = "library" /\ LibraryNext /\ UNCHANGED <<medalVars, feeVars, walletVars>>

DeskSpec == DeskInit /\ [][DeskNext]_deskVars

\* Every variable of the four parts keeps its shape.
DeskTypeOK == MedalTypeOK /\ FeeTypeOK /\ WalletTypeOK /\ LibraryTypeOK

-----------------------------------------------------------------------------
(* Medals: a hard tier and one for everybody; two settings an admin is     *)
(* refused.                                                                *)

TwoTiers == <<"gold", "bronze">>

Setting(gold, bronze, supply) ==
    <<[required |-> gold, supply |-> supply], [required |-> bronze, supply |-> supply]>>

Settings == {Setting(1, 0, 2), Setting(0, 1, 1), Setting(1, 1, 0)}

OneOrBack == {1, -1}

-----------------------------------------------------------------------------
(* Fees of four, and a network fee of one: paid in full by an account that *)
(* does not pay the network fee, or not quite; short by no more than the   *)
(* check overlooks; and by a transaction that failed.                      *)

Tx(payer, treasury, other) ==
    [delta |-> <<payer, treasury, other>>, fee |-> 1, failed |-> FALSE]

Movements ==
    [s \in Signatures |->
       CASE s = "full" -> Tx(-1, 4, -4)
         [] s = "less" -> Tx(-1, 3, -3)
         [] s = "short" -> Tx(-4, 3, 0)
         [] s = "failed" -> [Tx(-1, 0, 0) EXCEPT !.failed = TRUE]]

\* The spelling Postgres gives back.
Written == [a \in Spellings |-> IF a = "1.10" THEN "1.1" ELSE a]

-----------------------------------------------------------------------------

\* Model values stand for the same kind of thing in every part: requests and
\* the isolates that run them, people, and new assets.
Swaps == Permutations(Requests) \cup Permutations(Wallets) \cup Permutations(Assets)
=============================================================================

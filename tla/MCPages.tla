-------------------------------- MODULE MCPages --------------------------------
(***************************************************************************)
(* The pages that start what the worker does, and the admin's backfills,   *)
(* in one run: they share no state, so each is explored with the others at *)
(* rest.                                                                   *)
(***************************************************************************)
EXTENDS CreatePage, DetailPage, Backfill, TLC

VARIABLE part

pageVars == <<createVars, detailVars, imageVars, costVars, part>>

PagesInit ==
    /\ CreateInit /\ DetailInit /\ BackfillInit
    /\ part \in {"create", "detail", "images", "costs"}
    /\ part # "create" => rails = [card |-> TRUE, wallet |-> TRUE]
    /\ part # "detail" => net = "SOLANA" /\ direct
    /\ part # "images" => shot = <<>> /\ \A a \in Lost : host[a] = "url"
    /\ part # "costs" => cost = <<>>

PagesNext ==
    /\ UNCHANGED part
    /\ \/ part = "create" /\ CreateNext /\ UNCHANGED <<detailVars, imageVars, costVars>>
       \/ part = "detail" /\ DetailNext /\ UNCHANGED <<createVars, imageVars, costVars>>
       \/ part = "images" /\ ImagesNext /\ UNCHANGED <<createVars, detailVars, costVars>>
       \/ part = "costs" /\ CostsNext /\ UNCHANGED <<createVars, detailVars, imageVars>>

PagesSpec == PagesInit /\ [][PagesNext]_pageVars /\ CreateFairness /\ BackfillFairness

-----------------------------------------------------------------------------

\* Neither page announces what did not happen: an NFT minted, bought, listed,
\* taken off sale or burned.
SaysWhatHappened == MintedIsReal /\ DoneIsDone

-----------------------------------------------------------------------------

Amount(whole, frac) == [whole |-> whole, frac |-> frac]

\* So small that it is written with an exponent; finer than a unit, and rounded up
\* to a whole one on Base; the smallest written without an exponent, and smaller
\* than the digits shown.
Amounts == {Amount(0, <<0, 0, 1, 2>>), Amount(1, <<9, 9, 9, 9, 5>>), Amount(0, <<0, 1, 0>>)}
=============================================================================

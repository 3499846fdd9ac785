--------------------------- MODULE EvmMarketProofs ---------------------------
(***************************************************************************)
(* Proofs about the EVM market, for any accounts, tokens, prices and any   *)
(* number of listings.                                                     *)
(*                                                                         *)
(* Besides the invariants the run checks, the inductive invariant says     *)
(* that an id not given out yet names no live listing (FreshIds): without  *)
(* it a new listing could overwrite a live one.                            *)
(***************************************************************************)
EXTENDS EvmMarket, TLAPS

FreshIds == \A i \in Ids : listings[i].active => i < nextListingId

MarketInv == MarketTypeOK /\ OneListing /\ FreshIds /\ CanPayOut

THEOREM MarketInitSound == ASSUME MarketAssumption, Init PROVE MarketInv
<1> USE DEF Init, NoListing, NoSale
<1>1. MarketTypeOK
  <2>1. feeBps \in 0..MAX_FEE_BPS
    BY DEF MarketAssumption
  <2>. QED
    BY <2>1 DEF MarketAssumption, MarketTypeOK
<1>2. OneListing /\ FreshIds
  BY DEF OneListing, FreshIds
<1>3. CanPayOut
  BY DEF CanPayOut
<1>. QED
  BY <1>1, <1>2, <1>3 DEF MarketInv

(* The arithmetic of the fee.                                              *)

\* A tenth of the price at most, rounded down, so never more than the price.
LEMMA FeeBounds ==
    ASSUME NEW price \in Nat, feeBps \in 0..MAX_FEE_BPS
    PROVE  Fee(price) \in 0..price /\ Fee(price) * 10000 <= price * MAX_FEE_BPS
<1> DEFINE product == price * feeBps
<1>1. product \in Nat
  BY DEF MAX_FEE_BPS
<1>2. product <= price * 1000
  BY DEF MAX_FEE_BPS
<1> HIDE DEF product
<1>3. product \div 10000 \in Nat /\ (product \div 10000) * 10000 <= product
  BY <1>1
<1>. QED
  BY <1>2, <1>3 DEF Fee, MAX_FEE_BPS, product

-----------------------------------------------------------------------------
(* Each kind of change to the books keeps the books in order.              *)

LEMMA LiveListing ==
    ASSUME MarketTypeOK, NEW i \in Ids, listings[i].active
    PROVE  /\ listings[i] \in Listings
           /\ listings[i].seller \in Accounts
           /\ listings[i].token \in Tokens
           /\ listings[i].price \in Prices
  BY DEF MarketTypeOK, Listings, NoListing

\* The token alone is touched.
LEMMA TokenStepSound ==
    ASSUME MarketInv,
           owner' \in [Tokens -> Accounts \cup {NoOne}],
           approvedAll' \subseteq Accounts, approved' \subseteq Tokens,
           UNCHANGED <<bookVars, feeBps, treasury, wei, sale>>
    PROVE  MarketInv'
  BY DEF MarketInv, MarketTypeOK, OneListing, FreshIds, CanPayOut, bookVars

LEMMA ListSound ==
    ASSUME MarketAssumption, MarketInv, NEW a \in Accounts, NEW t \in Tokens, NEW p \in Prices,
           List(a, t, p)
    PROVE  MarketInv'
<1> DEFINE l == [seller |-> a, token |-> t, price |-> p, active |-> TRUE]
           n == nextListingId
<1>1. MarketTypeOK /\ OneListing /\ FreshIds /\ CanPayOut
  BY DEF MarketInv
<1>2. l \in Listings /\ l.token = t /\ n \in Ids /\ n \in Nat
  BY <1>1 DEF List, Listings, MarketTypeOK
<1>3. /\ listings' = [listings EXCEPT ![n] = l]
      /\ activeListingOf' = [activeListingOf EXCEPT ![t] = n]
      /\ nextListingId' = n + 1
      /\ UNCHANGED <<tokenVars, feeBps, treasury, wei, sale>>
      /\ NotListed(t)
  BY DEF List
<1> HIDE DEF l, n
<1>4. /\ listings' \in [Ids -> Listings \cup {NoListing}]
      /\ listings'[n] = l
      /\ \A i \in Ids : i # n => listings'[i] = listings[i]
  BY <1>1, <1>2, <1>3 DEF MarketTypeOK
<1>5. /\ activeListingOf' \in [Tokens -> Ids \cup {0}]
      /\ activeListingOf'[t] = n
      /\ \A u \in Tokens : u # t => activeListingOf'[u] = activeListingOf[u]
  BY <1>1, <1>2, <1>3 DEF MarketTypeOK
<1>6. MarketTypeOK'
  BY <1>1, <1>2, <1>3, <1>4, <1>5 DEF MarketTypeOK, tokenVars
<1>7. OneListing'
  <2> SUFFICES ASSUME NEW i \in Ids, listings'[i].active
               PROVE  activeListingOf'[listings'[i].token] = i
    BY DEF OneListing
  <2>1. CASE i = n
    BY <2>1, <1>2, <1>4, <1>5
  <2>2. CASE i # n
    <3>1. listings'[i] = listings[i] /\ listings[i].active
      BY <2>2, <1>4
    <3>2. listings[i].token \in Tokens /\ activeListingOf[listings[i].token] = i
      BY <3>1, <1>1, LiveListing DEF OneListing
    <3>3. i # 0
      BY DEF MarketAssumption
    <3>4. listings[i].token # t
      BY <3>1, <3>2, <3>3, <1>3 DEF NotListed
    <3>. QED
      BY <3>1, <3>2, <3>4, <1>5
  <2>. QED
    BY <2>1, <2>2
<1>8. FreshIds'
  <2>1. \A i \in Ids : i \in Nat
    BY DEF MarketAssumption
  <2>2. \A i \in Ids : listings'[i].active => i = n \/ i < n
    BY <1>1, <1>4 DEF FreshIds, n
  <2>. QED
    BY <2>1, <2>2, <1>2, <1>3 DEF FreshIds
<1>9. CanPayOut'
  BY <1>1, <1>3 DEF CanPayOut
<1>. QED
  BY <1>6, <1>7, <1>8, <1>9 DEF MarketInv

LEMMA UpdatePriceSound ==
    ASSUME MarketInv, NEW i \in Ids, NEW a \in Accounts, NEW p \in Prices, UpdatePrice(i, a, p)
    PROVE  MarketInv'
<1> DEFINE l == [listings[i] EXCEPT !.price = p]
<1>1. MarketTypeOK /\ OneListing /\ FreshIds /\ CanPayOut
  BY DEF MarketInv
<1>2. listings[i] \in Listings
  BY <1>1, LiveListing DEF UpdatePrice
<1>3. l \in Listings /\ l.token = listings[i].token /\ l.active = listings[i].active
  BY <1>2 DEF Listings, UpdatePrice
<1>4. /\ listings' = [listings EXCEPT ![i] = l]
      /\ UNCHANGED <<tokenVars, activeListingOf, nextListingId, feeBps, treasury, wei, sale>>
  BY <1>1 DEF UpdatePrice, MarketTypeOK
<1> HIDE DEF l
<1>5. /\ listings' \in [Ids -> Listings \cup {NoListing}]
      /\ \A j \in Ids : /\ listings'[j].token = listings[j].token
                        /\ listings'[j].active = listings[j].active
  BY <1>1, <1>3, <1>4 DEF MarketTypeOK
<1>6. MarketTypeOK'
  BY <1>1, <1>4, <1>5 DEF MarketTypeOK, tokenVars
<1>7. OneListing' /\ FreshIds'
  BY <1>1, <1>4, <1>5 DEF OneListing, FreshIds
<1>8. CanPayOut'
  BY <1>1, <1>4 DEF CanPayOut
<1>. QED
  BY <1>6, <1>7, <1>8 DEF MarketInv

\* What cancel and buy have in common.
LEMMA ClearSound ==
    ASSUME MarketInv, NEW i \in Ids, listings[i].active, listings' = Cleared(i),
           activeListingOf' = [activeListingOf EXCEPT ![listings[i].token] = 0],
           nextListingId' = nextListingId
    PROVE  /\ listings' \in [Ids -> Listings \cup {NoListing}]
           /\ activeListingOf' \in [Tokens -> Ids \cup {0}]
           /\ ~listings'[i].active
           /\ \A j \in Ids : j # i => listings'[j] = listings[j]
           /\ OneListing' /\ FreshIds'
<1> DEFINE l == [listings[i] EXCEPT !.active = FALSE]
           t == listings[i].token
<1>1. MarketTypeOK /\ OneListing /\ FreshIds
  BY DEF MarketInv
<1>2. listings[i] \in Listings /\ t \in Tokens
  BY <1>1, LiveListing
<1>3. l \in Listings /\ ~l.active
  BY <1>2 DEF Listings
<1>4. listings' = [listings EXCEPT ![i] = l]
  BY DEF Cleared
<1> HIDE DEF l
<1>5. /\ listings' \in [Ids -> Listings \cup {NoListing}]
      /\ ~listings'[i].active
      /\ \A j \in Ids : j # i => listings'[j] = listings[j]
  BY <1>1, <1>3, <1>4 DEF MarketTypeOK
<1>6. /\ activeListingOf' \in [Tokens -> Ids \cup {0}]
      /\ \A u \in Tokens : u # t => activeListingOf'[u] = activeListingOf[u]
  BY <1>1, <1>2 DEF MarketTypeOK
<1>7. OneListing'
  <2> SUFFICES ASSUME NEW j \in Ids, listings'[j].active
               PROVE  activeListingOf'[listings'[j].token] = j
    BY DEF OneListing
  <2>1. j # i /\ listings'[j] = listings[j]
    BY <1>5
  <2>2. activeListingOf[listings[j].token] = j /\ activeListingOf[t] = i
    BY <2>1, <1>1 DEF OneListing
  <2>3. listings[j].token \in Tokens
    BY <2>1, <1>1, LiveListing
  <2>. QED
    BY <2>1, <2>2, <2>3, <1>6
<1>8. FreshIds'
  BY <1>1, <1>5 DEF FreshIds
<1>. QED
  BY <1>5, <1>6, <1>7, <1>8

LEMMA CancelListingSound ==
    ASSUME MarketInv, NEW i \in Ids, NEW a \in Accounts, Cancel(i, a)
    PROVE  MarketInv'
<1>1. /\ listings' \in [Ids -> Listings \cup {NoListing}]
      /\ activeListingOf' \in [Tokens -> Ids \cup {0}]
      /\ OneListing' /\ FreshIds'
  BY ClearSound DEF Cancel
<1>2. UNCHANGED <<tokenVars, nextListingId, feeBps, treasury, wei, sale>>
  BY DEF Cancel
<1>3. MarketTypeOK' /\ CanPayOut'
  BY <1>1, <1>2 DEF MarketInv, MarketTypeOK, CanPayOut, tokenVars
<1>. QED
  BY <1>1, <1>3 DEF MarketInv

-----------------------------------------------------------------------------
(* Steps that move money.                                                  *)

LEMMA BuyListingSound ==
    ASSUME MarketAssumption, MarketInv, NEW i \in Ids, NEW b \in Accounts, Buy(i, b)
    PROVE  MarketInv'
<1> DEFINE l == listings[i]
           price == listings[i].price
<1>1. MarketTypeOK /\ l.active /\ sale = NoSale
  BY DEF MarketInv, Buy, Unlocked
<1>2. l.seller \in Accounts /\ l.token \in Tokens /\ price \in Nat
  BY <1>1, LiveListing DEF MarketAssumption
<1>3. Fee(price) \in 0..price
  BY <1>1, <1>2, FeeBounds DEF MarketTypeOK
<1>4. /\ listings' \in [Ids -> Listings \cup {NoListing}]
      /\ activeListingOf' \in [Tokens -> Ids \cup {0}]
      /\ OneListing' /\ FreshIds'
  BY ClearSound DEF Buy
<1>5. /\ sale' = [seller |-> l.seller, owed |-> price - Fee(price)]
      /\ sale' \in [seller : Accounts, owed : Nat]
      /\ sale'.owed <= price
  BY <1>2, <1>3 DEF Buy
<1>6. /\ wei' \in [Accounts \cup {House} -> Nat]
      /\ wei'[House] = wei[House] + price
  <2> DEFINE paid == [wei EXCEPT ![b] = @ - price]
  <2>1. wei \in [Accounts \cup {House} -> Nat] /\ wei[b] - price \in Nat /\ b # House
    BY <1>1, <1>2 DEF Buy, MarketTypeOK, MarketAssumption
  <2>2. paid \in [Accounts \cup {House} -> Nat] /\ paid[House] = wei[House]
    BY <2>1
  <2>3. wei' = [paid EXCEPT ![House] = @ + price]
    BY DEF Buy
  <2> HIDE DEF paid, price
  <2>. QED
    BY <2>2, <2>3, <1>2
<1>7. /\ owner' \in [Tokens -> Accounts \cup {NoOne}]
      /\ approved' \subseteq Tokens /\ approvedAll' = approvedAll
      /\ UNCHANGED <<nextListingId, feeBps, treasury>>
  BY <1>1, <1>2 DEF Buy, Moves, MarketTypeOK
<1>8. MarketTypeOK'
  BY <1>1, <1>4, <1>5, <1>6, <1>7 DEF MarketTypeOK
<1>9. CanPayOut'
  <2>1. wei[House] \in Nat
    BY <1>1 DEF MarketTypeOK
  <2>. QED
    BY <2>1, <1>2, <1>3, <1>5, <1>6 DEF CanPayOut
<1>. QED
  BY <1>4, <1>8, <1>9 DEF MarketInv

\* Money moves and the books do not.
LEMMA BooksKept ==
    ASSUME MarketInv, UNCHANGED <<tokenVars, bookVars>>,
           feeBps' \in 0..MAX_FEE_BPS, treasury' \in Treasuries,
           wei' \in [Accounts \cup {House} -> Nat],
           sale' \in [seller : Accounts, owed : Nat] \cup {NoSale},
           sale'.owed <= wei'[House]
    PROVE  MarketInv'
<1>1. MarketTypeOK'
  BY DEF MarketInv, MarketTypeOK, tokenVars, bookVars
<1>2. OneListing' /\ FreshIds'
  BY DEF MarketInv, OneListing, FreshIds, bookVars
<1>. QED
  BY <1>1, <1>2 DEF MarketInv, CanPayOut

\* A sale under way owes an account.
LEMMA SaleOwes ==
    ASSUME MarketInv
    PROVE  /\ ~Unlocked => sale.seller \in Accounts
           /\ sale.owed \in Nat /\ sale.owed <= wei[House]
           /\ Unlocked => sale.owed = 0 /\ sale.seller = NoOne
  BY DEF MarketInv, MarketTypeOK, CanPayOut, Unlocked, NoSale

LEMMA PayOutSound ==
    ASSUME MarketAssumption, MarketInv, PayOut
    PROVE  MarketInv'
<1>1. /\ sale.seller \in Accounts /\ sale.seller # House
      /\ sale.owed \in Nat /\ sale.owed <= wei[House]
      /\ wei \in [Accounts \cup {House} -> Nat]
  BY SaleOwes DEF PayOut, MarketAssumption, MarketInv, MarketTypeOK
<1> DEFINE paid == [wei EXCEPT ![House] = @ - sale.owed]
<1>2. paid \in [Accounts \cup {House} -> Nat]
  BY <1>1
<1>3. wei' = [paid EXCEPT ![sale.seller] = @ + sale.owed]
  BY DEF PayOut
<1> HIDE DEF paid
<1>4. wei' \in [Accounts \cup {House} -> Nat]
  BY <1>1, <1>2, <1>3
<1>5. sale' = NoSale /\ sale'.owed = 0 /\ sale'.owed <= wei'[House]
  BY <1>4 DEF PayOut, NoSale
<1>. QED
  BY <1>4, <1>5, BooksKept DEF PayOut, MarketInv, MarketTypeOK

LEMMA WithdrawSound ==
    ASSUME MarketAssumption, MarketInv, WithdrawFees
    PROVE  MarketInv'
<1>1. /\ wei \in [Accounts \cup {House} -> Nat] /\ treasury \in Accounts
      /\ sale = NoSale /\ sale.owed = 0
  BY SaleOwes DEF WithdrawFees, MayWithdraw, Unlocked, MarketAssumption, MarketInv, MarketTypeOK
<1> DEFINE paid == [wei EXCEPT ![House] = 0]
<1>2. paid \in [Accounts \cup {House} -> Nat]
  BY <1>1
<1>3. wei' = [paid EXCEPT ![treasury] = @ + wei[House]]
  BY DEF WithdrawFees
<1> HIDE DEF paid
<1>4. wei' \in [Accounts \cup {House} -> Nat]
  BY <1>1, <1>2, <1>3
<1>5. sale' = NoSale /\ sale'.owed <= wei'[House]
  BY <1>1, <1>4 DEF WithdrawFees
<1>. QED
  BY <1>4, <1>5, BooksKept DEF WithdrawFees, MarketInv, MarketTypeOK

LEMMA OwnerSound ==
    ASSUME MarketInv, (\E bps \in FeeRates : SetFeeBps(bps)) \/ (\E a \in Treasuries : SetTreasury(a)),
           MarketAssumption
    PROVE  MarketInv'
<1>1. /\ feeBps' \in 0..MAX_FEE_BPS /\ treasury' \in Treasuries
      /\ UNCHANGED <<tokenVars, bookVars, wei, sale>>
  BY DEF SetFeeBps, FeeAllowed, SetTreasury, MarketAssumption, MarketInv, MarketTypeOK
<1>. QED
  BY <1>1, BooksKept DEF MarketInv, MarketTypeOK, CanPayOut

LEMMA TokenSound ==
    ASSUME MarketInv, TokenNext
    PROVE  MarketInv'
<1>1. CASE \E t \in Tokens, to \in Accounts \cup {NoOne} : TransferToken(t, to)
  BY <1>1, TokenStepSound DEF TransferToken, Moves, MarketInv, MarketTypeOK
<1>2. CASE \E t \in Tokens : Approve(t)
  BY <1>2, TokenStepSound DEF Approve, MarketInv, MarketTypeOK
<1>3. CASE \E a \in Accounts : SetApprovalForAll(a)
  BY <1>3, TokenStepSound DEF SetApprovalForAll, MarketInv, MarketTypeOK
<1>. QED
  BY <1>1, <1>2, <1>3 DEF TokenNext

THEOREM MarketStepSound ==
    ASSUME MarketAssumption, MarketInv, [MarketNext]_marketVars
    PROVE  MarketInv'
<1>1. CASE UNCHANGED marketVars
  <2>1. UNCHANGED <<tokenVars, bookVars, feeBps, treasury, wei, sale>>
    BY <1>1 DEF marketVars
  <2>. QED
    BY <2>1, BooksKept DEF MarketInv, MarketTypeOK, CanPayOut
<1>2. CASE TokenNext
  BY <1>2, TokenSound
<1>3. CASE SellerNext
  BY <1>3, ListSound, UpdatePriceSound, CancelListingSound DEF SellerNext
<1>4. CASE \E i \in Ids, b \in Accounts : Buy(i, b)
  BY <1>4, BuyListingSound
<1>5. CASE PayOut
  BY <1>5, PayOutSound
<1>6. CASE OwnerNext
  BY <1>6, OwnerSound, WithdrawSound DEF OwnerNext
<1>. QED
  BY <1>1, <1>2, <1>3, <1>4, <1>5, <1>6 DEF MarketNext

\* No call overdraws an account or leaves a field ill-formed, and setFeeBps
\* never takes the fee above MAX_FEE_BPS.
THEOREM MarketTypeCorrect == ASSUME MarketAssumption PROVE MarketSpec => []MarketTypeOK
<1>1. Init => MarketInv
  BY MarketInitSound
<1>2. MarketInv /\ [MarketNext]_marketVars => MarketInv'
  BY MarketStepSound
<1>3. MarketInv => MarketTypeOK
  BY DEF MarketInv
<1>. QED
  BY <1>1, <1>2, <1>3, PTL DEF MarketSpec

\* activeListingOf blocks double-listing, whoever calls list, cancel and buy in
\* whatever order, hooks included.
THEOREM NeverListedTwice == ASSUME MarketAssumption PROVE MarketSpec => []OneListing
<1>1. Init => MarketInv
  BY MarketInitSound
<1>2. MarketInv /\ [MarketNext]_marketVars => MarketInv'
  BY MarketStepSound
<1>3. MarketInv => OneListing
  BY DEF MarketInv
<1>. QED
  BY <1>1, <1>2, <1>3, PTL DEF MarketSpec

\* buy can always pay its seller: nothing a receiver hook calls takes the
\* proceeds out of the contract first.
THEOREM SellerIsPaid == ASSUME MarketAssumption PROVE MarketSpec => []CanPayOut
<1>1. Init => MarketInv
  BY MarketInitSound
<1>2. MarketInv /\ [MarketNext]_marketVars => MarketInv'
  BY MarketStepSound
<1>3. MarketInv => CanPayOut
  BY DEF MarketInv
<1>. QED
  BY <1>1, <1>2, <1>3, PTL DEF MarketSpec

-----------------------------------------------------------------------------
(* The market implements the abstract one.  First the offers.              *)

\* Two live listings never make the same offer: they are for different tokens.
LEMMA OffersApart ==
    ASSUME OneListing, NEW i \in Ids, NEW j \in Ids,
           listings[i].active, listings[j].active, Offer(listings[i]) = Offer(listings[j])
    PROVE  i = j
<1>1. listings[i].token = listings[j].token
  BY DEF Offer
<1>. QED
  BY <1>1 DEF OneListing

LEMMA OfferIsAsk ==
    ASSUME MarketTypeOK, NEW i \in Ids, listings[i].active
    PROVE  Offer(listings[i]) \in Sale!Asks /\ Offer(listings[i]) \in Offers
  BY LiveListing DEF Offer, Sale!Asks, Offers

LEMMA OffersCleared ==
    ASSUME MarketInv, NEW i \in Ids, listings[i].active, listings' = Cleared(i),
           activeListingOf' = [activeListingOf EXCEPT ![listings[i].token] = 0],
           nextListingId' = nextListingId
    PROVE  Offers' = Offers \ {Offer(listings[i])}
<1>1. /\ ~listings'[i].active
      /\ \A j \in Ids : j # i => listings'[j] = listings[j]
  BY ClearSound
<1>2. \A j \in Ids : listings[j].active /\ j # i => Offer(listings[j]) # Offer(listings[i])
  BY OffersApart DEF MarketInv
<1>3. Offers' = {Offer(listings'[j]) : j \in {k \in Ids : listings'[k].active}}
  BY DEF Offers, Offer
<1>4. ASSUME NEW x PROVE x \in Offers' <=> x \in Offers /\ x # Offer(listings[i])
  <2>1. x \in Offers' <=> \E j \in Ids : j # i /\ listings[j].active /\ x = Offer(listings[j])
    BY <1>1, <1>3
  <2>2. x \in Offers <=> \E j \in Ids : listings[j].active /\ x = Offer(listings[j])
    BY DEF Offers
  <2>. QED
    BY <2>1, <2>2, <1>2
<1>. QED
  BY <1>4

LEMMA OffersUnchanged == ASSUME listings' = listings PROVE Offers' = Offers
  BY DEF Offers, Offer

LEMMA ListMaps ==
    ASSUME MarketAssumption, MarketInv, NEW a \in Accounts, NEW t \in Tokens, NEW p \in Prices,
           List(a, t, p)
    PROVE  \E x \in Sale!Asks : Sale!Ask(x)
<1> DEFINE l == [seller |-> a, token |-> t, price |-> p, active |-> TRUE]
           n == nextListingId
           x == Offer(l)
<1>1. l.active /\ x \in Sale!Asks /\ x.asset = t /\ x.seller = a
  BY DEF Offer, Sale!Asks
<1>2. listings' = [listings EXCEPT ![n] = l] /\ n \in Ids
  BY DEF List
<1> HIDE DEF l
<1>3. /\ listings'[n] = l
      /\ \A j \in Ids : j # n => listings'[j] = listings[j]
      /\ ~listings[n].active
  <2>1. ~listings[n].active
    BY <1>2 DEF MarketInv, FreshIds, MarketAssumption
  <2>. QED
    BY <2>1, <1>2 DEF MarketInv, MarketTypeOK
<1>4. Offers' = {Offer(listings'[j]) : j \in {k \in Ids : listings'[k].active}}
  BY DEF Offers, Offer
<1> HIDE DEF n
<1>5. ASSUME NEW y PROVE y \in Offers' <=> y \in Offers \cup {x}
  <2>1. y \in Offers' <=> \E j \in Ids : listings'[j].active /\ y = Offer(listings'[j])
    BY <1>4
  <2>2. y \in Offers <=> \E j \in Ids : listings[j].active /\ y = Offer(listings[j])
    BY DEF Offers
  <2>. QED
    BY <2>1, <2>2, <1>1, <1>2, <1>3
<1>6. owner[t] = a /\ owner' = owner /\ Ledger' = Ledger
  BY DEF List, tokenVars, Ledger
<1> HIDE DEF x
<1>. QED
  BY <1>1, <1>5, <1>6 DEF Sale!Ask

LEMMA UpdatePriceMaps ==
    ASSUME MarketInv, NEW i \in Ids, NEW a \in Accounts, NEW p \in Prices, UpdatePrice(i, a, p)
    PROVE  \E x \in Offers : Sale!Reprice(x, p)
<1> DEFINE l == [listings[i] EXCEPT !.price = p]
           x == Offer(listings[i])
<1>1. listings[i].active /\ listings[i] \in Listings
  BY LiveListing DEF UpdatePrice, MarketInv
<1>2. Offer(l) = [x EXCEPT !.price = p] /\ l.active
  BY <1>1 DEF Offer, Listings
<1>3. listings' = [listings EXCEPT ![i] = l]
  BY DEF UpdatePrice, MarketInv, MarketTypeOK
<1> HIDE DEF l
<1>4. listings'[i] = l /\ \A j \in Ids : j # i => listings'[j] = listings[j]
  BY <1>3 DEF MarketInv, MarketTypeOK
<1>5. \A j \in Ids : listings[j].active /\ j # i => Offer(listings[j]) # x
  BY <1>1, OffersApart DEF MarketInv
<1>6. Offers' = {Offer(listings'[j]) : j \in {k \in Ids : listings'[k].active}}
  BY DEF Offers, Offer
<1>7. x \in Offers
  BY <1>1 DEF Offers
<1> HIDE DEF x
<1>8. ASSUME NEW y PROVE y \in Offers' <=> y \in (Offers \ {x}) \cup {Offer(l)}
  <2>1. y \in Offers' <=> \E j \in Ids : listings'[j].active /\ y = Offer(listings'[j])
    BY <1>6
  <2>2. y \in Offers <=> \E j \in Ids : listings[j].active /\ y = Offer(listings[j])
    BY DEF Offers
  <2>3. y \in Offers' <=> \/ y = Offer(l)
                          \/ \E j \in Ids : j # i /\ listings[j].active /\ y = Offer(listings[j])
    BY <2>1, <1>2, <1>4
  <2>4. y \in Offers /\ y # x
            <=> \E j \in Ids : j # i /\ listings[j].active /\ y = Offer(listings[j])
    BY <2>2, <1>5 DEF x
  <2>. QED
    BY <2>3, <2>4
<1>9. owner' = owner /\ Ledger' = Ledger
  BY DEF UpdatePrice, tokenVars, Ledger
<1>. QED
  BY <1>2, <1>7, <1>8, <1>9 DEF Sale!Reprice

LEMMA CancelListingMaps ==
    ASSUME MarketInv, NEW i \in Ids, NEW a \in Accounts, Cancel(i, a)
    PROVE  \E x \in Offers : Sale!Withdraw(x)
<1>1. Offer(listings[i]) \in Offers
  BY OfferIsAsk DEF Cancel, MarketInv
<1>2. Offers' = Offers \ {Offer(listings[i])}
  BY OffersCleared DEF Cancel
<1>3. owner' = owner /\ Ledger' = Ledger
  BY DEF Cancel, tokenVars, Ledger
<1>. QED
  BY <1>1, <1>2, <1>3 DEF Sale!Withdraw

-----------------------------------------------------------------------------
(* Then the money.                                                         *)

LEMMA LedgerUnlocked ==
    ASSUME MarketAssumption, MarketInv, Unlocked
    PROVE  Ledger = wei
<1>1. sale.owed = 0 /\ sale.seller = NoOne /\ wei \in [Accounts \cup {House} -> Nat]
  BY SaleOwes DEF MarketInv, MarketTypeOK
<1>2. wei[House] - sale.owed = wei[House]
  BY <1>1
<1>3. \A a \in Accounts : a # House /\ a # sale.seller
  BY <1>1 DEF MarketAssumption
<1>4. Ledger = [a \in Accounts \cup {House} |-> wei[a]]
  BY <1>2, <1>3 DEF Ledger
<1>. QED
  BY <1>1, <1>4

LEMMA BuyListingMaps ==
    ASSUME MarketAssumption, MarketInv, NEW i \in Ids, NEW b \in Accounts, Buy(i, b)
    PROVE  \E x \in Offers : \E fee \in 0..x.price : Sale!Sell(x, b, fee)
<1> DEFINE l == listings[i]
           x == Offer(listings[i])
           price == listings[i].price
           s == listings[i].seller
           fee == Fee(price)
<1>1. MarketTypeOK /\ l.active /\ Unlocked
  BY DEF MarketInv, Buy
<1>2. /\ s \in Accounts /\ l.token \in Tokens /\ price \in Nat /\ price \in Prices
      /\ s # b /\ s # House /\ b # House
  BY <1>1, LiveListing DEF MarketAssumption, Buy
<1>3. fee \in 0..price /\ fee * 10000 <= price * MAX_FEE_BPS
  BY <1>1, <1>2, FeeBounds DEF MarketTypeOK
<1>4. x \in Offers /\ Offers' = Offers \ {x}
  BY <1>1, OfferIsAsk, OffersCleared DEF Buy
<1>5. /\ x.price = price /\ x.seller = s /\ x.asset = l.token /\ x.for = NoOne
  BY DEF Offer
<1>6. owner[l.token] = s /\ owner' = [owner EXCEPT ![l.token] = b]
  BY DEF Buy, Moves
<1>7. Ledger' = [[[Ledger EXCEPT ![b] = @ - price] EXCEPT ![s] = @ + (price - fee)] EXCEPT ![House] = @ + fee]
  <2> DEFINE paid == [wei EXCEPT ![b] = @ - price]
             done == [paid EXCEPT ![House] = @ + price]
             paid2 == [paid EXCEPT ![s] = @ + (price - fee)]
             done2 == [paid2 EXCEPT ![House] = @ + fee]
  <2>1. wei \in [Accounts \cup {House} -> Nat] /\ Ledger = wei
    BY <1>1, LedgerUnlocked DEF MarketTypeOK
  <2>2. /\ wei' = done
        /\ sale'.seller = s /\ sale'.owed = price - fee
    BY DEF Buy
  <2> HIDE DEF fee, price, s
  <2>3. price \in Int /\ fee \in Int
    BY <1>2, <1>3
  <2>4. /\ paid \in [Accounts \cup {House} -> Int]
        /\ paid[b] = wei[b] - price
        /\ \A a \in Accounts \cup {House} : a # b => paid[a] = wei[a]
    BY <2>1, <2>3
  <2> HIDE DEF paid
  <2>5. /\ done[House] = wei[House] + price
        /\ \A a \in Accounts : done[a] = paid[a]
    BY <2>4, <1>2 DEF MarketAssumption
  <2>6. /\ paid2 \in [Accounts \cup {House} -> Int]
        /\ paid2[s] = paid[s] + (price - fee)
        /\ \A a \in Accounts \cup {House} : a # s => paid2[a] = paid[a]
    BY <2>3, <2>4, <1>2
  <2> HIDE DEF paid2
  <2>7. /\ done2 \in [Accounts \cup {House} -> Int]
        /\ done2[House] = wei[House] + fee
        /\ \A a \in Accounts : done2[a] = paid2[a]
    BY <2>3, <2>4, <2>6, <1>2 DEF MarketAssumption
  <2> HIDE DEF done2, done
  <2>8. \A a \in Accounts \cup {House} :
            done2[a] = IF a = House THEN wei'[House] - sale'.owed
                       ELSE IF a = sale'.seller THEN wei'[a] + sale'.owed ELSE wei'[a]
    <3> SUFFICES ASSUME NEW a \in Accounts \cup {House}
                 PROVE  done2[a] = IF a = House THEN wei'[House] - sale'.owed
                                   ELSE IF a = sale'.seller THEN wei'[a] + sale'.owed ELSE wei'[a]
      OBVIOUS
    <3>1. CASE a = House
      <4>1. wei[House] \in Int
        BY <2>1
      <4>2. wei'[House] - sale'.owed = wei[House] + fee
        BY <4>1, <2>2, <2>3, <2>5
      <4>. QED
        BY <3>1, <4>2, <2>7
    <3>2. CASE a = s
      BY <3>2, <1>2, <2>2, <2>5, <2>6, <2>7
    <3>3. CASE a # s /\ a # House
      BY <3>3, <2>2, <2>5, <2>6, <2>7
    <3>. QED
      BY <3>1, <3>2, <3>3
  <2>9. Ledger' = [a \in Accounts \cup {House} |->
                     IF a = House THEN wei'[House] - sale'.owed
                     ELSE IF a = sale'.seller THEN wei'[a] + sale'.owed ELSE wei'[a]]
    BY DEF Ledger
  <2>10. Ledger' = done2
    BY <2>7, <2>8, <2>9
  <2>. QED
    BY <2>1, <2>10 DEF done2, paid2, paid
<1> HIDE DEF x, price, s, fee, l
<1>8. Sale!Sell(x, b, fee)
  BY <1>3, <1>4, <1>5, <1>6, <1>7 DEF Sale!Sell
<1>. QED
  BY <1>3, <1>4, <1>5, <1>8

\* Paying the seller only settles what the ledger already shows.
LEMMA PayOutMaps ==
    ASSUME MarketAssumption, MarketInv, PayOut
    PROVE  UNCHANGED Sale!saleVars
<1>1. /\ sale.seller \in Accounts /\ sale.seller # House
      /\ sale.owed \in Nat
      /\ wei \in [Accounts \cup {House} -> Nat]
  BY SaleOwes DEF PayOut, MarketAssumption, MarketInv, MarketTypeOK
<1> DEFINE paid == [wei EXCEPT ![House] = @ - sale.owed]
<1>2. /\ paid \in [Accounts \cup {House} -> Int]
      /\ paid[House] = wei[House] - sale.owed
      /\ \A a \in Accounts : a # House => paid[a] = wei[a]
  BY <1>1
<1>3. wei' = [paid EXCEPT ![sale.seller] = @ + sale.owed]
      /\ sale' = NoSale /\ UNCHANGED <<tokenVars, bookVars>>
  BY DEF PayOut
<1> HIDE DEF paid
<1>4. /\ wei'[House] = wei[House] - sale.owed
      /\ wei'[sale.seller] = wei[sale.seller] + sale.owed
      /\ \A a \in Accounts : a # House /\ a # sale.seller => wei'[a] = wei[a]
  BY <1>1, <1>2, <1>3
<1>5. Ledger' = [a \in Accounts \cup {House} |-> IF a = House THEN wei'[House] - 0 ELSE wei'[a]]
  <2>1. Ledger' = [a \in Accounts \cup {House} |->
                     IF a = House THEN wei'[House] - sale'.owed
                     ELSE IF a = sale'.seller THEN wei'[a] + sale'.owed ELSE wei'[a]]
    BY DEF Ledger
  <2>2. sale'.owed = 0 /\ \A a \in Accounts : a # sale'.seller
    BY <1>3 DEF NoSale, MarketAssumption
  <2>. QED
    BY <2>1, <2>2
<1>6. Ledger' = Ledger
  <2>1. wei'[House] - 0 = wei[House] - sale.owed
    BY <1>1, <1>4
  <2>2. \A a \in Accounts : a # House
    BY DEF MarketAssumption
  <2>. QED
    BY <1>4, <1>5, <2>1, <2>2 DEF Ledger
<1>7. Offers' = Offers /\ owner' = owner
  BY <1>3, OffersUnchanged DEF tokenVars, bookVars
<1>. QED
  BY <1>6, <1>7 DEF Sale!saleVars

LEMMA WithdrawMaps ==
    ASSUME MarketAssumption, MarketInv, WithdrawFees
    PROVE  \E to \in Accounts : Sale!Collect(to)
<1>1. Unlocked /\ sale' = sale /\ UNCHANGED <<tokenVars, bookVars>> /\ treasury \in Accounts
  BY DEF WithdrawFees, MayWithdraw, MarketAssumption, MarketInv, MarketTypeOK
<1>2. MarketInv' /\ Unlocked'
  BY <1>1, WithdrawSound DEF Unlocked, NoSale
<1>3. Ledger = wei /\ Ledger' = wei'
  <2>1. Ledger = wei
    BY <1>1, LedgerUnlocked
  <2>2. /\ sale'.owed = 0 /\ wei' \in [Accounts \cup {House} -> Nat]
        /\ \A a \in Accounts : a # sale'.seller
    BY <1>2 DEF Unlocked, NoSale, MarketAssumption, MarketInv, MarketTypeOK
  <2>3. wei'[House] - sale'.owed = wei'[House]
    BY <2>2
  <2>4. Ledger' = [a \in Accounts \cup {House} |->
                     IF a = House THEN wei'[House] - sale'.owed
                     ELSE IF a = sale'.seller THEN wei'[a] + sale'.owed ELSE wei'[a]]
    BY DEF Ledger
  <2>5. Ledger' = [a \in Accounts \cup {House} |-> wei'[a]]
    BY <2>2, <2>3, <2>4 DEF MarketAssumption
  <2>. QED
    BY <2>1, <2>2, <2>5
<1>4. wei' = [[wei EXCEPT ![House] = 0] EXCEPT ![treasury] = @ + wei[House]]
  BY DEF WithdrawFees
<1>5. Offers' = Offers /\ owner' = owner
  BY <1>1, OffersUnchanged DEF tokenVars, bookVars
<1>6. Sale!Collect(treasury)
  BY <1>3, <1>4, <1>5 DEF Sale!Collect
<1>. QED
  BY <1>1, <1>6

LEMMA TokenMaps ==
    ASSUME MarketInv, TokenNext
    PROVE  [Sale!Next]_Sale!saleVars
<1>1. UNCHANGED <<bookVars, wei, sale>>
  BY DEF TokenNext, TransferToken, Approve, SetApprovalForAll
<1>2. Offers' = Offers /\ Ledger' = Ledger
  BY <1>1, OffersUnchanged DEF bookVars, Ledger
<1>3. CASE \E t \in Tokens, to \in Accounts \cup {NoOne} : TransferToken(t, to)
  <2>1. PICK t \in Tokens, to \in Accounts \cup {NoOne} : TransferToken(t, to)
    BY <1>3
  <2>2. Sale!Give(t, to)
    BY <1>2, <2>1 DEF Sale!Give, TransferToken, Moves
  <2>. QED
    BY <2>2 DEF Sale!Next
<1>4. CASE (\E t \in Tokens : Approve(t)) \/ (\E a \in Accounts : SetApprovalForAll(a))
  <2>1. owner' = owner
    BY <1>4 DEF Approve, SetApprovalForAll
  <2>. QED
    BY <1>2, <2>1 DEF Sale!saleVars
<1>. QED
  BY <1>3, <1>4 DEF TokenNext

LEMMA MarketInitMaps == ASSUME MarketAssumption, Init PROVE Sale!Init
<1>1. Offers = {}
  BY DEF Init, Offers, NoListing
<1>2. Ledger \in [Accounts \cup {House} -> Int]
  <2>1. MarketInv /\ Unlocked
    BY MarketInitSound DEF Init, Unlocked
  <2>2. Ledger = wei
    BY <2>1, LedgerUnlocked
  <2>. QED
    BY <2>1, <2>2 DEF MarketInv, MarketTypeOK
<1>. QED
  BY <1>1, <1>2 DEF Sale!Init, Init

LEMMA MarketStepMaps ==
    ASSUME MarketAssumption, MarketInv, [MarketNext]_marketVars
    PROVE  [Sale!Next]_Sale!saleVars
<1>1. CASE UNCHANGED marketVars
  BY <1>1 DEF marketVars, tokenVars, bookVars, Sale!saleVars, Offers, Offer, Ledger
<1>2. CASE TokenNext
  BY <1>2, TokenMaps
<1>3. CASE \E a \in Accounts, t \in Tokens, p \in Prices : List(a, t, p)
  BY <1>3, ListMaps DEF Sale!Next
<1>4. CASE \E a \in Accounts, i \in Ids, p \in Prices : UpdatePrice(i, a, p)
  BY <1>4, UpdatePriceMaps DEF Sale!Next
<1>5. CASE \E a \in Accounts, i \in Ids : Cancel(i, a)
  BY <1>5, CancelListingMaps DEF Sale!Next
<1>6. CASE \E i \in Ids, b \in Accounts : Buy(i, b)
  BY <1>6, BuyListingMaps DEF Sale!Next
<1>7. CASE PayOut
  BY <1>7, PayOutMaps
<1>8. CASE (\E bps \in FeeRates : SetFeeBps(bps)) \/ (\E a \in Treasuries : SetTreasury(a))
  <2>1. UNCHANGED <<tokenVars, bookVars, wei, sale>>
    BY <1>8 DEF SetFeeBps, SetTreasury
  <2>. QED
    BY <2>1, OffersUnchanged DEF tokenVars, bookVars, Ledger, Sale!saleVars
<1>9. CASE WithdrawFees
  BY <1>9, WithdrawMaps DEF Sale!Next
<1>. QED
  BY <1>1, <1>2, <1>3, <1>4, <1>5, <1>6, <1>7, <1>8, <1>9 DEF MarketNext, SellerNext, OwnerNext

\* buy moves token and price together, keeps a tenth of the price at most, and
\* nothing its hooks call sees half a sale.
THEOREM MarketImplementsSale == ASSUME MarketAssumption PROVE MarketSpec => MarketSellsAtomically
<1>1. Init => MarketInv
  BY MarketInitSound
<1>2. MarketInv /\ [MarketNext]_marketVars => MarketInv'
  BY MarketStepSound
<1>3. Init => Sale!Init
  BY MarketInitMaps
<1>4. MarketInv /\ [MarketNext]_marketVars => [Sale!Next]_Sale!saleVars
  BY MarketStepMaps
<1>. QED
  BY <1>1, <1>2, <1>3, <1>4, PTL DEF MarketSpec, MarketSellsAtomically, Sale!Spec
=============================================================================

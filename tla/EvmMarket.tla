------------------------------ MODULE EvmMarket ------------------------------
(***************************************************************************)
(* KumuleMarket: an ERC-721 market that never takes custody.  A listing is *)
(* bookkeeping; the token stays with its seller, who may move it, sell it  *)
(* elsewhere or withdraw the approval without telling the market.          *)
(*                                                                         *)
(* buy calls out twice, to the buyer's receiver hook and then to the       *)
(* seller, so it is two steps with anything the hooks may do in between;   *)
(* every other call is one step.  A transaction that reverts is no step.   *)
(***************************************************************************)
EXTENDS Integers

CONSTANTS
    Accounts,     \* wallets and contracts that call
    Tokens,       \* token ids of one collection
    Prices,       \* wei, and 0, which list refuses
    Ids,          \* listing ids, an initial segment of 1, 2, ...
    FeeRates,     \* basis points the owner may try to set
    Treasuries,
    NoOne,        \* holds burned tokens
    House,        \* the contract itself
    Funds         \* wei each account starts with

MAX_FEE_BPS == 1000

ASSUME MarketAssumption ==
    /\ NoOne \notin Accounts
    /\ House \notin Accounts
    /\ Treasuries \subseteq Accounts
    /\ Prices \subseteq Nat
    /\ Ids \subseteq Nat \ {0}
    /\ FeeRates \subseteq Nat
    /\ Funds \in Nat

VARIABLES
    owner,        \* ERC-721: token -> holder
    approvedAll,  \* ERC-721: holders whose operator the market is
    approved,     \* ERC-721: tokens approved to the market
    listings, activeListingOf, nextListingId, feeBps, treasury,
    wei,          \* account or House -> balance
    sale          \* the buy under way: what is still owed, and to whom

tokenVars == <<owner, approvedAll, approved>>
bookVars == <<listings, activeListingOf, nextListingId>>
marketVars == <<tokenVars, bookVars, feeBps, treasury, wei, sale>>

NoListing == [seller |-> NoOne, token |-> NoOne, price |-> 0, active |-> FALSE]
NoSale == [seller |-> NoOne, owed |-> 0]

Init ==
    /\ owner \in [Tokens -> Accounts]
    /\ approvedAll = {}
    /\ approved = {}
    /\ listings = [i \in Ids |-> NoListing]
    /\ activeListingOf = [t \in Tokens |-> 0]
    /\ nextListingId = 1
    /\ feeBps \in FeeRates /\ feeBps <= MAX_FEE_BPS
    /\ treasury \in Treasuries
    /\ wei = [a \in Accounts \cup {House} |-> IF a = House THEN 0 ELSE Funds]
    /\ sale = NoSale

-----------------------------------------------------------------------------
(* The token.  A transfer clears the approval of the token.                *)

IsApproved(t, holder) == holder \in approvedAll \/ t \in approved

Moves(t, to) ==
    /\ owner' = [owner EXCEPT ![t] = to]
    /\ approved' = approved \ {t}
    /\ UNCHANGED approvedAll

TransferToken(t, to) ==
    /\ owner[t] \in Accounts
    /\ Moves(t, to)
    /\ UNCHANGED <<bookVars, feeBps, treasury, wei, sale>>

Approve(t) ==
    /\ owner[t] \in Accounts
    /\ approved' \in {approved \cup {t}, approved \ {t}}
    /\ UNCHANGED <<owner, approvedAll, bookVars, feeBps, treasury, wei, sale>>

SetApprovalForAll(a) ==
    /\ approvedAll' \in {approvedAll \cup {a}, approvedAll \ {a}}
    /\ UNCHANGED <<owner, approved, bookVars, feeBps, treasury, wei, sale>>

-----------------------------------------------------------------------------
(* Selling.                                                                *)

\* Mutated: the listing of a token is not looked up.
ListsAgain(t) == TRUE

NotListed(t) == activeListingOf[t] # 0 => ~listings[activeListingOf[t]].active

List(a, t, p) ==
    /\ p # 0
    /\ owner[t] = a
    /\ IsApproved(t, a)
    /\ NotListed(t)
    /\ nextListingId \in Ids
    /\ listings' = [listings EXCEPT ![nextListingId] =
                        [seller |-> a, token |-> t, price |-> p, active |-> TRUE]]
    /\ activeListingOf' = [activeListingOf EXCEPT ![t] = nextListingId]
    /\ nextListingId' = nextListingId + 1
    /\ UNCHANGED <<tokenVars, feeBps, treasury, wei, sale>>

UpdatePrice(i, a, p) ==
    /\ listings[i].active
    /\ listings[i].seller = a
    /\ p # 0
    /\ listings' = [listings EXCEPT ![i].price = p]
    /\ UNCHANGED <<tokenVars, activeListingOf, nextListingId, feeBps, treasury, wei, sale>>

\* Mutated: the listing is left active until it is overwritten.
NotCleared(i) == listings

\* What a sale and a cancellation do to the listing.
Cleared(i) == [listings EXCEPT ![i].active = FALSE]

\* A stranger may cancel once the seller is not the owner; ownerOf reverts for
\* a burned token.
MayCancel(i, a) ==
    \/ listings[i].seller = a
    \/ owner[listings[i].token] \notin {listings[i].seller, NoOne}

Cancel(i, a) ==
    /\ listings[i].active
    /\ MayCancel(i, a)
    /\ listings' = Cleared(i)
    /\ activeListingOf' = [activeListingOf EXCEPT ![listings[i].token] = 0]
    /\ UNCHANGED <<tokenVars, nextListingId, feeBps, treasury, wei, sale>>

-----------------------------------------------------------------------------
(* Buying.                                                                 *)

\* nonReentrant.
Unlocked == sale = NoSale

Fee(price) == (price * feeBps) \div 10000

\* The listing is cleared, the token moved by safeTransferFrom; the receiver
\* hook of the buyer runs next, with the proceeds still in the contract.
Buy(i, b) ==
    LET l == listings[i]
    IN  /\ Unlocked
        /\ l.active
        /\ b # l.seller
        /\ wei[b] >= l.price
        /\ owner[l.token] = l.seller
        /\ IsApproved(l.token, l.seller)
        /\ listings' = Cleared(i)
        /\ activeListingOf' = [activeListingOf EXCEPT ![l.token] = 0]
        /\ Moves(l.token, b)
        /\ wei' = [[wei EXCEPT ![b] = @ - l.price] EXCEPT ![House] = @ + l.price]
        /\ sale' = [seller |-> l.seller, owed |-> l.price - Fee(l.price)]
        /\ UNCHANGED <<nextListingId, feeBps, treasury>>

\* The seller is paid.  Its hook runs with the lock held, but a call it makes
\* then finds what a later transaction would.
PayOut ==
    /\ ~Unlocked
    /\ wei[House] >= sale.owed
    /\ wei' = [[wei EXCEPT ![House] = @ - sale.owed] EXCEPT ![sale.seller] = @ + sale.owed]
    /\ sale' = NoSale
    /\ UNCHANGED <<tokenVars, bookVars, feeBps, treasury>>

-----------------------------------------------------------------------------
(* The owner of the contract.                                              *)

FeeAllowed(bps) == bps <= MAX_FEE_BPS

SetFeeBps(bps) ==
    /\ FeeAllowed(bps)
    /\ feeBps' = bps
    /\ UNCHANGED <<tokenVars, bookVars, treasury, wei, sale>>

SetTreasury(a) ==
    /\ treasury' = a
    /\ UNCHANGED <<tokenVars, bookVars, feeBps, wei, sale>>

\* Mutated: withdrawFees without nonReentrant.
WithdrawAnytime == wei[House] # 0

MayWithdraw == wei[House] # 0 /\ Unlocked

WithdrawFees ==
    /\ MayWithdraw
    /\ wei' = [[wei EXCEPT ![House] = 0] EXCEPT ![treasury] = @ + wei[House]]
    /\ UNCHANGED <<tokenVars, bookVars, feeBps, treasury, sale>>

-----------------------------------------------------------------------------
TokenNext ==
    \/ \E t \in Tokens, to \in Accounts \cup {NoOne} : TransferToken(t, to)
    \/ \E t \in Tokens : Approve(t)
    \/ \E a \in Accounts : SetApprovalForAll(a)

SellerNext ==
    \E a \in Accounts :
        \/ \E t \in Tokens, p \in Prices : List(a, t, p)
        \/ \E i \in Ids, p \in Prices : UpdatePrice(i, a, p)
        \/ \E i \in Ids : Cancel(i, a)

OwnerNext ==
    \/ \E bps \in FeeRates : SetFeeBps(bps)
    \/ \E a \in Treasuries : SetTreasury(a)
    \/ WithdrawFees

MarketNext ==
    \/ TokenNext
    \/ SellerNext
    \/ \E i \in Ids, b \in Accounts : Buy(i, b)
    \/ PayOut
    \/ OwnerNext

MarketSpec == Init /\ [][MarketNext]_marketVars

-----------------------------------------------------------------------------
(* Properties.                                                             *)

Listings == [seller : Accounts, token : Tokens, price : Prices \ {0}, active : BOOLEAN]

\* Fields keep their types, balances are not negative, and the fee stays under
\* its ceiling whatever the owner sets.
MarketTypeOK ==
    /\ owner \in [Tokens -> Accounts \cup {NoOne}]
    /\ approvedAll \subseteq Accounts
    /\ approved \subseteq Tokens
    /\ listings \in [Ids -> Listings \cup {NoListing}]
    /\ activeListingOf \in [Tokens -> Ids \cup {0}]
    /\ nextListingId \in Nat
    /\ feeBps \in 0..MAX_FEE_BPS
    /\ treasury \in Treasuries
    /\ wei \in [Accounts \cup {House} -> Nat]
    /\ sale \in [seller : Accounts, owed : Nat] \cup {NoSale}

\* activeListingOf names the live listing of a token, so a token has at most
\* one, through sales, cancellations by strangers, and relisting from a hook.
OneListing ==
    \A i \in Ids : listings[i].active => activeListingOf[listings[i].token] = i

\* While a sale calls out, the contract still holds what it owes the seller.
CanPayOut == sale.owed <= wei[House]

\* What the market shows: a sale under way has already been made.
Ledger ==
    [a \in Accounts \cup {House} |->
        IF a = House THEN wei[House] - sale.owed
        ELSE IF a = sale.seller THEN wei[a] + sale.owed
        ELSE wei[a]]
Offer(l) == [seller |-> l.seller, asset |-> l.token, price |-> l.price, for |-> NoOne]
Offers == {Offer(listings[i]) : i \in {j \in Ids : listings[j].active}}

\* A token changes hands because its holder moved it, or together with the
\* price its present owner asks, of which the market keeps a tenth at most; a
\* hook in the middle of a sale finds nothing to take.
Sale == INSTANCE AtomicSale WITH
    Holders <- Accounts, Assets <- Tokens, FeeCap <- MAX_FEE_BPS, Custodial <- FALSE,
    title <- owner, money <- Ledger, asks <- Offers

MarketSellsAtomically == Sale!Spec
=============================================================================

---------------------------- MODULE EscrowProgram ----------------------------
(***************************************************************************)
(* The Anchor program nftmarketplace: one escrow account for each asset    *)
(* and seller, its program-derived address, which holds the asset while it *)
(* is on sale.  A Solana transaction is atomic, so an instruction either   *)
(* takes effect as a whole or not at all, and anyone may send any          *)
(* instruction at any time.                                                *)
(*                                                                         *)
(* admin_resolve is left out: it needs status Disputed, which no           *)
(* instruction ever writes.                                                *)
(***************************************************************************)
EXTENDS Integers

CONSTANTS
    Wallets,   \* keypairs that sign
    Assets,    \* MPL Core assets
    Prices,    \* lamports an escrow may ask
    NoOne,     \* no buyer named; the holder of a burned asset
    House,     \* the market's own account; this market keeps no fee
    Funds      \* lamports each wallet starts with

ASSUME EscrowAssumption ==
    /\ NoOne \notin Wallets
    /\ House \notin Wallets
    /\ Prices \subseteq Nat
    /\ Funds \in Nat

VARIABLES
    escrow,    \* asset -> seller -> the Escrow account
    owner,     \* asset -> its owner field
    lamports   \* wallet -> balance

escrowVars == <<escrow, owner, lamports>>

Statuses == {"none", "Pending", "Deposited", "Completed", "Cancelled"}

\* No account at the program-derived address.
NoEscrow == [status |-> "none", price |-> 0, buyer |-> NoOne]

\* The owner field of an asset: a wallet, or the escrow of a seller.
Wallet(w) == [of |-> w, escrowed |-> FALSE]
Pda(s) == [of |-> s, escrowed |-> TRUE]
Burned == [of |-> NoOne, escrowed |-> FALSE]

Init ==
    /\ escrow = [a \in Assets |-> [s \in Wallets |-> NoEscrow]]
    /\ \E w \in [Assets -> Wallets] : owner = [a \in Assets |-> Wallet(w[a])]
    /\ lamports = [w \in Wallets |-> Funds]

-----------------------------------------------------------------------------
\* MPL Core moves an asset only for its owner, who signs: a wallet itself, or
\* the program for the address it derived.
Moves(a, from, to) ==
    /\ owner[a] = from
    /\ owner' = [owner EXCEPT ![a] = to]

SetEscrow(a, s, account) == escrow' = [escrow EXCEPT ![a][s] = account]

\* #[account(init)]: the address holds no account.
Vacant(a, s) == escrow[a][s].status = "none"

\* create_escrow does not look at the asset: anybody may open an escrow for
\* anything.
CreateEscrow(a, s, p, b) ==
    /\ Vacant(a, s)
    /\ SetEscrow(a, s, [status |-> "Pending", price |-> p, buyer |-> b])
    /\ UNCHANGED <<owner, lamports>>

DepositAsset(a, s) ==
    /\ escrow[a][s].status = "Pending"
    /\ Moves(a, Wallet(s), Pda(s))
    /\ SetEscrow(a, s, [escrow[a][s] EXCEPT !.status = "Deposited"])
    /\ UNCHANGED lamports

\* Mutated: the buyer the seller named is not compared.
AnyBuyer(a, s, b) == TRUE

\* The payment comes first in the code; a failed comparison undoes it.
MayBuy(a, s, b) == escrow[a][s].buyer \in {NoOne, b}

CanPay(b, price) == lamports[b] >= price

BuyAsset(a, s, b) ==
    LET price == escrow[a][s].price
    IN  /\ escrow[a][s].status = "Deposited"
        /\ CanPay(b, price)
        /\ MayBuy(a, s, b)
        /\ lamports' = [[lamports EXCEPT ![b] = @ - price] EXCEPT ![s] = @ + price]
        /\ Moves(a, Pda(s), Wallet(b))
        /\ SetEscrow(a, s, [escrow[a][s] EXCEPT !.status = "Completed", !.buyer = b])

\* Mutated: the buyer is reset and the status is not.
StatusKept(account) == [account EXCEPT !.buyer = NoOne]

Cancelled(account) == [account EXCEPT !.status = "Cancelled", !.buyer = NoOne]

CancelEscrow(a, s) ==
    /\ escrow[a][s].status = "Deposited"
    /\ Moves(a, Pda(s), Wallet(s))
    /\ SetEscrow(a, s, Cancelled(escrow[a][s]))
    /\ UNCHANGED lamports

\* Mutated: an account is closed whatever it holds.
ClosableAnytime(a, s) == escrow[a][s].status # "none"

\* A Pending account cannot be closed.
Closable(a, s) == escrow[a][s].status \in {"Completed", "Cancelled"}

CloseEscrow(a, s) ==
    /\ Closable(a, s)
    /\ SetEscrow(a, s, NoEscrow)
    /\ UNCHANGED <<owner, lamports>>

-----------------------------------------------------------------------------
(* What a wallet does with an asset without the program.                   *)

\* Nothing stops a wallet from sending an asset straight to an escrow address,
\* where no instruction will ever find it.
TransferAsset(a, from, to) ==
    /\ Moves(a, Wallet(from), to)
    /\ UNCHANGED <<escrow, lamports>>

BurnAsset(a, w) ==
    /\ Moves(a, Wallet(w), Burned)
    /\ UNCHANGED <<escrow, lamports>>

SellerActs(a, s) ==
    \/ \E p \in Prices, b \in Wallets \cup {NoOne} : CreateEscrow(a, s, p, b)
    \/ DepositAsset(a, s)
    \/ CancelEscrow(a, s)
    \/ CloseEscrow(a, s)
    \/ BurnAsset(a, s)

ProgramNext ==
    \E a \in Assets, s \in Wallets :
        \/ SellerActs(a, s)
        \/ \E w \in Wallets : BuyAsset(a, s, w)
        \/ \E w \in Wallets : TransferAsset(a, s, Wallet(w)) \/ TransferAsset(a, s, Pda(w))

ProgramSpec == Init /\ [][ProgramNext]_escrowVars

-----------------------------------------------------------------------------
(* Properties.                                                             *)

Accounts == [status : Statuses, price : Prices \cup {0}, buyer : Wallets \cup {NoOne}]

\* Every account, owner field and balance is well formed; no wallet is overdrawn.
ProgramTypeOK ==
    /\ escrow \in [Assets -> [Wallets -> Accounts]]
    /\ owner \in [Assets -> [of : Wallets \cup {NoOne}, escrowed : BOOLEAN]]
    /\ lamports \in [Wallets -> Nat]

\* What an account calls Deposited is at its address, whoever else has an escrow
\* for the asset: it can always be delivered, or cancelled back to its seller.
Custody ==
    \A a \in Assets, s \in Wallets :
        escrow[a][s].status = "Deposited" => owner[a] = Pda(s)

\* An account that stops being Deposited has let its asset go: none is closed,
\* written over or reset around an asset that could then never be moved.
NeverStranded ==
    [][\A a \in Assets, s \in Wallets :
          escrow[a][s].status = "Deposited"
             => escrow'[a][s].status = "Deposited" \/ owner'[a] # Pda(s)]_escrowVars

\* What the market shows: who holds an asset or has it on offer, who has how
\* much, and what is on offer to whom.
Titles == [a \in Assets |-> owner[a].of]
Money == [w \in Wallets \cup {House} |-> IF w = House THEN 0 ELSE lamports[w]]
Terms == [seller : Wallets, asset : Assets, price : Prices, for : Wallets \cup {NoOne}]
OnSale(x) == [status |-> "Deposited", price |-> x.price, buyer |-> x.for]
Offers == {x \in Terms : escrow[x.asset][x.seller] = OnSale(x)}

\* Every sale is atomic, at the price and to the buyer its seller asked for;
\* what is on offer cannot be given away, and the program keeps no fee.
Sale == INSTANCE AtomicSale WITH
    Holders <- Wallets, FeeCap <- 0, Custodial <- TRUE,
    title <- Titles, money <- Money, asks <- Offers

SellsAtomically == Sale!Spec
=============================================================================

----------------------------- MODULE Storefront -----------------------------
(***************************************************************************)
(* The marketplace's own record of the Solana escrow program: the rows of  *)
(* nfts, listings, sales and transactions that syncListing, settle and     *)
(* confirmBurn bring up to date after a wallet's transaction has landed.   *)
(*                                                                         *)
(* A handler reads the chain, then runs its statements one by one, each    *)
(* committed alone: withPrisma opens no transaction.  Requests therefore   *)
(* interleave statement by statement, with each other and with the chain,  *)
(* and a failing one leaves what it has written.                           *)
(*                                                                         *)
(* Wallets sign what the worker builds, and clients report what they did   *)
(* themselves: a sync of one's own escrow, a settle of one's own purchase, *)
(* as late and as often as they like.  Users, wallets and TRANSFER rows,   *)
(* which no handler here reads, are left out.                              *)
(***************************************************************************)
EXTENDS Integers, Sequences, FiniteSetsExt

CONSTANTS
    Wallets,       \* keypairs that sign
    Sellers,       \* those that list; bound: the others only buy
    Assets,        \* MPL Core assets
    Prices,        \* what an escrow may ask
    NoOne,         \* the holder of a burned asset
    Requests,      \* requests that may be under way together
    MaxBought,     \* bound: purchases on chain
    MaxListings,   \* bound: listing rows
    MaxOpened      \* bound: purchases opened by buyNft

ASSUME ShopAssumption ==
    /\ Sellers \subseteq Wallets
    /\ Assets # {}
    /\ NoOne \notin Wallets
    /\ Prices \subseteq Nat \ {0}

VARIABLES
    owner,       \* asset -> who holds it on chain, and what the escrow asks
    listed,      \* history: sellers who have had the asset in escrow
    bought,      \* purchases on chain, in order; the place of one is its hash
    nft,         \* asset -> ownerAddress of its row
    listing,     \* rows of listings, in order of creation
    sale,        \* rows of sales
    purchase,    \* PURCHASE rows of transactions, in order of creation
    burnt,       \* assets with a BURN row in transactions
    work         \* request -> where its handler is, and what it has read

chainVars == <<owner, listed, bought>>
rowVars == <<nft, listing, sale, purchase, burnt>>
shopVars == <<chainVars, rowVars, work>>

\* No row found, no hash yet, no price asked.
None == 0

\* The owner field of an asset: a wallet, or the escrow of a seller, which the
\* transactions listNft builds fund at once, so that it is always on sale.
Held(w) == [of |-> w, asks |-> None]
Escrowed(s, p) == [of |-> s, asks |-> p]
Burned == Held(NoOne)

\* Whom nft.ownerAddress names: a wallet, or a seller's escrow address.
Wallet(w) == [of |-> w, escrow |-> FALSE]
Pda(s) == [of |-> s, escrow |-> TRUE]
NoRow == Wallet(NoOne)

Addresses == [of : Wallets \cup {NoOne}, escrow : BOOLEAN]

Address(x) == [of |-> x.of, escrow |-> x.asks # None]

Idle == [step |-> "idle", asset |-> CHOOSE a \in Assets : TRUE, who |-> NoRow,
         tx |-> None, price |-> None, row |-> None]

ShopInit ==
    /\ \E w \in [Assets -> Wallets] :
          /\ owner = [a \in Assets |-> Held(w[a])]
          /\ nft = [a \in Assets |-> Wallet(w[a])]
    /\ listed = [a \in Assets |-> {}]
    /\ bought = <<>>
    /\ listing = <<>>
    /\ sale = {}
    /\ purchase = <<>>
    /\ burnt = {}
    /\ work = [r \in Requests |-> Idle]

-----------------------------------------------------------------------------
(* The chain, as wallets move it with the transactions the worker builds;  *)
(* EscrowProgram has the instructions, and shows that each sale is atomic. *)

Moves(a, from, to) ==
    /\ owner[a] = from
    /\ owner' = [owner EXCEPT ![a] = to]

\* listNft builds close_escrow, create_escrow and deposit_asset into one
\* transaction.  It refuses a price of zero, and an asset already listed; one
\* built too early fails as a whole.
List(a, s, p) ==
    /\ Moves(a, Held(s), Escrowed(s, p))
    /\ listed' = [listed EXCEPT ![a] = @ \cup {s}]
    /\ UNCHANGED bought

\* The page offers nobody a listing of their own.
Buy(a, s, p, b) ==
    /\ Len(bought) < MaxBought
    /\ Moves(a, Escrowed(s, p), Held(b))
    /\ bought' = Append(bought, [asset |-> a, buyer |-> b])
    /\ UNCHANGED listed

Cancel(a, s, p) ==
    /\ Moves(a, Escrowed(s, p), Held(s))
    /\ UNCHANGED <<listed, bought>>

Transfer(a, s, w) ==
    /\ Moves(a, Held(s), Held(w))
    /\ UNCHANGED <<listed, bought>>

\* burnNft looks at the rows when it builds the transaction; they may have
\* changed by the time the wallet signs, and only the chain then objects.
Burn(a, s) ==
    /\ Moves(a, Held(s), Burned)
    /\ UNCHANGED <<listed, bought>>

ChainNext ==
    /\ \E a \in Assets, s \in Wallets :
          \/ \E p \in Prices :
                \/ s \in Sellers /\ List(a, s, p)
                \/ \E b \in Wallets \ {s} : Buy(a, s, p, b)
                \/ Cancel(a, s, p)
          \/ \E w \in Wallets \ {s} : Transfer(a, s, w)
          \/ Burn(a, s)
    /\ UNCHANGED <<rowVars, work>>

-----------------------------------------------------------------------------
(* Requests.                                                               *)

At(r, step) == work[r].step = step

Begin(r, job) ==
    /\ At(r, "idle")
    /\ work' = [work EXCEPT ![r] = job]

Goes(r, step) == work' = [work EXCEPT ![r].step = step]

\* The handler answers, or one of its statements throws and it answers 500.
Ends(r) == work' = [work EXCEPT ![r] = Idle]

Active(a) == {i \in DOMAIN listing : listing[i].asset = a /\ listing[i].status = "ACTIVE"}

Exists(i) == listing[i].status # "deleted"

SetStatus(i, status) == listing' = [listing EXCEPT ![i].status = status]

\* The connection fails, or the isolate is evicted, before the next statement.
Fail(r) ==
    /\ ~At(r, "idle")
    /\ Ends(r)
    /\ UNCHANGED <<chainVars, rowVars>>

-----------------------------------------------------------------------------
(* buyNft: the purchase is recorded, PENDING, before the wallet signs.     *)

\* From the page of a listing; an error is swallowed, and leaves no row.
BuyNft(b) ==
    /\ \E a \in Assets : owner[a].asks # None /\ owner[a].of # b
    /\ Cardinality({i \in DOMAIN purchase : purchase[i].opened}) < MaxOpened
    /\ purchase' = Append(purchase, [buyer |-> Wallet(b), opened |-> TRUE, tx |-> None])
    /\ UNCHANGED <<chainVars, nft, listing, sale, burnt, work>>

-----------------------------------------------------------------------------
(* syncListing.                                                            *)

\* What the escrow of the seller asks, if it holds the asset.
Asks(a, s) == IF owner[a].of = s THEN owner[a].asks ELSE None

OnSale(p) == p # None

\* A seller who has listed or cancelled reports it.  The escrow account is read
\* here, once; the rows are written later.
SyncRead(r, a, s) ==
    /\ s \in listed[a]
    /\ Begin(r, [Idle EXCEPT !.step = "sync owner", !.asset = a, !.who = Wallet(s), !.price = Asks(a, s)])
    /\ UNCHANGED <<chainVars, rowVars>>

SyncOwner(r) ==
    LET a == work[r].asset IN
    /\ At(r, "sync owner")
    /\ \/ nft[a] = NoRow /\ Ends(r) /\ UNCHANGED nft
       \/ nft[a] # NoRow /\ Goes(r, "sync find") /\ nft' = [nft EXCEPT ![a] = work[r].who]
    /\ UNCHANGED <<chainVars, listing, sale, purchase, burnt>>

\* findFirst with no order: any ACTIVE listing of the seller.
SyncFind(r) ==
    LET found == {i \in Active(work[r].asset) : listing[i].seller = work[r].who} IN
    /\ At(r, "sync find")
    /\ \/ \E i \in found : work' = [work EXCEPT ![r].step = "sync write", ![r].row = i]
       \/ found = {} /\ OnSale(work[r].price) /\ Goes(r, "sync write")
       \/ found = {} /\ ~OnSale(work[r].price) /\ Ends(r)
    /\ UNCHANGED <<chainVars, rowVars>>

\* Mutated: the update makes the row ACTIVE as well.
Reopened(row, p) == [row EXCEPT !.price = p, !.status = "ACTIVE"]

Repriced(row, p) == [row EXCEPT !.price = p]

\* An update is by id: it does not ask whether the row is still ACTIVE.
SyncWrite(r) ==
    LET a == work[r].asset  i == work[r].row  p == work[r].price IN
    /\ At(r, "sync write")
    /\ \/ /\ i # None /\ Exists(i) /\ ~OnSale(p)
          /\ SetStatus(i, "CANCELLED")
       \/ /\ i # None /\ Exists(i) /\ OnSale(p)
          /\ listing' = [listing EXCEPT ![i] = Repriced(@, p)]
       \/ /\ i = None /\ nft[a] # NoRow
          /\ Len(listing) < MaxListings
          /\ listing' = Append(listing,
                [asset |-> a, seller |-> work[r].who, price |-> p, status |-> "ACTIVE"])
       \/ /\ IF i = None THEN nft[a] = NoRow ELSE ~Exists(i)
          /\ UNCHANGED listing
    /\ Ends(r)
    /\ UNCHANGED <<chainVars, nft, sale, purchase, burnt>>

-----------------------------------------------------------------------------
(* settle.                                                                 *)

\* Mutated: whoever the chain shows is taken for the buyer.
SettlesToHolder(h, x) == x = Address(owner[bought[h].asset])

SettlesTo(h, x) == x = Address(owner[bought[h].asset]) /\ x = Wallet(bought[h].buyer)

\* The transaction is verified and the owner read; a mismatch is answered 409.
SettleRead(r, h) ==
    /\ \E x \in Addresses \ {NoRow} :
          /\ SettlesTo(h, x)
          /\ Begin(r, [Idle EXCEPT !.step = "settle find", !.asset = bought[h].asset, !.who = x, !.tx = h])
    /\ UNCHANGED <<chainVars, rowVars>>

\* The row and its newest ACTIVE listing, whoever the seller is.
SettleFind(r) ==
    LET a == work[r].asset
        i == IF Active(a) = {} THEN None ELSE Max(Active(a))
    IN  /\ At(r, "settle find")
        /\ IF nft[a] \in {NoRow, work[r].who}
           THEN Ends(r)
           ELSE work' = [work EXCEPT ![r].step = "settle owner", ![r].row = i,
                                     ![r].price = IF i = None THEN None ELSE listing[i].price]
        /\ UNCHANGED <<chainVars, rowVars>>

SettleOwner(r) ==
    LET a == work[r].asset IN
    /\ At(r, "settle owner")
    /\ nft' = IF nft[a] = NoRow THEN nft ELSE [nft EXCEPT ![a] = work[r].who]
    /\ IF nft[a] = NoRow \/ work[r].row = None THEN Ends(r) ELSE Goes(r, "settle sale")
    /\ UNCHANGED <<chainVars, listing, sale, purchase, burnt>>

\* Mutated: Sale.listingId is not unique.
SellsAgain(i) == TRUE

Unsold(i) == \A x \in sale : x.listing # i

\* An upsert on the hash; Sale.listingId is unique, so a second sale of a
\* listing throws, and so does one of a listing that is gone.
SettleSale(r) ==
    LET j == work[r]
        recorded == \E x \in sale : x.tx = j.tx
    IN  /\ At(r, "settle sale")
        /\ \/ /\ recorded
              /\ Goes(r, "settle close")
              /\ UNCHANGED sale
           \/ /\ ~recorded /\ Unsold(j.row) /\ Exists(j.row)
              /\ sale' = sale \cup {[tx |-> j.tx, listing |-> j.row, asset |-> j.asset,
                                     seller |-> listing[j.row].seller, buyer |-> j.who, price |-> j.price]}
              /\ Goes(r, "settle close")
           \/ /\ ~recorded /\ ~(Unsold(j.row) /\ Exists(j.row))
              /\ Ends(r)
              /\ UNCHANGED sale
        /\ UNCHANGED <<chainVars, nft, listing, purchase, burnt>>

SettleClose(r) ==
    LET i == work[r].row IN
    /\ At(r, "settle close")
    /\ \/ Exists(i) /\ SetStatus(i, "SOLD") /\ Goes(r, "settle pending")
       \/ ~Exists(i) /\ Ends(r) /\ UNCHANGED listing
    /\ UNCHANGED <<chainVars, nft, sale, purchase, burnt>>

\* The buyer's newest purchase without a hash, of whatever asset.
SettlePending(r) ==
    LET open == {i \in DOMAIN purchase : purchase[i].buyer = work[r].who /\ purchase[i].tx = None} IN
    /\ At(r, "settle pending")
    /\ work' = [work EXCEPT ![r].step = "settle purchase", ![r].row = IF open = {} THEN None ELSE Max(open)]
    /\ UNCHANGED <<chainVars, rowVars>>

\* Transaction.txHash is unique: an update throws where the hash is taken, and
\* the upsert finds the row that has it.
SettlePurchase(r) ==
    LET j == work[r]
        taken == {i \in DOMAIN purchase : purchase[i].tx = j.tx}
    IN  /\ At(r, "settle purchase")
        /\ purchase' = IF j.row # None /\ taken \subseteq {j.row} THEN [purchase EXCEPT ![j.row].tx = j.tx]
                       ELSE IF j.row = None /\ taken = {}
                            THEN Append(purchase, [buyer |-> j.who, opened |-> FALSE, tx |-> j.tx])
                       ELSE purchase
        /\ Ends(r)
        /\ UNCHANGED <<chainVars, nft, listing, sale, burnt>>

-----------------------------------------------------------------------------
(* confirmBurn.                                                            *)

\* Mutated: an account that cannot be read counts as gone.
SeemsGone(a) == TRUE

Gone(a) == owner[a] = Burned

BurnRead(r, a) ==
    /\ Gone(a)
    /\ nft[a] # NoRow
    /\ Begin(r, [Idle EXCEPT !.step = "burn record", !.asset = a])
    /\ UNCHANGED <<chainVars, rowVars>>

\* The row is created with the burn's hash, which is unique: a second one
\* throws.
BurnRecord(r) ==
    LET a == work[r].asset IN
    /\ At(r, "burn record")
    /\ IF a \in burnt THEN Ends(r) ELSE Goes(r, "burn delete")
    /\ burnt' = burnt \cup {a}
    /\ UNCHANGED <<chainVars, nft, listing, sale, purchase>>

\* Listings and sales go with the row.
BurnDelete(r) ==
    LET a == work[r].asset IN
    /\ At(r, "burn delete")
    /\ nft' = [nft EXCEPT ![a] = NoRow]
    /\ listing' = [i \in DOMAIN listing |->
          IF listing[i].asset = a THEN [listing[i] EXCEPT !.status = "deleted"] ELSE listing[i]]
    /\ sale' = {x \in sale : x.asset # a}
    /\ Ends(r)
    /\ UNCHANGED <<chainVars, purchase, burnt>>

-----------------------------------------------------------------------------
SyncNext(r) ==
    \/ \E a \in Assets, s \in Wallets : SyncRead(r, a, s)
    \/ SyncOwner(r) \/ SyncFind(r) \/ SyncWrite(r)

SettleNext(r) ==
    \/ \E h \in DOMAIN bought : SettleRead(r, h)
    \/ SettleFind(r) \/ SettleOwner(r) \/ SettleSale(r) \/ SettleClose(r)
    \/ SettlePending(r) \/ SettlePurchase(r)

BurnNext(r) ==
    \/ \E a \in Assets : BurnRead(r, a)
    \/ BurnRecord(r) \/ BurnDelete(r)

ShopNext ==
    \/ ChainNext
    \/ \E b \in Wallets : BuyNft(b)
    \/ \E r \in Requests : SyncNext(r) \/ SettleNext(r) \/ BurnNext(r) \/ Fail(r)

ShopSpec == ShopInit /\ [][ShopNext]_shopVars

-----------------------------------------------------------------------------
(* The types, and what a request may rely on between its statements.       *)

Owners == [of : Wallets \cup {NoOne}, asks : Prices \cup {None}]
Purchases == [asset : Assets, buyer : Wallets]
ListingRows ==
    [asset : Assets, seller : Addresses, price : Nat,
     status : {"ACTIVE", "CANCELLED", "SOLD", "deleted"}]
SaleRows ==
    [tx : Nat, listing : Nat, asset : Assets, seller : Addresses, buyer : Addresses, price : Nat]
PurchaseRows == [buyer : Addresses, opened : BOOLEAN, tx : Nat]
Steps ==
    {"idle", "sync owner", "sync find", "sync write", "settle find", "settle owner", "settle sale",
     "settle close", "settle pending", "settle purchase", "burn record", "burn delete"}
Jobs == [step : Steps, asset : Assets, who : Addresses, tx : Nat, price : Nat, row : Nat]

\* Every row and variable holds what its columns can hold.
ShopTypeOK ==
    /\ owner \in [Assets -> Owners]
    /\ listed \in [Assets -> SUBSET Wallets]
    /\ bought \in Seq(Purchases)
    /\ nft \in [Assets -> Addresses]
    /\ listing \in Seq(ListingRows)
    /\ sale \subseteq SaleRows
    /\ purchase \in Seq(PurchaseRows)
    /\ burnt \subseteq Assets
    /\ work \in [Requests -> Jobs]

\* Steps that name a listing row: it is one of the asset's own, sold or not.
Rowed == {"sync write", "settle owner", "settle sale", "settle close"}

\* Between its statements a request writes only for a person, names only a row
\* of its own asset, and deletes only what the chain no longer has.
Sound(r) ==
    LET j == work[r] IN
    /\ ~j.who.escrow
    /\ j.step \in {"sync owner", "sync find", "sync write", "settle find", "settle owner"} => j.who # NoRow
    /\ j.step \in Rowed /\ j.row # None =>
          j.row \in DOMAIN listing /\ listing[j.row].asset = j.asset
    /\ j.step \in {"sync owner", "sync find"} => j.row = None
    /\ j.step \in {"settle sale", "settle close"} => j.row # None
    /\ j.step = "settle purchase" => j.row \in 0..Len(purchase)
    /\ j.step \in {"burn record", "burn delete"} => owner[j.asset] = Burned

WorkInv == \A r \in Requests : Sound(r)

-----------------------------------------------------------------------------
(* Properties.                                                             *)

\* A listing is sold once and a purchase counted once, however often settle is
\* retried, whichever requests overlap and wherever they fail.
SoldOnce ==
    \A x, y \in sale : x.listing = y.listing \/ x.tx = y.tx => x = y

\* The recorded owner of an asset is a person, never the escrow program that
\* holds it during a sale.
OwnedByPerson == \A a \in Assets : ~nft[a].escrow

\* A row leaves the marketplace only after the asset has left the chain, and
\* no request still under way puts a listing or a sale back.
GoneIsBurned ==
    \A a \in Assets : nft[a] = NoRow =>
        /\ owner[a] = Burned
        /\ \A i \in DOMAIN listing : listing[i].asset = a => ~Exists(i)
        /\ \A x \in sale : x.asset # a

\* A listing once sold or cancelled is never on offer again: a new offer is a
\* new row, whatever a late request had read.
ClosedStaysClosed ==
    [][\A i \in DOMAIN listing :
          listing[i].status # "ACTIVE" => listing'[i].status # "ACTIVE"]_shopVars
=============================================================================

---------------------------- MODULE EvmCatalogue ----------------------------
(***************************************************************************)
(* The Base side of the catalogue.  Wallets mint, list and buy without the *)
(* worker; its rows follow, when somebody reports a transaction hash, or   *)
(* an operator runs the indexers.                                          *)
(*                                                                         *)
(* A report carries a hash and no outcome: the handler reads the chain,    *)
(* then writes rows.  Between the two the chain moves and other handlers   *)
(* write.  Solana's side, where a listed asset is in an escrow, and the    *)
(* statements of settle one by one, are Storefront's.                      *)
(*                                                                         *)
(* The market is the contract of EvmMarket, as far as rows can tell.       *)
(***************************************************************************)
EXTENDS Integers, Sequences, FiniteSetsExt

CONSTANTS
    Nfts,           \* token ids
    People,         \* addresses that hold tokens
    Nobody,         \* no address: not minted, or a read that failed
    Wei,            \* prices
    Reporters,      \* requests about one token that may be under way
    Operators,      \* requests of the dashboard that may be under way
    Window,         \* listings one run of the listing indexer looks at
    MaxOffers,      \* bound: listings made on the contract
    MaxAsked,       \* bound: different prices asked there
    MaxLots         \* bound: rows of listings

ASSUME CatalogueAssumption ==
    /\ Nobody \notin People
    /\ Window \in Nat \ {0} /\ MaxOffers \in Nat /\ MaxAsked \in Nat /\ MaxLots \in Nat

VARIABLES
    holder,     \* token -> its owner on chain, Nobody before it is minted
    offers,     \* the contract's listings; the place of one is its id
    card,       \* token -> its nfts row
    lots,       \* rows of listings, oldest first
    sold,       \* rows of sales
    task,       \* request -> where its handler is, and what it has read
    held,       \* history: <<token, owner>> that have been true on chain
    asked,      \* history: <<token, seller, price>> that have been listed
    mirror      \* history: the sync that runs, or has run, alone: [is, of], the ids it has read

Callers == Reporters \cup Operators

evmChain == <<holder, offers, held, asked>>
cardVars == <<card, lots, sold>>
catalogueVars == <<evmChain, cardVars, task, mirror>>

Disturbed == [is |-> "no", of |-> {}]

Blank == [indexed |-> FALSE, owner |-> Nobody, hidden |-> FALSE]

Waiting == [do |-> "nothing", token |-> Nobody, owner |-> Nobody, price |-> Nobody,
            row |-> 0, ok |-> FALSE, seen |-> <<>>]

CatalogueInit ==
    /\ holder = [t \in Nfts |-> Nobody]
    /\ offers = <<>>
    /\ card = [t \in Nfts |-> Blank]
    /\ lots = <<>>
    /\ sold = {}
    /\ task = [c \in Callers |-> Waiting]
    /\ held = {}
    /\ asked = {}
    /\ mirror = Disturbed

-----------------------------------------------------------------------------
(* The contracts                                                           *)

Gives(t, p) ==
    /\ holder' = [holder EXCEPT ![t] = p]
    /\ held' = held \cup {<<t, p>>}

EvmMint(t, p) ==
    /\ holder[t] = Nobody
    /\ Gives(t, p)
    /\ UNCHANGED <<offers, asked>>

Remembers(t, p, price) ==
    /\ asked' = asked \cup {<<t, p, price>>}
    /\ Cardinality(asked') <= MaxAsked

EvmTransfer(t, p) ==
    /\ holder[t] \in People \ {p}
    /\ Gives(t, p)
    /\ UNCHANGED <<offers, asked>>

EvmList(t, price) ==
    /\ holder[t] \in People
    /\ Len(offers) < MaxOffers
    /\ \A l \in DOMAIN offers : offers[l].token = t => ~offers[l].active
    /\ offers' = Append(offers, [token |-> t, seller |-> holder[t], price |-> price,
                                 active |-> TRUE])
    /\ Remembers(t, holder[t], price)
    /\ UNCHANGED <<holder, held>>

EvmReprice(l, price) ==
    /\ offers[l].active /\ offers[l].price # price
    /\ offers' = [offers EXCEPT ![l].price = price]
    /\ Remembers(offers[l].token, offers[l].seller, price)
    /\ UNCHANGED <<holder, held>>

\* By the seller, or by anyone once the seller has let go of the token.
EvmCancel(l) ==
    /\ offers[l].active
    /\ offers' = [offers EXCEPT ![l].active = FALSE]
    /\ UNCHANGED <<holder, held, asked>>

EvmBuy(l, p) ==
    /\ offers[l].active
    /\ offers[l].seller # p
    /\ holder[offers[l].token] = offers[l].seller
    /\ Gives(offers[l].token, p)
    /\ offers' = [offers EXCEPT ![l].active = FALSE]
    /\ UNCHANGED asked

EvmMoves ==
    /\ \/ \E t \in Nfts, p \in People : EvmMint(t, p) \/ EvmTransfer(t, p)
       \/ \E t \in Nfts, price \in Wei : EvmList(t, price)
       \/ \E l \in DOMAIN offers : EvmCancel(l)
       \/ \E l \in DOMAIN offers, price \in Wei : EvmReprice(l, price)
       \/ \E l \in DOMAIN offers, p \in People : EvmBuy(l, p)
    /\ mirror' = Disturbed
    /\ UNCHANGED <<cardVars, task>>

-----------------------------------------------------------------------------
(* Reads and queries the handlers share                                    *)

\* ownerOf and tokenURI: a token that is not there, or a node that does not
\* answer, is no answer.
ReadAsset(t) == {holder[t], Nobody}

\* The handlers act only on an owner that was read.
Answered(owner) == owner # Nobody

NewestOf(S) == IF S = {} THEN 0 ELSE Max(S)

\* Without the seller in the query.
TokensRows(t, p) == {n \in DOMAIN lots : lots[n].token = t}

RowsOf(t, p) == {n \in DOMAIN lots : lots[n].token = t /\ lots[n].seller = p}

OnShelf(n) == lots[n].status = "ACTIVE"

Begins(c, x) == task[c] = Waiting /\ task' = [task EXCEPT ![c] = x]
Returns(c) == task' = [task EXCEPT ![c] = Waiting]

Adds(t, p, price) ==
    /\ Len(lots) < MaxLots
    /\ lots' = Append(lots, [token |-> t, seller |-> p, price |-> price,
                                   status |-> "ACTIVE"])

-----------------------------------------------------------------------------
(* indexEvmToken, indexEvmTokens: one token's row                          *)

\* What the event of a mint's own receipt names; never the count of all mints,
\* which a node may be late with.
Receipts == {t \in Nfts : holder[t] # Nobody}

\* The token comes out of the mint's receipt, or of the operator's range.
TokenRead(c) ==
    /\ \E t \in Receipts : \E p \in ReadAsset(t) :
          /\ Answered(p)
          /\ Begins(c, [Waiting EXCEPT !.do = "token", !.token = t, !.owner = p])
    /\ mirror' = Disturbed
    /\ UNCHANGED <<evmChain, cardVars>>

\* An upsert: a row that was hidden stays so.
TokenWrite(c) ==
    LET h == task[c] IN
    /\ h.do = "token"
    /\ card' = [card EXCEPT ![h.token] =
                   [indexed |-> TRUE, owner |-> h.owner, hidden |-> @.hidden]]
    /\ Returns(c)
    /\ mirror' = Disturbed
    /\ UNCHANGED <<evmChain, lots, sold>>

-----------------------------------------------------------------------------
(* indexEvmListing: one listing's row                                      *)

\* The id comes out of the receipt of any list transaction there ever was.
ListingRead(c) ==
    /\ \E l \in DOMAIN offers :
          /\ offers[l].active
          /\ Begins(c, [Waiting EXCEPT !.do = "listing", !.token = offers[l].token,
                          !.owner = offers[l].seller, !.price = offers[l].price])
    /\ mirror' = Disturbed
    /\ UNCHANGED <<evmChain, cardVars>>

ListingFind(c) ==
    LET h == task[c] IN
    /\ h.do = "listing"
    /\ IF card[h.token].indexed
       THEN task' = [task EXCEPT ![c].do = "listed",
                        ![c].row = NewestOf({n \in RowsOf(h.token, h.owner) : OnShelf(n)})]
       ELSE Returns(c)
    /\ mirror' = Disturbed
    /\ UNCHANGED <<evmChain, cardVars>>

\* By id: whatever has become of the row found.
ListingWrite(c) ==
    LET h == task[c] IN
    /\ h.do = "listed"
    /\ IF h.row = 0 THEN Adds(h.token, h.owner, h.price)
       ELSE lots' = [lots EXCEPT ![h.row].price = h.price]
    /\ Returns(c)
    /\ mirror' = Disturbed
    /\ UNCHANGED <<evmChain, card, sold>>

-----------------------------------------------------------------------------
(* settle                                                                  *)

\* The hash must be of a transaction that succeeded, whichever it is.
EvmSettleRead(c) ==
    /\ \E t \in Nfts : \E p \in ReadAsset(t) :
          /\ Answered(p)
          /\ Begins(c, [Waiting EXCEPT !.do = "settle", !.token = t, !.owner = p])
    /\ mirror' = Disturbed
    /\ UNCHANGED <<evmChain, cardVars>>

\* Without a row there is nothing to sell: the token was given away.
Sells(n, t, p) ==
    IF n = 0 THEN UNCHANGED <<lots, sold>>
    ELSE /\ lots' = [lots EXCEPT ![n].status = "SOLD"]
         /\ sold' = sold \cup {[row |-> n, token |-> t, buyer |-> p, price |-> lots[n].price]}

\* The newest active row is sold when the token is not with whom the rows had.
EvmSettleWrite(c) ==
    LET h == task[c]
        shelf == {m \in DOMAIN lots : lots[m].token = h.token /\ OnShelf(m)} IN
    /\ h.do = "settle"
    /\ IF card[h.token].indexed /\ card[h.token].owner # h.owner
       THEN /\ card' = [card EXCEPT ![h.token].owner = h.owner]
            /\ Sells(NewestOf(shelf), h.token, h.owner)
       ELSE UNCHANGED cardVars
    /\ Returns(c)
    /\ mirror' = Disturbed
    /\ UNCHANGED evmChain

-----------------------------------------------------------------------------
(* indexEvmListings: the newest listings, each against the rows            *)

Listed(l) == [id |-> l, token |-> offers[l].token, seller |-> offers[l].seller,
              price |-> offers[l].price, active |-> offers[l].active]

\* A count that cannot be read is taken for none: there is nothing to mirror.
\* While a sync reads, row is the next id to ask for, and 0 afterwards.
SyncBegin(c) ==
    /\ \E total \in {Len(offers), 0} :
          Begins(c, [Waiting EXCEPT !.do = "sync", !.row = total])
    /\ mirror' = IF \A d \in Callers : task[d] = Waiting THEN [is |-> "runs", of |-> {}] ELSE Disturbed
    /\ UNCHANGED <<evmChain, cardVars>>

\* Newest first, one call each; a listing that cannot be read is passed over, and
\* does not count towards the window.
SyncReads(c) ==
    LET h == task[c] IN
    /\ h.do = "sync"
    /\ h.row # 0
    /\ \/ /\ task' = [task EXCEPT ![c].seen = Append(h.seen, Listed(h.row)),
                                  ![c].row = IF Len(h.seen) + 1 = Window THEN 0 ELSE h.row - 1]
          /\ mirror' = IF mirror.is = "runs" THEN [is |-> "runs", of |-> mirror.of \cup {h.row}] ELSE Disturbed
       \/ /\ task' = [task EXCEPT ![c].row = h.row - 1]
          /\ UNCHANGED mirror
    /\ UNCHANGED <<evmChain, cardVars>>

\* It has read, and this listing is the next to be compared with the rows.
Compares(h) == h.do = "sync" /\ h.row = 0 /\ h.seen # <<>>

\* The newest row of the token and the seller, whatever its status.
SyncSeek(c) ==
    LET h == task[c] IN
    /\ Compares(h)
    /\ card[Head(h.seen).token].indexed
    /\ LET n == NewestOf(RowsOf(Head(h.seen).token, Head(h.seen).seller)) IN
       task' = [task EXCEPT ![c].do = "syncing", ![c].row = n,
                            ![c].ok = n # 0 /\ OnShelf(n)]
    /\ UNCHANGED <<evmChain, cardVars, mirror>>

SyncSkip(c) ==
    LET h == task[c] IN
    /\ Compares(h)
    /\ ~card[Head(h.seen).token].indexed
    /\ task' = [task EXCEPT ![c].seen = Tail(@)]
    /\ UNCHANGED <<evmChain, cardVars, mirror>>

\* A listing the chain has closed is only passed over.
SyncOpens(n, wasActive, l) ==
    IF ~l.active THEN UNCHANGED lots
    ELSE IF wasActive THEN lots' = [lots EXCEPT ![n].price = l.price]
    ELSE Adds(l.token, l.seller, l.price)

\* The status the row had when it was read decides.
SyncStep(n, wasActive, l) ==
    IF l.active
    THEN IF wasActive THEN lots' = [lots EXCEPT ![n].price = l.price]
         ELSE Adds(l.token, l.seller, l.price)
    ELSE IF wasActive THEN lots' = [lots EXCEPT ![n].status = "CANCELLED"]
         ELSE UNCHANGED lots

SyncSaves(c) ==
    LET h == task[c] IN
    /\ h.do = "syncing"
    /\ SyncStep(h.row, h.ok, Head(h.seen))
    /\ task' = [task EXCEPT ![c].do = "sync", ![c].seen = Tail(@),
                            ![c].row = 0, ![c].ok = FALSE]
    /\ UNCHANGED <<evmChain, card, sold, mirror>>

SyncEnds(c) ==
    /\ task[c].do = "sync" /\ task[c].row = 0
    /\ task[c].seen = <<>>
    /\ Returns(c)
    /\ mirror' = IF mirror.is = "runs" THEN [is |-> "done", of |-> mirror.of] ELSE Disturbed
    /\ UNCHANGED <<evmChain, cardVars>>

-----------------------------------------------------------------------------
(* Moderation                                                              *)

SetHidden(t, hidden) ==
    /\ card[t].indexed /\ card[t].hidden # hidden
    /\ card' = [card EXCEPT ![t].hidden = hidden]
    /\ mirror' = Disturbed
    /\ UNCHANGED <<evmChain, lots, sold, task>>

\* resolveNftMetadata on any row; resolveMissingMetadata runs it down the rows
\* whose image is not known to load.  Its reads decide nothing that may change
\* before it writes: an image that loads puts the asset back on the shelf.
Resolve(t, ok) ==
    /\ card[t].indexed
    /\ card' = [card EXCEPT ![t].hidden = ~ok /\ @]
    /\ mirror' = Disturbed
    /\ UNCHANGED <<evmChain, lots, sold, task>>

-----------------------------------------------------------------------------

\* An evicted invocation, or a read or a write that failed.
Dies(c) ==
    /\ task[c] # Waiting
    /\ Returns(c)
    /\ mirror' = Disturbed
    /\ UNCHANGED <<evmChain, cardVars>>

\* The two queries of the storefront: listNfts as the grid asks it, and
\* listListings.
Grid == {t \in Nfts : /\ card[t].indexed /\ ~card[t].hidden
                        /\ \E n \in DOMAIN lots : lots[n].token = t /\ OnShelf(n)}

\* As listListings was before it looked at hidden.
WholeFeed == {n \in DOMAIN lots : OnShelf(n)}

Feed == {n \in DOMAIN lots : OnShelf(n) /\ ~card[lots[n].token].hidden}

CatalogueNext ==
    \/ EvmMoves
    \/ \E t \in Nfts, b \in BOOLEAN : SetHidden(t, b) \/ Resolve(t, b)
    \/ \E c \in Reporters :
          \/ TokenRead(c) \/ TokenWrite(c)
          \/ ListingRead(c) \/ ListingFind(c) \/ ListingWrite(c)
          \/ EvmSettleRead(c) \/ EvmSettleWrite(c)
    \/ \E c \in Operators :
          \/ SyncBegin(c) \/ SyncReads(c)
          \/ SyncSeek(c) \/ SyncSkip(c) \/ SyncSaves(c) \/ SyncEnds(c)
    \/ \E c \in Callers : Dies(c)

CatalogueSpec == CatalogueInit /\ [][CatalogueNext]_catalogueVars

-----------------------------------------------------------------------------
(* What the handlers may rely on between a read and a write.               *)

Listings == [id : Nat, token : Nfts, seller : People, price : Wei, active : BOOLEAN]
Offers == [token : Nfts, seller : People, price : Wei, active : BOOLEAN]
Cards == [indexed : BOOLEAN, owner : People \cup {Nobody}, hidden : BOOLEAN]
Lots == [token : Nfts, seller : People, price : Wei, status : {"ACTIVE", "SOLD", "CANCELLED"}]
Sales == [row : Nat, token : Nfts, buyer : People, price : Wei]
Doings == {"nothing", "token", "listing", "listed", "settle", "sync", "syncing"}
Tasks ==
    [do : Doings, token : Nfts \cup {Nobody}, owner : People \cup {Nobody},
     price : Wei \cup {Nobody}, row : Nat, ok : BOOLEAN, seen : Seq(Listings)]

\* Every row and variable holds what its columns can hold.
CatalogueTypeOK ==
    /\ holder \in [Nfts -> People \cup {Nobody}]
    /\ offers \in Seq(Offers)
    /\ card \in [Nfts -> Cards]
    /\ lots \in Seq(Lots)
    /\ sold \subseteq Sales
    /\ task \in [Callers -> Tasks]
    /\ held \subseteq Nfts \X People
    /\ asked \subseteq Nfts \X People \X Wei

Terms(x) == <<x.token, x.seller, x.price>>

\* The histories hold what the chain shows, and no more: who asked has an offer.
HistoryInv ==
    /\ \A t \in Nfts : holder[t] # Nobody => <<t, holder[t]>> \in held
    /\ \A l \in DOMAIN offers : Terms(offers[l]) \in asked
    /\ \A x \in asked : \E l \in DOMAIN offers :
          offers[l].token = x[1] /\ offers[l].seller = x[2]

\* What a handler read was true when it read it, and the row it found belongs
\* to that token and seller still.
ReadTruly(c) ==
    LET h == task[c] IN
    /\ h.do \in {"token", "settle"} => <<h.token, h.owner>> \in held
    /\ h.do \in {"listing", "listed"} => <<h.token, h.owner, h.price>> \in asked
    /\ h.do = "listed" /\ h.row # 0 => h.row \in RowsOf(h.token, h.owner)
    /\ \A k \in DOMAIN h.seen : Terms(h.seen[k]) \in asked
    /\ h.do = "sync" => 1..h.row \subseteq DOMAIN offers
    /\ h.do = "syncing" => h.seen # <<>>
    /\ h.do = "syncing" /\ h.row # 0 => h.row \in RowsOf(Head(h.seen).token, Head(h.seen).seller)
    /\ h.do = "syncing" /\ h.ok => h.row # 0

TaskInv == \A c \in Callers : ReadTruly(c)

SoldInv == \A s \in sold : s.row \in DOMAIN lots

-----------------------------------------------------------------------------
(* Properties                                                              *)

\* The rows follow the chain, with nodes failing in the middle and reports out
\* of order: nobody is shown as an owner, or recorded as a buyer, who never had
\* the token; and a price on the shelf or in a sale is one that row's seller
\* has asked for that token on chain, however stale, and never another
\* seller's, although a row is found, written and repriced in different steps
\* of different requests.
RowsFollowChain ==
    /\ \A t \in Nfts : card[t].indexed => <<t, card[t].owner>> \in held
    /\ \A n \in DOMAIN lots :
          <<lots[n].token, lots[n].seller, lots[n].price>> \in asked
    /\ \A s \in sold :
          /\ <<s.token, s.buyer>> \in held
          /\ <<s.token, lots[s.row].seller, s.price>> \in asked

\* A hidden token is off the grid and off the feed, and comes back only when
\* an operator shows it again or its image loads: never because somebody
\* indexed it once more, listed it or settled it.
KillSwitchHolds ==
    [][\A t \in Nfts :
          (card[t].hidden /\ (t \in Grid' \/ t \in {lots[n].token : n \in Feed}'))
             => (SetHidden(t, FALSE) \/ Resolve(t, TRUE))]_catalogueVars

Alive == {l \in DOMAIN offers : offers[l].active}

\* What a sync can be held to: the offer's token has a row, its seller has not
\* offered that token twice, and has no two rows for it.
Tellable(l) ==
    /\ card[offers[l].token].indexed
    /\ \A k \in DOMAIN offers :
          (offers[k].token = offers[l].token /\ offers[k].seller = offers[l].seller) => k = l
    /\ \A n, m \in RowsOf(offers[l].token, offers[l].seller) : n = m

\* The shelf is the contract's listings, at their prices.
Mirrored ==
    {<<lots[n].token, lots[n].seller, lots[n].price>> : n \in {m \in DOMAIN lots : OnShelf(m)}}
      = {<<offers[l].token, offers[l].seller, offers[l].price>> : l \in Alive}

\* The offer's row is on the shelf at its price, or off it.
Shown(l) ==
    LET rows == {n \in RowsOf(offers[l].token, offers[l].seller) : OnShelf(n)} IN
    IF offers[l].active THEN \E n \in rows : lots[n].price = offers[l].price
    ELSE rows = {}

\* A sync that runs alone has healed what it has read, or has it still before it.
Passing(c) ==
    LET h == task[c] IN
    /\ h.do \in {"sync", "syncing"}
    /\ mirror.of \subseteq DOMAIN offers
    /\ \A k \in DOMAIN h.seen : h.seen[k].id \in DOMAIN offers /\ h.seen[k] = Listed(h.seen[k].id)
    /\ \A l \in mirror.of : Tellable(l) => Shown(l) \/ \E k \in DOMAIN h.seen : h.seen[k].id = l
    /\ h.do = "syncing" =>
          /\ h.row = NewestOf(RowsOf(Head(h.seen).token, Head(h.seen).seller))
          /\ h.ok = (h.row # 0 /\ OnShelf(h.row))

SyncInv ==
    \/ mirror.is = "no"
    \/ mirror.is = "done" /\ (\A c \in Callers : task[c] = Waiting)
         /\ mirror.of \subseteq DOMAIN offers
         /\ (\A l \in mirror.of : Tellable(l) => Shown(l))
    \/ mirror.is = "runs" /\ \E c \in Operators :
          /\ \A d \in Callers \ {c} : task[d] = Waiting
          /\ Passing(c)

\* The listing sync heals what it reads: after one that ran undisturbed, the row
\* of each offer whose call was answered is on the shelf at its price if the offer
\* stands and off the shelf if not, whatever the rows were before; so when every
\* call was answered the shelf is the contract's listings.  A call that fails
\* leaves its offer's row as it was, although the sync reports success.
SyncHeals ==
    mirror.is = "done" =>
       /\ \A l \in mirror.of : Tellable(l) => Shown(l)
       /\ (mirror.of = DOMAIN offers /\ \A l \in DOMAIN offers : Tellable(l)) => Mirrored

=============================================================================

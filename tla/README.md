# TLA+ models of Kumule

Kumule sells and trades NFTs on several chains. A Cloudflare Worker
(`src/workerbackend`) takes card payments through Stripe, mints on Solana from a
platform wallet, keeps rows about NFTs, listings and sales in Postgres, and
answers a React frontend. Two on-chain programs hold assets and money: an Anchor
escrow (`src/programs/nftmarketplace`) and an EVM market
(`src/contracts-evm`). This directory holds TLA+ models of that code, the TLC
configurations that check them and the proofs TLAPS checks.

## Inventory

| Component | State it keeps | Operations | What makes it hard |
|---|---|---|---|
| Pay-then-mint order (`payments.ts`, `mintjob.ts`, `stripe.ts`) | `Payment` and `MintJob` rows, Stripe's intent and refund, the asset on chain | `createIntent`, `stripeWebhook`, `runMintJob`, `refundJob`, `adminRefundPayment`, `scheduled` | crash at any statement, repeated and reordered events, leases, lost transactions, two mints at once, refunds racing mints |
| Mint sweep across orders (`mintjob.ts:653-793`) | none of its own | `sweepMintJobs`, `backfillMintCosts` | a window over a table that failures go back to, wall-clock and subrequest budgets |
| Kumele mint API (`kumeleMint.ts`) | the same rows with origin `KUMELE_API`, `callbackSentAt`, `callbackAttempts` | `mintFromKumele`, `sendMintCallbacks` | concurrent first calls, outcomes that change after they were reported |
| Fee quotes (`web3fees.ts`, `fx.ts`) | `FeeQuote` rows, the rate an isolate remembers | quote, `pruneAbandonedQuotes`, the pricing of `createIntent` | integer rounding, a rate handed from isolate to isolate, a quote spent on another asset |
| Escrow program (`lib.rs`) | one escrow account per listing, the asset's owner | `create_escrow`, `deposit_asset`, `buy_asset`, `cancel_escrow`, `close_escrow`, `admin_resolve` | instructions in any order from anyone |
| Listings (`escrow.ts`) | `Listing`, `Nft.ownerAddress`, `Sale` | `listNft`, `syncListing`, `buyNft`, `cancelListing`, `adminResolveEscrow` | rows that mirror a chain the wallet changes on its own |
| Settlement (`settle.ts`, `evm.ts`) | `Sale`, `Transaction`, listing status | `settle`, `indexEvmToken`, `indexEvmListing` | several writes that may stop half way, replays |
| EVM market (`KumuleMarket.sol`) | listings, fee basis points, accrued fees | `list`, `updatePrice`, `cancel`, `buy`, `withdrawFees`, `setFeeBps` | tokens that move outside the market, fee changes between list and buy |
| Medals (`medals.ts`) | `EventMedal`, `MedalClaim`, the vault's assets | `mintMedals`, `claimMedal`, points | transactions recorded before they land, concurrent claims of one asset |
| Wallet mint, burn, transfer (`mint.ts`, `burn.ts`, `transfer.ts`) | `Nft`, `Transaction` | build a transaction, confirm it | rows written before the chain agrees, a fee read from balances |
| Audit (`audit.ts`) | a checksum on every `Transaction` | write, verify | what is hashed is not what was passed |
| Catalogue and admin (`nfts.ts`, `metadata.ts`, `admin.ts`) | `Nft.hidden`, `imageOk`, `likeCount`; rows of the EVM listings | `toggleLike`, `setNftHidden`, `resolveNftMetadata`, `resolveMissingMetadata`, `indexEvmListings` | bulk repairs over a window, beside reports |
| Albums and uploads (`album.ts`, `upload.ts`) | `Album`, `Track`, R2 objects | create, update, delete, `addTrack`, `deleteTrack`, `replaceR2Object` | counts stored beside rows |
| Pages (`CreatePage.tsx`, `NftDetailPage.tsx`) | what is on the screen, handlers that outlive it | mint; buy, list, cancel, burn | lost answers, polls that answer late, a stale view |
| Routing, OpenAPI, database access | none | `withPrisma`, `runScheduled` | wiring |

How they interact: the webhook and the cron both call `runMintJob` and share the
job row with the operator's refund and, through `refundJob`, with Stripe; the
sweep and `sendMintCallbacks` run one after the other in one cron tick
(`index.ts:349-364`); the Kumele API enters the same job table one status later;
listings, settlement, burn and transfer all write `Nft.ownerAddress` from what
they believe the chain did.

`PROJECT.json` lists the hazards at their lines, and which property covers which.

## Plan

1. **MintRail** (done): the order rail, its abstract ledger `OrderLedger`, proofs.
2. **EscrowProgram** (done): the Anchor program, with proofs.
3. **EvmMarket** (done): `KumuleMarket.sol` with tokens that move outside it,
   with proofs. **AtomicSale** (done) is the abstract market both implement.
4. **Storefront** (done): `syncListing`, `settle`, `confirmBurn` and the
   transactions of `escrow.ts`, `burn.ts` and `transfer.ts`, over one chain.
5. **EvmCatalogue** (done): the same rows on Base, beside the operator's sync and
   moderation.
6. **KumeleMint** (done): the API, the callbacks, and the sweep over several
   orders, with fairness.
7. **MedalVault**, **FeeQuotes**, **WalletMint**, **Library** (done), checked
   together by `MCDesk`.
8. **CreatePage**, **DetailPage**, **Backfill** (done), checked together by
   `MCPages`.

Every invariant and action property that a passing run checks is a theorem; liveness stays
with TLC.

## The modules

| Module | Code | Checked by | Proved in |
|---|---|---|---|
| `OrderLedger` | abstract: what an order promises | refined by `MintRail` | |
| `MintRail`, `MintRailProperties` | `payments.ts`, `mintjob.ts` | `Rail*`, `FindAdminRefund` | `MintRailProofs` |
| `AtomicSale` | abstract: what a market promises | refined by the next two | |
| `EscrowProgram` | `lib.rs` | `Escrow` | `EscrowProofs` |
| `EvmMarket` | `KumuleMarket.sol` | `Market` | `EvmMarketProofs` |
| `Storefront` | `escrow.ts`, `settle.ts`, `burn.ts`, `transfer.ts` | `Shop` | `StorefrontProofs` |
| `EvmCatalogue` | `settle.ts`, `evm.ts`, `admin.ts`, `nfts.ts` | `Catalogue` | `EvmCatalogueProofs` |
| `KumeleMint` | `kumeleMint.ts`, the sweep of `mintjob.ts`, `runScheduled` | `Kumele` | `KumeleProofs` |
| `MedalVault` | `medals.ts` | `Desk` | `DeskProofs` |
| `FeeQuotes` | `web3fees.ts`, `fx.ts`, the pricing of `payments.ts` | `Desk` | `DeskProofs` |
| `WalletMint` | `mint.ts`, `solana.ts`, `audit.ts` | `Desk` | `DeskProofs` |
| `Library` | likes, `album.ts`, `upload.ts`, `replaceR2Object` | `Desk` | `DeskProofs` |
| `CreatePage`, `DetailPage` | the pages of those names, `chains.ts`, `chain-ui.ts` | `Pages` | `PagesProofs` |
| `Backfill` | `resolveMissingMetadata`, `backfillMintCosts` | `Pages` | |

The type invariants of the proved modules are theorems and not in the runs;
`DeskTypeOK` joins those of the desk's four (`DeskTypeCorrect`).

## The order rail

`MintRail` follows one order. Orders share no row, and the one thing they do
share, the sweep's window, is in `KumeleMint`.

| Variable | Code |
|---|---|
| `checkout` | where the `createIntent` invocation is (`payments.ts:145-234`) |
| `payment` | `Payment.status`, and whether `stripePaymentIntentId` is set |
| `job` | `MintJob.status`, `attempts`, `lockedAt` (as `lease`: none, live, expired), `mintAddress`, `txSignature`, `lastError` (as `note`), `updatedAt` (as `waited`: the backoff has run out) |
| `stripe` | the intent, who made the full refund, events emitted and events acknowledged |
| `hook` | each webhook invocation: its next statement and its event |
| `pc`, `ctx` | each `runMintJob` or admin invocation: its next statement and its locals |
| `chain` | transactions in flight, assets that exist, addresses someone has sent lamports to |
| `rows` | the `Nft` row, and the signatures of CONFIRMED `MINT` rows |
| `seed`, `faults` | the deployed `MINT_ASSET_SEED`; faults used so far |

A handler makes one database statement, Stripe call or RPC call per step, so
every interleaving of two handlers between two awaits is a behaviour. Merged are
only the claim with the read that follows it (`mintjob.ts:245-256`) and the
webhook's lookup with its repair (`payments.ts:422-464`). The model keeps each
`where` clause: a guarded `updateMany` becomes IF guard THEN write ELSE
UNCHANGED, and an update by primary key is unguarded (`Finish`,
`RefundWritesJob`), because that is what the code does.

What the environment may do: the buyer pays or is declined; the intent is
canceled; somebody refunds in the dashboard, in full or in part; Stripe delivers
any emitted event at any time, several at once, and again; a transaction lands
or dies; an address is sent lamports; the seed is replaced; an isolate is
evicted between any two statements (`Evict`, `HookDies`, `CheckoutDies`); an
exception is thrown at any statement of the try block (`Throw`); Stripe's or the
RPC's answer is lost after it acted (`CallRefund`, `Send`). `Outside` chooses
which of the first group a run allows.

Two choices need a word. *The buyer pays only after checkout answered*, because
the client secret is in that answer; `orphanPay` lifts this, since the metadata
lookup (`payments.ts:427-464`) exists for a payment whose attach failed. *Two
answers of the code cannot be reached for an order*: the "missing" one
(`payments.ts:482-497`), because the row is committed before the intent exists,
and refundJob's "never charged" one while nothing calls it before an intent is
attached; the second is modelled, the first is a comment.

### Time

Clocks do not appear. `LeaseExpires` and `BackoffElapses` say that enough minutes
have passed. With `Timely = FALSE` they happen whenever: an invocation may
outlive its five-minute lease. With `Timely = TRUE` they wait until no
`runMintJob` invocation is alive and nothing is in flight, which is what the
numbers in the code arrange: a sweep stops after 20 s (`mintjob.ts:742`),
`waitUntil` ends after about 30 s (`payments.ts:499`), a blockhash dies after
about 90 s, the shortest backoff is two minutes and the lease five
(`config.ts:82-86`). `RailRaces` and the theorems do not assume it.
`RailSale` does: without it the code does deliver refunded orders, as
`FindAdminRefund` shows.

### Runs

| Run | Bounds | Shows |
|---|---|---|
| `RailRaces` | one kicked-off worker, one sweep, one admin, one webhook, cap 1, one fault, `Timely = FALSE` | `ChargedFirst`, `MintedIsDelivered`, and the refinement `KeepsOrder`: one charge, at most one refund and one delivery, none before the charge - even when workers outlive leases |
| `RailEvents` | two workers, cap 1, two webhook invocations at once, all Stripe events | `RefundIsReal`, `NotStranded`, `SettledStays` |
| `RailSale` | two workers, cap 3, two faults, two seeds, dust | `OneAsset` and the refinement `KeepsSale`: the buyer has the money or one NFT, never both |
| `RailSettles` | cap 2, two faults, fairness | `PaidIsSettled`, `RefundReachesRow` |
| `FindAdminRefund` | cap 2 | the refund button delivers what it refunded |

Why the bounds are enough: the cap is compared with `attempts` only through
`attempts > MAX_MINT_ATTEMPTS`, so `attempts` saturates one above it, and a cap
of 1 to 3 already has the first try, a retry, the last try and the exhausted
one. A third worker adds no statement two do not interleave with. `MaxFaults`
counts evictions, exceptions, lost answers and repeats of acknowledged events
together; each kind happens at each statement in some behaviour of each run.

`CHECK_DEADLOCK FALSE` because an order ends: a settled or abandoned one has no
step left.

### Fairness

`FairSpec` assumes what the deployment provides: Stripe redelivers an event
until it is acknowledged; the cron fires every five minutes for ever
(`wrangler.jsonc:52-56`), so a due job is picked up and time passes; an
invocation that is not evicted takes its next statement; a transaction lands or
dies. Nothing is assumed of buyers, operators or the checkout. Faults are finite
in a behaviour, since `MaxFaults` bounds them: with an isolate evicted at every
attempt nothing would ever be settled.

`PaidIsSettled` excludes a refund made in the dashboard after minting began: when
that job later reaches the cap, `refundJob` asks Stripe for a refund Stripe
refuses, and writes PENDING again, every tick (`mintjob.ts:617`).
`RefundReachesRow` is checked without `orphanPay`: a `charge.refunded` that
arrives before any succeeded event attached the intent finds no row and is
acknowledged (`payments.ts:564`).

### Proofs

`MintRailProofs` proves, for any finite or infinite sets of workers, sweepers,
admins, hooks and seeds, any cap and any number of faults, and, but for the last
two, with or without `Timely`:

| Theorem | Statement |
|---|---|
| `TypeCorrect` | `Spec => []TypeOK` |
| `NeverUnpaid` | `Spec => []ChargedFirst` |
| `RefundsAreReal` | `Spec => []RefundIsReal` |
| `MintedMeansDelivered` | `Spec => []MintedIsDelivered` |
| `SettledPaymentStays` | `Spec => SettledStays` |
| `ImplementsOrder` | `Spec => KeepsOrder` |
| `NeverStranded` | `Spec => []NotStranded` |
| `MintsOneAsset` | `ASSUME Undisturbed PROVE Spec => []OneAsset` |
| `ImplementsSale` | `ASSUME Roomy PROVE Spec => KeepsSale` |

The first six rest on one inductive invariant, `RailInv`, the conjunction of `TypeOK`,
`CtxInv`, `MoneyInv` and `GoodsInv`. `ChargedFirst` alone is not inductive: a
`Send` step knows nothing of Stripe. `MoneyInv` carries the charge along the
path it takes - the succeeded event exists only for a captured intent, a webhook
invocation holds only events that exist, a job leaves its unpaid statuses only
through that webhook, and an invocation runs only on such a job. `CtxInv` says
what a worker's locals hold at each statement, `GoodsInv` that rows are written
only for an asset that was seen. Each is shown to be preserved by every action,
one lemma per group of actions; `ImplementsOrder` then maps each step to a
ledger step or to a stutter. The only assumption is `RailAssumption`, which TLC
evaluates in every run.

`NeverStranded` needs `PaperInv`: once an event, a settled payment or an
invocation exists, the row holds its intent id, so no event is turned away; and a
job is FAILED only with an intent that was canceled, which is never captured.

`Undisturbed` is `Timely` without operators. Both halves are needed. An invocation
that outlives its lease sends for one address while its successor, after the seed
was rotated, sends for another; and a refund pressed just before a worker claims
the job, and failed at Stripe, writes PENDING under that worker (`mintjob.ts:613-625`),
with the same end - TLC shows either on `RailSale`, with one admin or without
`Timely`. `HolderInv` says that one worker at a time
holds the job, under the lease it claimed, until the cap is passed, and that those
who come later know they are too late. From it `AddressInv`: every transaction
ever sent names the address the row stores, and so will the next. Two seeds, dust
at either address and any number of attempts are in that statement; that the
address is stored before anything is signed (`mintjob.ts:327-361`) is what carries
it over a rotation.

`Roomy` adds what the exclusive ledger takes: one sweep alive at a time, a cap of
two or more, and no refund made by hand in the dashboard. The cron fires every
five minutes and a sweep stops after 20 s (`mintjob.ts:742`), the cap is eight
(`config.ts:64`). With a cap of one, the worker that was kicked off may be sending
while the sweep, called for the same job, claims it as exhausted and refunds it;
with two sweeps the same happens at any cap. `CallersInv` counts who can be about
to claim: after the first claim one worker, after the second none until the
backoff has run out, by when nothing is in flight. `SaleInv` follows: the cap is
passed with nothing in flight, so the refund's look at the chain is final.

Only model-checked:
liveness (TLAPS has no fairness reasoning to speak of) and the violation.

### Findings

`FindAdminRefund` shows a place where a comment promises what the code does not
do; `PROJECT.json` quotes it. Three more of the same root - after the claim,
`runMintJob`, `refundJob` and the webhook write rows whose owner they do not
check - are behaviours of the model, and no property that rules them out holds:

- A worker that outlived its lease moves the row its successor holds: `fail` asks
  for status MINTING and not for its own claim (`mintjob.ts:304`), the final
  update for nothing (`:544`), although `:298-299` says "Only the worker still
  holding the lease may move the row."
- A full refund handled while an attempt runs does not stop the next attempt: the
  claim never reads `payment.status` (`mintjob.ts:245-251`), although
  `payments.ts:553-554` calls failing to stop a mint "the worse mistake".
- The flag a late refund leaves in `lastError` (`payments.ts:588-595`) is cleared
  by the write that finishes the mint (`mintjob.ts:555`).

## The markets

`AtomicSale` says what a market promises. An asset has a holder, a holder has
money, and asks stand; an asset moves because its holder gives it away, or in one
step with its price, by an ask that stands, in the name of its present holder,
to a buyer the ask allows, and the market keeps at most `FeeCap` / 10,000. When
the market is custodial, what is on offer cannot be given away. `EscrowProgram`
implements it with `Custodial = TRUE` and no fee, `EvmMarket` with
`Custodial = FALSE` and a tenth.

### The escrow program

| Variable | Code |
|---|---|
| `escrow` | for each asset and seller, the account at the address derived from `["escrow", asset, seller]` (`lib.rs:344-350`): status, price, buyer; "none" when there is no account |
| `owner` | the asset's owner in MPL Core: a wallet, the address of a seller's escrow, or nobody once burned |
| `lamports` | balances of wallets |

One action per instruction, with its `require!`s and its account constraints as
guards. A Solana transaction is atomic, so an instruction that fails at its last
call has done nothing: `buy_asset` pays first and compares the buyer afterwards,
and the model has both as guards of one step. Sellers are signers, so
`CancelEscrow(a, s)` is a step of `s`; anybody may create an escrow for any
asset, because `create_escrow` does not look at who owns it. Outside the program
a wallet may transfer or burn what it owns, and may send an asset to an escrow
address directly, where it is lost. Rent and transaction fees are left out.
`admin_resolve` requires status Disputed, which nothing writes, so no behaviour
has it.

### The EVM market

| Variable | Code |
|---|---|
| `listings`, `activeListingOf`, `nextListingId`, `feeBps`, `treasury` | the storage of the same names (`KumuleMarket.sol:28-40`) |
| `owner`, `approvedAll`, `approved` | `ownerOf`, `isApprovedForAll(_, market)`, `getApproved = market` of one ERC-721 |
| `wei` | balances, `House` being the contract's own |
| `sale` | the buy under way: who is owed how much; this is also the re-entrancy lock |

`buy` hands control to the buyer's `onERC721Received` and then to the seller's
`receive`. It is two steps: `Buy` up to and including the transfer of the token,
`PayOut` from the payment on; any other call that does not need the lock may come
between. The model allows any account to make it, which is more than hooks can
do. A hook of the seller runs after its payment and finds what a later
transaction would. A transaction that reverts is no step, so the prefix of a
`buy` that reverts in a hook is a state of the model that only its own hooks saw.
The refinement counts a sale as made at `Buy`: what is still owed is the
seller's. Overflow of `price * feeBps`, forced transfers of ether and upgrades
are left out.

### Runs

| Run | Bounds | Shows |
|---|---|---|
| `Escrow` | three wallets, one asset, prices 1 and 2, two lamports each | `Custody`, `NeverStranded`, and the refinement `SellsAtomically` |
| `Market` | three accounts, one token, two listing ids, prices 0 (refused), 9 and 20, fees 0, 10 % and 10.01 % (refused), 20 wei each | `OneListing`, `CanPayOut`, and the refinement `MarketSellsAtomically` |

Three wallets are a seller, a buyer and a stranger: a named buyer and somebody
else, or a seller, the next holder and whoever prunes. Escrows of different
assets, and listings of different tokens, share balances and nothing else, so one
asset suffices; the theorems cover the rest. A fee of 10 % on 9 and 20 wei is 0
and 2, so rounding happens. Balances bound how much can be bought. `Escrow`
declares wallets symmetric: no definition names one. `CHECK_DEADLOCK FALSE`
because a burned asset ends everything.

A listing whose seller gave the token away comes back to life, at its old price,
when the token returns (`KumuleMarket.sol:149`), although `:125-127` says of it
that "it can never be filled". It is the seller's own approval and the seller's
own token, so every property above holds of that sale.

### Proofs

`EscrowProofs` and `EvmMarketProofs` prove every property of the two runs, and
the type invariants `ProgramTypeOK` and `MarketTypeOK`, for any
sets of wallets, assets, prices and listing ids, from `EscrowAssumption` and
`MarketAssumption` alone.

The escrow's invariant is `ProgramTypeOK`, `Custody`, and that an open account's
price was asked by somebody (`Priced`), without which an ask could have a price
nobody named. `Custody` gives the refinement its one difficult case: that an
asset a wallet can give away is not on offer.

The market's invariant adds to the run's that an id not given out yet names no
live listing (`FreshIds`); otherwise `List` could overwrite one. `OneListing`
makes the set of offers follow the listings one for one (`OffersApart`), and
`CanPayOut`, with the lock, makes the ledger of the refinement the contract's
balance when no sale is under way (`LedgerUnlocked`). The fee's arithmetic is
`FeeBounds`.

## The storefront

`Storefront` is the marketplace's record of the Solana market: what the rows say,
and how three handlers make them follow a chain that wallets move on their own.

| Variable | Code |
|---|---|
| `owner` | the asset on chain: in a wallet, or in a seller's escrow with what it asks. The transactions `listNft` builds close, create and deposit at once, so an escrow that exists and is not empty is on sale; `EscrowProofs!KeepsCustody` is why one field can say both |
| `bought` | purchases on chain; the place of one stands for its hash |
| `listed` | who has ever had the asset in escrow, hence may report a listing or a cancellation |
| `nft`, `listing`, `sale`, `purchase`, `burnt` | rows of `nfts`, `listings`, `sales`, and of `transactions` by kind; a row's place is its id and its age |
| `work` | for each request under way, its next statement and what it has read |

`withPrisma` (`db.ts:11-21`) opens a client and no transaction, so every statement
commits alone and is a step of its own. `SyncRead` is `syncListing` up to the
read of the escrow account; `SyncOwner`, `SyncFind`, `SyncWrite` its statements.
`SettleRead` is `settle` up to the comparison of the owner with the buyer; six
steps follow. `BurnRead`, `BurnRecord`, `BurnDelete` are `confirmBurn`. A
statement that throws - a row deleted meanwhile, a unique key taken - ends the
request, as does `Fail`, a lost connection or an evicted isolate, before any
statement. An answer lost on its way back needs no step: a client may call again
whatever it was told.

Two abstractions matter. Clients report what they did, a sync of their own escrow
and a settle of their own purchase, as the pages do
(`NftDetailPage.tsx:255`, `:337`, `:375`, `:405`); the API accepts more, and
nothing is claimed about that. A request verifies a signature before it reads the
chain, and a node that lags is a request whose read came earlier.

| Run | Bounds | Shows |
|---|---|---|
| `Shop` | one asset; a seller and a buyer who may give it back; two requests at a time; two purchases, two listing rows, one purchase opened in advance | `SoldOnce`, `OwnedByPerson`, `GoneIsBurned`, `ClosedStaysClosed` |

Handlers touch the rows of one asset only, except for the pending purchase that
`SettlePending` picks by buyer, so one asset is enough for these properties. Two
purchases and two rows are what selling a listing twice, or reopening one, takes.
There is one price, since no property of the run compares two. A request that
finds no room for a third row waits until it fails. `CHECK_DEADLOCK FALSE`
because the model stops once the asset is burned and its row gone.

What the rows do *not* promise is as much a result. All of these are behaviours
of the model:

- A settle that fails between the owner and the sale loses the sale: a retry finds
  the owner unchanged, although `settle.ts:238-240` calls settle idempotent and
  the client "free to retry".
- A sync that read the escrow before a sale and writes after it advertises a sold
  asset, with the seller as its owner.
- A sync that reads it after a sale, before the settle, cancels the listing, and
  the settle then finds nothing to sell.
- Two syncs at once create two ACTIVE listings; a cancel closes one.
- A sold row may become CANCELLED, a cancelled one SOLD: updates are by id.
- A `confirmBurn` whose delete failed can never be repeated, because its first
  statement has taken the hash.

### Proofs of the storefront

`StorefrontProofs` proves the four properties of the run for any sets of people,
assets and requests, any prices and any bounds (`ShopAssumption`):

| Theorem | Statement |
|---|---|
| `ShopTyped` | `ShopSpec => [](ShopTypeOK /\ WorkInv)` |
| `SellsOnce` | `ShopSpec => []SoldOnce` |
| `OwnersArePeople` | `ShopSpec => []OwnedByPerson` |
| `GoneMeansBurned` | `ShopSpec => []GoneIsBurned` |
| `ListingsStayClosed` | `ShopSpec => ClosedStaysClosed` |

`WorkInv` says what a request holds between two of its statements whatever the
others wrote meanwhile: a person's address and never the escrow's, a row of its own
asset that is there or was, a burn only of an asset the chain no longer has. Rows
are updated by id and never move, so what one handler does to the tables leaves
every other's part of `WorkInv` alone as long as the listings only grow
(`ListingsGrow`); `OthersSound` is that argument, made once. `SellsOnce` then rests on the two unique keys
(`schema.prisma`) as `SettleSale` meets them, not on what a settle had read;
`GoneMeansBurned` on the order of `confirmBurn`'s statements and on the foreign
keys that make a late write to a deleted row fail; `ListingsStayClosed` on
`syncListing` repricing a row without touching its status, whatever became of the
row since it was found, and creating a new one where it finds none.

## The catalogue on Base

`EvmCatalogue` is the side of the marketplace that wallets do not ask the worker
about: they mint, list and buy on the contracts, and rows follow when somebody
reports a hash or an operator runs an indexer.

| Variable | Code |
|---|---|
| `holder`, `offers` | `ownerOf`, and the market's listings; the place of one is its id |
| `card` | the `nfts` row: whether there is one, `ownerAddress`, `hidden` |
| `lots`, `sold` | rows of `listings` and `sales`, oldest first |
| `task` | for each request, its next statement and what it has read |
| `held`, `asked`, `mirror` | history: owners and asks that have been true on chain; whether a sync is running, or has just run, with nobody else at work, and the ids it has read |

`TokenRead`/`TokenWrite` are `indexEvmToken` and the operator's range of tokens
(`settle.ts:61-149`), `ListingRead`/`ListingFind`/`ListingWrite` are
`indexEvmListing` (`settle.ts:159-233`), `EvmSettleRead`/`EvmSettleWrite` are
`settle`, whose statements `Storefront` takes one by one, and `SyncBegin` to
`SyncEnds` are `indexEvmListings` (`admin.ts:533-623`). The sync first reads the
contract, id by id from the newest (`SyncBegin`, `SyncReads`), while the chain moves:
a `totalListings` that fails counts as none (`evm.ts:166`), a listing that fails is
passed over without counting towards the window (`evm.ts:144-147`, `:173-175`), and
the operator is told of success all the same. Then it compares what it has read with
the rows, one listing after another. A node may answer nothing (`ReadAsset`), and any
request may die between statements. The chain is `EvmMarket`, as far as rows can tell.

| Run | Bounds | Shows |
|---|---|---|
| `Catalogue` | one token, two people, two prices; one report and one operator at a time; two listings on chain, two asks, two rows | `RowsFollowChain`: an owner, a price or a buyer in a row was once true on chain, for that seller. `SyncHeals`: a sync that met nobody has put right the row of every listing whose read was answered, among those it can tell apart (`Tellable`), whichever other reads failed; if all were answered the shelf is the contract's. `KillSwitchHolds`: a hidden token is on no shelf until it is shown again or its image loads |

Rows of different tokens share no statement but the sync's loop, which decides
row by row, so one token is enough; two people are a seller and the next holder,
two listings what a relisting takes. People, and prices, are symmetric.

What the rows do not promise, each a behaviour of the model: a report read before
a sale and written after it leaves an ACTIVE row of a token already sold, and two
reports of one listing leave two rows; a sync may leave a cancelled listing ACTIVE,
and answer success, when the node did not answer for it; a sync may turn a SOLD row CANCELLED; a plain transfer of a listed token, once
reported to `settle`, is recorded as a sale (`settle.ts:9-11`); an operator's
`resolve` shows a token an operator has hidden (`admin.ts:396`, `:456`), which is
why `KillSwitchHolds` excepts it.

One of them is the opposite of what the code says of itself. `admin.ts:546-549` calls
the sync "idempotent and self-healing", an active listing on chain becoming an ACTIVE
row. A seller who cancels and lists the same token again has two listings on the
contract and, for the sync, one row: the newest of token and seller. Newest first, it
creates or keeps the ACTIVE row for the live listing, then reaches the closed one,
finds that row and cancels it (`admin.ts:573-607`). Every sync that reads both ends
with the live offer off the shelf. `Tellable` leaves such a seller out of `SyncHeals`,
which is false with them in; the behaviour itself is in the model.

### Proofs of the catalogue

`EvmCatalogueProofs` proves all three properties for any tokens, people, requests,
prices, window and bounds (`CatalogueAssumption`), and `CatalogueTyped`, the types
with `HistoryInv` and `TaskInv`.

`RowsAreTrue` (`RowsFollowChain`): what a handler read was true when it read it and
histories only grow, so it is still in them when the handler writes. The difficult
part is a row found in one statement and written in another: `ReadTruly` says it
still belongs to that token and seller, because rows are never moved nor given to
another seller; `StillTrue` is the lemma that others' steps keep it so.

`SyncMirrors` (`SyncHeals`) is a loop invariant, `SyncInv`, over the one loop of the
code that repairs, and holds for any window and any reads that fail: each listing a
sync has read while alone is still before it, as the chain has it, or is `Shown` - on
the shelf at its price if it stands, off it if not (`Passing`). That a write for one
listing does not undo what was done for another is `ShownStill` and `SaveTouches`;
`Tellable` enters there, because a row is found by token and seller. When all were
read, `AllShownIsMirrored` turns listing by listing into the whole shelf.

`HiddenStaysHidden` (`KillSwitchHolds`) goes over every writer of a card or a row,
since any of them might bring a hidden token back.

## Kumele's orders and the cron

`KumeleMint` has several jobs where `MintRail` has one, and reduces an attempt to
how it ends: minted, blocked, or to be tried again.

| Variable | Code |
|---|---|
| `job` | the `mint_jobs` row: `status`, `attempts`, `lockedAt` (`locked`), `callbackSentAt` (`told`), `callbackAttempts` (`calls`) |
| `created`, `touched` | jobs in the order of `createdAt` and of `updatedAt`, which the queries sort by |
| `rest` | ticks until the backoff has run out |
| `running`, `cron` | workers inside a job; the scheduled invocation: its sweep's list, then its letters |
| `news` | outcomes that have reached Kumele, by callback or in the answer to a repeated request |

`Accept` and `Replay` are `mintFromKumele`; `Kick` the attempt it starts.
`CronWakes`, `SweepTakes`, `SweepGoesOn` are `sweepMintJobs`, and
`CallbacksBegin`, `CallbackPosts`, `CallbackRecords` are `sendMintCallbacks`,
which `runScheduled` calls afterwards (`index.ts:349-364`). Rows are read once and
posted as they were read. A callback may be lost, or arrive and its answer be
lost. Kumele's money is on its own Stripe account, so `refundJob` is refused and
leaves PENDING: past the attempt cap such a job is retried for ever.

| Run | Bounds | Shows |
|---|---|---|
| `Kumele` | two jobs, a sweep of one job out of two candidates, one letter a round, two posts a letter, one eviction, one refund pressed, a backoff of one tick and then two | `ToldTruth`, `NobodyStarves`, `NewsArrives` |

A batch of one and a window of two are the smallest in which a resting job can
stand in front of one that is due, which is what over-fetching is for
(`mintjob.ts:748`); the run's mutant fetches exactly the batch, and starves. Two
jobs never exceed the window. With more jobs that never succeed than the window of
thirty holds, the code does starve newer ones, since candidates are the oldest by
`createdAt`; `NobodyStarves` therefore is about at most `Fetch` jobs.

Fairness: Cloudflare fires the schedule and lets what it started go on (one weak
fairness over the cron's steps), an attempt ends within its polls, a lease runs
out. Nothing is assumed of Kumele, of operators or of `waitUntil`.

Behaviours to know of: an exhausted job of Kumele's stays PENDING and Kumele is
never told; a failed callback is retried every tick, without the backoff of
`docs/kumele-mint-service.md:195`; a refund an operator presses on a BLOCKED job
that was already reported reopens it, which `ToldTruth` excepts.

### Proof about Kumele's orders

`KumeleProofs` proves `NewsIsTrue` (`ToldTruth`) for any jobs, windows, batches,
delays, evictions and refunds. An outcome is read in one statement, posted in
another and recorded in a third, and may be repeated; so `KumeleInv` is about
everything said (`Said`): what has arrived and what is still in the round's mail. It
stays true because nothing claims a job that has ended (`ClaimSound`), and an attempt
that could end one is at a job that is MINTING and locked: a lease that runs out
takes the worker with it. An operator's refund is the one thing that can reopen a
job, and those jobs are excepted (`revived`).

The queries' `where` is `Sift`, a recursive function over a prefix; that it returns
a sequence of what it let through (`SiftKeeps`) is an induction, done as a least
counterexample (`LeastExists`), since the library's induction theorem cannot be
applied here. `NobodyStarves` and `NewsArrives` are liveness and stay with TLC.

## The desk: medals, quotes, wallet mints, library

Four modules without shared state, explored one at a time by `MCDesk`.

**MedalVault.** `event`, `medal`, `points`, `claim`, `nft`, `ledger` are the rows of
`medals.ts`; `owner` and `sent` the chain and the vault's transactions; `work` a
request's next statement. A handler sends, polls twelve seconds and writes
(`sendWithBoundedConfirm`, `medals.ts:122-137`); what it sent may land afterwards.
`RowsAreReal`: a row names only an asset on chain, and `claimedCount` never runs
ahead of the claims. `EarnedOnly`: a medal leaves the vault only for a wallet that
has had the points, although grants are read-modify-write and claims check points
that change. `LeavingIsRecorded`: a medal that left has its claim row, a handler
about to write it, or a handler that died. `OfferMatchesGuard`: the page's
button is live exactly when the handler's checks on the rows would pass.

**FeeQuotes.** `memo` and `estimator` are what an isolate remembers, `quotes` and
`pruned` the rows, `orders` the payments that spent one, `heard` the rates a source
has really answered. `FallbackStaysFallback`: the fallback constant is never
remembered or stored as a live rate. `FeeCoversMint`: an order's fee pays for
minting that very asset, at the rate of its quote, through every rounding. The
magnitudes are small; ceilings, floors and the order of operations are the code's.

**WalletMint.** `mintNft` with its fee read from the balances of a transaction
(`readSolTransfer`), and the checksum of the row it writes. `NoFreeMint`: every mint
handed out names a transaction that landed, did not fail, and gave nobody more than the
treasury (by more than twice the network fee); of a plain transfer the treasury had the whole fee, or up to twice the
network fee less when its payer paid that too (below); and nobody who paid in full is
told otherwise by the balances. `OneMintPerFee`: a signature that has bought a
recorded mint buys no other, whatever `settle` or a hand on the database does to the
row. `AuditTellsTruth`: an audit fails exactly for rows somebody altered.

**Library.** `toggleLike`, albums and tracks, and R2 objects. `CountsHeal`: whatever a
race or a failure left in a stored count, the next request that runs undisturbed
writes the number of rows.

| Run | Bounds | Shows |
|---|---|---|
| `Desk` | two requests, two wallets, two assets; two tiers, one point, three transactions; one time unit of rate life in two ticks, two quotes, two price figures; four signatures: of the whole fee, of a lamport too little with the network fee paid by another or by the payer, and of a transaction that failed; three spellings of an amount; two tracks | the nine properties above |

Two requests are what any of these races takes. Two tiers are one that must be
earned and one for everybody; one point is enough to have it and lose it. Of the
two figures one is cut to less than a rate's unit. The four parts' model values
are one set each of requests, people and assets, and symmetric.

Behaviours the models have and the properties allow: two claims in flight at once
can both pass the supply check, so `claimedCount` may exceed the supply; a supply
above one still has one asset; a second `mintMedals` beside an unconfirmed first
mints a second asset, though `medals.ts:558-561` says to run it again; a PENDING
`MEDAL_CLAIM` row is never reconciled; one of two concurrent grants is lost;
concurrent likes and tracks leave a count wrong until the next undisturbed one; a
track number may collide and throw.

Two places where code and comment differ are about the fee. `mint.ts:118` says "One
signature cannot pay for two mints." It can: the signature is looked up before the
chain is asked and recorded after the mint is built, so requests under way together
both find it unspent, and both are answered; and since rows are for the record only
(`mint.ts:283-289`), a mint whose `transaction.create` failed has spent nothing.
`OneMintPerFee` is therefore about the requests that begin after a recorded mint was
handed out (`again`), which is all the lookup can promise; its mutant looks for PENDING
rows only, and lets a confirmed mint's fee be used again.

The other is the arithmetic.
`solana.ts:107` says of the account that paid the network fee "so add the fee back to
see what it actually sent"; the next line subtracts it from a change that has it
already. What the payer is taken to have sent is therefore twice the network fee too
much, and a fee short by up to that passes, where `solana.ts:133` says "Underpaying
by a lamport fails." `Adjusted` is as the code has it, and `"short"` of the run is such a
payment: one lamport short, and accepted. Where somebody else paid the network fee the
comparison is exact: `"less"` is as short, and refused. The comparison is moreover with
what the greatest loser lost, which only in a plain transfer (`Transfer`) is what the
treasury received; of other transactions `NoFreeMint` says that the treasury gained
most, but for the same two fees.

### Proofs of the desk

`DeskProofs` proves every property of the run, part by part.

**Medals**, for any tiers, grants,
wallets, assets and finite set of requests (`MedalAssumption`). None is inductive:
what a handler does next rests on what it read statements ago. The invariant
`MedalInv` adds what stays true of a handler at each of its steps whatever others do
(`HandSound`: the wallet has earned what is about to be sent, the asset about to be
linked has its row, the claim about to be counted is there), and `Forward` says
once what any step leaves behind for the others. `claimedCount` is bounded by
counting: it and the handlers still to count never exceed the claims
(`CountsBehind`), because `ClaimRow` raises both sides and `ClaimCount` moves one
from the handlers to the count. `LeavingIsRecorded` is proved without "landed"
(`SentIsAnswered`): a transfer is answered for from the moment it is sent.

**Quotes**, assuming only that the configuration is of natural numbers, with
positive rate, scale and unit (`FeeAssumption`). A rate travels from a source to a
memo, a row, another isolate's hint and its memo, so the invariant `FeeInv` says at
each place that what is carried as live was heard (`HintsHeard`). For the money,
`QuotesCover` says of every row that its fee is worth its lamports and its lamports
what its mints take, and `OrdersFit` that an order holds a row for one mint, of an
asset no larger. `FeeCoversMint` follows by monotony of the products (`LamportsGrow`,
`FeeCovers`), the ceilings by `RoundsUp`.

**Wallet mints**, from `WalletAssumption`: the form the database gives an amount back
in is one of its spellings, and the treasury is an account of every transaction.
`MintsArePaid` (`NoFreeMint`) holds for any transactions whatever, of any number of
accounts, any fee and any network fee. Its invariant `PaidInv` says of every handler
past `FeeVerify`, and of every mint handed out, that its signature is on chain and its
balances pass; what the chain said once stays so, since landed transactions keep their
balances. What passing means is arithmetic: a finite sequence of changes has a greatest
one (`BalancesBounded`, `IntGreatest`), so the `Recipient` the code finds is one that
gained, and nobody gained more (`RecipientGained`); what moved is the greatest loss
(`MovedIsLargest`), which in a plain transfer is the payer's and so, the network fee
taken off twice or not at all, bounds what the treasury had (`PlainPaysFee`).
Conversely one who paid in full lost at least the fee, and only the treasury gained
(`FullMeansPaid`).

`FeeBuysOneMint` (`OneMintPerFee`) needs `OnceInv`: a signature that has bought a mint
whose rows were written is in a row of `entry`, and is so for ever, because rows are
appended and altered but neither signature nor row ever goes (`SpentStays`); hence a
handler that began after the purchase (`again`) never gets past `FeeGuard`. Between the
row and the answer the handler itself carries the fact.

**Library**, for any finite set of fans and any tracks. `StoredCountsHeal`
(`CountsHeal`) is about a number read in one statement and stored in another.
`ClerkSound` says that the number a request carries is the number of rows for as
long as nobody has entered since it began, and that two requests never both count
as `alone`; `ClerkGoesOn` and `ClerkEnters` are the two ways a step can touch that.

`DeskTypeCorrect` puts the four together: a step of one part leaves the other
three's invariants alone.

## The pages

**CreatePage** is one life of the page that mints. `screen` is what is shown, `form`
the card form with its clock, `attempt` each press's handler from await to await,
`polls` the calls of `getPayment` under way; `order` and `wallet` stand for
`MintRail` and the chain. Handlers outlive the screen: each sets it by whatever is
there when it answers. `PaysOnce`: once a card was charged, the page shows that
payment and no button, unless its person switched chain meanwhile (`strayed`),
after which the button is live again in spite of the comment at
`CreatePage.tsx:66-70`. `SpinnerStops`: the waiting form ends, though renders reset
its five-minute clock.

**DetailPage** is the page of one NFT in two browsers: `page` is what each drew and
is doing, `view` the row as it last fetched it, `token` and `ledger` the chain, `row`
the marketplace. `SaysWhatHappened` (with CreatePage's half): a purchase, a
listing, a cancellation, a burn or a mint is announced only if this person's own
transaction did it. `PriceSurvives`: text typed, base units, chain and decimal in the row are one
price, to the unit, and the text on the page is that price cut, never above it, never
zero, for every price `Decimal.toString` writes without an exponent. The way to the
page is the code's: `DecimalText` is that `toString` (`nfts.ts:93`), which below 1e-6
gives a digit, a fraction and an exponent; `FormatPrice` (`chain-ui.ts:76-91`) splits
it at the point and takes what follows, `e-7` included (`Exponent`), for digits.

**Backfill** is `resolveMissingMetadata`, run again until nothing remains, and
`backfillMintCosts`, on every tick. `BackfillReaches`: what can be repaired is, when
fewer rows than a window are beyond repair; with a full window of such rows the
code starves the others (`admin.ts:421-437`, `mintjob.ts:672-685`).

| Run | Bounds | Shows |
|---|---|---|
| `Pages` | two presses, two orders, one render; two people, three transactions, four decimals of which one is kept, exponents from the third on, three amounts; three pictures and three jobs, one of each beyond repair, windows of two, two failures | `PaysOnce`, `SaysWhatHappened`, `PriceSurvives`, `SpinnerStops`, `BackfillReaches` |

The amounts are one small enough for an exponent, one finer than a unit that rounds up
to a whole on Base, and one below what is shown, with zeros on both sides. Fairness: timers run, requests
are answered or fail in the end, an admin runs the backfill again, hosts that went
away return, the cron ticks. Nothing is assumed of the person at the page, of
wallets or of the chain.

The page shows tiny prices wrong. `chain-ui.ts:70-75` promises a trim "without touching
a float", since "these are prices", but the text it is given is `price.toString()`
(`nfts.ts:93`), and a price below 0.000001 arrives with an exponent: 0.00000012345
comes as `1.2345e-7` and is drawn as `1.2345`, ten million times too much; with fewer
digits a piece of the exponent is drawn as well (`1.5e-1` for 1.5e-10). What is signed
and stored is right, which is why `PriceSurvives` keeps its first half for every price
and asks the second only of those from 0.000001 up; without that condition TLC finds
the first amount violating it. The same text makes `toBaseUnits` throw in the list of
collections (`nfts.ts:464`, `chains.ts:201`).

Behaviours to know of. `getNft` returns listings whatever their status
(`nfts.ts:245`, though `:231` says "active listing") and the page takes the first,
so after any sale or cancellation it offers strangers a Buy that will be refused,
and its owner neither List nor Burn. A lost answer of `createPaymentIntent`, or a
failed `evmIndexToken` after a mint that landed, arms the mint button again
(`CreatePage.tsx:317-319`): the first charged nobody, the second mints once more. A
purchase whose verification fails after it landed is shown as an error and not
settled (`NftDetailPage.tsx:248`). On Base `parseUnits` rounds digits beyond the
unit, where `chains.ts:192-193` says "rejected, never rounded". A buyer pays the
chain's present price, not the one displayed. A `resolve` run while a host is away
wipes `imageUrl` (`admin.ts:367-368` calls it safe to re-run).

### Proofs of the pages

`PagesProofs` proves `ChargedOnce` (`PaysOnce`), `PagesTellTruth`
(`SaysWhatHappened`) and `PricesSurvive` (`PriceSurvives`) for any presses, orders,
renders, people, prices and transactions (`CreateAssumption`: what a finished screen names is a press or an
order, not both).

For the create page the invariant has two halves. `Real` holds always: what is drawn
or carried by a handler or a poll is the state of an order or of a transaction, or
was and cannot change back. `Alone` holds while nobody has switched chain behind a
handler: there is then one story, in which the one handler at work has the screen to
itself, and a charge, a call to Stripe, a form and a poll are all of the payment on
the screen. `PaysOnce` follows, since a button is armed only on a screen without a
payment. The code has no such rule written down; it holds because each handler
draws "busy" in the same tick in which it leaves "idle".

For the detail page, `PageSound` ties what each browser does and shows to one entry
of the ledger: from the signature on it is a transaction of this person's for this
operation (`Own`), and past the confirmation one that landed. Others' steps extend
the ledger and decide what is undecided, and change nothing else in it
(`LandsKeeps`), so an announcement stays true however late it is drawn.

`PriceSurvives` is proved for any amount typed, any number of decimals and of digits
kept, and any place from which exponents are written. It assumes what `DetailAssumption` does: that a unit has a decimal at least and
an amount is a whole number and a sequence of digits. `PriceInv` follows a price by its identity: what a page signs as a listing is
what was typed, in units (`Quoted`); a listing on chain and a row of the shelf each
name the transaction they come from, and the row has that one's units as a decimal
(`Priced`), however rows are closed, overwritten and appended (`RecordingHonest`).
What is left is arithmetic on digits. `Number` is a recursive function of the digits
read so far, and any function that reads them so gives the same (`ReadOnce`); each
induction takes the least counterexample, since the library's induction theorems
take operators. From there digits behind digits shift what stands before
(`NumberJoin`), a fraction is less than one (`NumberBelow`), the digits of a
remainder read back as it (`DigitsRead`), trimming leaves the amount
(`TrimmedSame`), so units written as a decimal read back as the same units
(`UnitsBack`); a cut loses less than one of the last digit left (`CutShort`,
`FormatKeeps`), and a price of that many units is written plainly, since its first
digit stands before the exponent's place (`WrittenPlainly`); and what is finer than a unit is rounded to the nearest
(`RoundedRight`).

What stays with TLC: `SpinnerStops` and `BackfillReaches`, which are liveness.

## Not modelled

Texts and layout; the Solana endpoint rotation; ownership verification;
`failureReason`; request validation, HMACs and tokens, which refuse before anything
is written; searches, lists, statistics and the leaderboard, which only read; R2
media types and headers; the EVM token's own mint fee; upgrades and ownership of
the contracts; Solana rent. The sweep's wall-clock and subrequest budgets only end
a tick early. `prisma/schema.prisma` enters through its unique keys, defaults and
cascades. `openapi.ts`, the flow checks and the remaining pages hold no state.

## Running

    tlc -workers 2 -config RailRaces.cfg MCMintRail
    tlc -workers 2 -config Escrow.cfg MCEscrow
    tlc -workers 2 -config Market.cfg MCEvmMarket
    tlc -workers 2 -config Shop.cfg MCStorefront
    tlc -workers 2 -config Catalogue.cfg MCCatalogue
    tlc -workers 2 -config Kumele.cfg MCKumele
    tlc -workers 2 -config Desk.cfg MCDesk
    tlc -workers 2 -config Pages.cfg MCPages
    tlapm MintRailProofs.tla
    tlapm EscrowProofs.tla
    tlapm EvmMarketProofs.tla
    tlapm StorefrontProofs.tla
    tlapm EvmCatalogueProofs.tla
    tlapm DeskProofs.tla
    tlapm KumeleProofs.tla
    tlapm PagesProofs.tla

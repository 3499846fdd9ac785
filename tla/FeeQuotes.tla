----------------------------- MODULE FeeQuotes ------------------------------
(***************************************************************************)
(* Quoting a mint and charging for it: the SOL/EUR rate and where it came  *)
(* from, the quote rows that carry it from isolate to isolate, the order   *)
(* that spends a quote, and the pruning of quotes nobody spent.            *)
(*                                                                         *)
(* Each isolate keeps the last live rate and whether its RPC serves fee    *)
(* estimates; an eviction forgets both.  The database hands a rate from    *)
(* one isolate to the next, through the newest quote that says it was a    *)
(* live estimate.  A quote reads that row, prices, and writes its own row, *)
(* and other isolates do the same in between.                              *)
(*                                                                         *)
(* Money is whole: lamports and cents in the code, the units of MC here.   *)
(* Only the order of magnitudes matters, so the arithmetic is the code's   *)
(* over small numbers, rounded as the code rounds.                         *)
(***************************************************************************)
EXTENDS Integers, Sequences, FiniteSetsExt

CONSTANTS
    Isolates,
    Figures,          \* what the price sources may answer, finer than a rate
    Finer,            \* a rate's unit, in theirs
    FallbackRate,     \* FALLBACK_EUR_PER_SOL
    Estimates,        \* priority fees the RPC may estimate
    Attached,         \* the priority fee a mint transaction attaches
    MintBase,         \* lamports of the two signatures and of MPL Core's fee
    RentPerByte, RentOverhead,
    Scale,            \* lamports * rate that make one cent
    FeeFloor, BasePrice, TaxBps, MinCharge,
    FixedBytes,       \* MPL_CORE_ASSET_FIXED_BYTES
    MaxName, MaxUri,  \* bytes of the longest name and URI accepted
    Names, Uris,      \* bytes a caller's name and URI may have
    Quantities,       \* what a caller may ask a price for
    RateTtl, QuoteTtl, Retention,
    MaxTime,          \* bound: ticks of the clock
    MaxQuotes         \* bound: quotes ever written

ASSUME FeeAssumption ==
    /\ Figures \subseteq Nat /\ Finer \in Nat \ {0} /\ FallbackRate \in Nat \ {0}
    /\ Estimates \subseteq Nat /\ Attached \in Nat /\ MintBase \in Nat
    /\ RentPerByte \in Nat /\ RentOverhead \in Nat /\ Scale \in Nat \ {0}
    /\ FeeFloor \in Nat /\ BasePrice \in Nat /\ TaxBps \in Nat /\ MinCharge \in Nat
    /\ FixedBytes \in Nat /\ MaxName \in Nat /\ MaxUri \in Nat
    /\ Names \subseteq Nat /\ Uris \subseteq Nat
    /\ Quantities \subseteq Nat \ {0}
    /\ RateTtl \in Nat /\ QuoteTtl \in Nat /\ Retention \in Nat
    /\ MaxTime \in Nat /\ MaxQuotes \in Nat

VARIABLES
    now,
    memo,          \* isolate -> the last live rate it heard, or NoRate
    estimator,     \* isolate -> whether it still asks the RPC for estimates
    quotes,        \* fee_quotes rows ever written, oldest first
    pruned,        \* places of the rows since deleted
    orders,        \* payments that spend a quote
    heard,         \* history: the rates a price source has answered
    pricing        \* isolate -> whether it is pricing, and the hint it read

feeVars == <<now, memo, estimator, quotes, pruned, orders, heard, pricing>>

\* No rate remembered, no hint read, no figure answered.
NoRate == [rate |-> 0, at |-> 0]

Unpriced == [busy |-> FALSE, hint |-> NoRate]

FeeInit ==
    /\ now = 0
    /\ memo = [i \in Isolates |-> NoRate]
    /\ estimator = [i \in Isolates |-> TRUE]
    /\ quotes = <<>>
    /\ pruned = {}
    /\ orders = {}
    /\ heard = {}
    /\ pricing = [i \in Isolates |-> Unpriced]

-----------------------------------------------------------------------------
(* The arithmetic                                                          *)

CeilDiv(a, b) == (a + b - 1) \div b

AtLeast(a, b) == IF a >= b THEN a ELSE b

\* What an asset occupies, and the most one may.
AssetBytes(name, uri) == FixedBytes + name + uri
WorstSize == AssetBytes(MaxName, MaxUri)

\* The assets a quote or an order is accepted for.
Sizes == {AssetBytes(n, u) : n \in Names \cap 0..MaxName, u \in Uris \cap 0..MaxUri}

\* The runtime's rent formula, used when the cluster will not answer.
Rent(bytes) == (RentOverhead + bytes) * RentPerByte

MintLamports(priority, bytes) == MintBase + priority + Rent(bytes)

\* Rounds towards the platform.
LamportsToMinor(lamports, rate) == CeilDiv(lamports * rate, Scale)

FeeFor(lamports, rate) == AtLeast(FeeFloor, LamportsToMinor(lamports, rate))

TaxOn(base) == IF TaxBps = 0 THEN 0 ELSE CeilDiv(base * TaxBps, 10000)

\* What the mint of an asset will cost the vault.
SpentOn(bytes) == MintLamports(Attached, bytes)

-----------------------------------------------------------------------------
(* The rate                                                                *)

\* A figure is cut to a rate's digits, never rounded.
ToScaled(figure) == figure \div Finer

\* What asking the price sources, one after the other, may come to: the first
\* usable figure, and nothing when none has one.
SourceAnswers == {ToScaled(f) : f \in Figures} \ {0}

RateFresh(m) == m # NoRate /\ now - m.at < RateTtl

\* The rate an isolate prices with, what it remembers after, and whether a
\* price source was asked: its memo, then the hint, then the sources; when
\* none of them answers, what it knew, labelled as not live.
RateAnswers(i, hint) ==
    IF RateFresh(memo[i]) THEN {[rate |-> memo[i].rate, live |-> TRUE, memo |-> memo[i], new |-> {}]}
    ELSE IF RateFresh(hint) THEN {[rate |-> hint.rate, live |-> TRUE, memo |-> hint, new |-> {}]}
    ELSE
      {[rate |-> r, live |-> TRUE, memo |-> [rate |-> r, at |-> now], new |-> {r}] : r \in SourceAnswers}
      \cup
      {[rate |-> IF memo[i] # NoRate THEN memo[i].rate
                 ELSE IF hint # NoRate THEN hint.rate ELSE FallbackRate,
        live |-> FALSE, memo |-> memo[i], new |-> {}]}

\* What the priority estimate may come to, and whether the isolate asks again:
\* not after an error, though after an answer without a figure.  An estimate
\* below what a mint attaches is raised to it.
PriorityAnswers(i) ==
    (IF estimator[i]
     THEN {[lamports |-> AtLeast(e, Attached), asks |-> TRUE] : e \in Estimates}
          \cup {[lamports |-> Attached, asks |-> asks] : asks \in BOOLEAN}
     ELSE {[lamports |-> Attached, asks |-> FALSE]})

-----------------------------------------------------------------------------
(* getFeeQuote                                                             *)

Rows == DOMAIN quotes \ pruned

\* Any row's rate taken for a live one.
AnyRow == Rows

\* The rows a rate may be borrowed from: only those that were live.
Borrowable == {q \in Rows : quotes[q].confidence = "estimated"}

Hints ==
    {NoRate} \cup
    (IF Borrowable = {} THEN {}
     ELSE {[rate |-> quotes[Max(Borrowable)].rate, at |-> quotes[Max(Borrowable)].createdAt]})

\* The newest live row is read; a database that will not answer gives no hint.
QuoteRead(i) ==
    /\ pricing[i] = Unpriced
    /\ \E hint \in Hints : pricing' = [pricing EXCEPT ![i] = [busy |-> TRUE, hint |-> hint]]
    /\ UNCHANGED <<now, memo, estimator, quotes, pruned, orders, heard>>

\* quoteMintFee, which never fails for a dependency that does but says so, and
\* the row it is stored in.  createdAt is when the row is written, whatever
\* the age of the rate; pricing and writing take less than a tick.
QuoteWrite(i) ==
    /\ pricing[i].busy
    /\ Len(quotes) < MaxQuotes
    /\ \E bytes \in Sizes \cup {WorstSize}, quantity \in Quantities,
         rate \in RateAnswers(i, pricing[i].hint), priority \in PriorityAnswers(i),
         rentAnswered \in BOOLEAN :
          LET lamports == quantity * MintLamports(priority.lamports, bytes) IN
          /\ memo' = [memo EXCEPT ![i] = rate.memo]
          /\ estimator' = [estimator EXCEPT ![i] = priority.asks]
          /\ heard' = heard \cup rate.new
          /\ quotes' = Append(quotes,
                [bytes |-> bytes, quantity |-> quantity, lamports |-> lamports,
                 rate |-> rate.rate, fee |-> FeeFor(lamports, rate.rate),
                 confidence |-> IF rate.live /\ rentAnswered THEN "estimated" ELSE "fallback",
                 expiresAt |-> now + QuoteTtl, createdAt |-> now])
    /\ pricing' = [pricing EXCEPT ![i] = Unpriced]
    /\ UNCHANGED <<now, pruned, orders>>

\* An isolate is evicted, with what it remembers and what it was doing.
Evict(i) ==
    /\ memo' = [memo EXCEPT ![i] = NoRate]
    /\ estimator' = [estimator EXCEPT ![i] = TRUE]
    /\ pricing' = [pricing EXCEPT ![i] = Unpriced]
    /\ UNCHANGED <<now, quotes, pruned, orders, heard>>

-----------------------------------------------------------------------------
(* createIntent's pricing, and the cron's prune                            *)

\* The smallest quote spent on any asset.
FitsAll(bytes, q) == TRUE

\* The quote fits the asset about to be minted.
Fits(bytes, q) == bytes <= q.bytes

\* A quote is spent once: Payment.quoteId is unique.
Unspent(n) == \A o \in orders : o.quote # n

Total(q) == BasePrice + TaxOn(BasePrice) + q.fee

\* Every figure comes from the quote and the configuration; the caller only
\* says which quote, and what it will mint.  The vault's balance is left out: it
\* reserves nothing, and one that cannot be read stops no order.
CreateIntent ==
    /\ \E n \in Rows, bytes \in Sizes :
          LET q == quotes[n] IN
          /\ q.expiresAt >= now
          /\ q.quantity = 1
          /\ Fits(bytes, q)
          /\ Total(q) >= MinCharge
          /\ Unspent(n)
          /\ orders' = orders \cup {[quote |-> n, bytes |-> bytes, fee |-> q.fee,
                                    total |-> Total(q)]}
    /\ UNCHANGED <<now, memo, estimator, quotes, pruned, heard, pricing>>

\* Only those that expired long ago and that no payment holds.
Abandoned(n) == quotes[n].expiresAt < now - Retention /\ Unspent(n)

PruneAbandonedQuotes ==
    /\ \E n \in Rows : Abandoned(n)
    /\ pruned' = pruned \cup {n \in Rows : Abandoned(n)}
    /\ UNCHANGED <<now, memo, estimator, quotes, orders, heard, pricing>>

Tick ==
    /\ now < MaxTime
    /\ now' = now + 1
    /\ UNCHANGED <<memo, estimator, quotes, pruned, orders, heard, pricing>>

FeeNext ==
    \/ \E i \in Isolates : QuoteRead(i) \/ QuoteWrite(i) \/ Evict(i)
    \/ CreateIntent
    \/ PruneAbandonedQuotes
    \/ Tick

FeeSpec == FeeInit /\ [][FeeNext]_feeVars

-----------------------------------------------------------------------------
(* Properties                                                              *)

QuoteRow == [bytes : Nat, quantity : Nat, lamports : Nat, rate : Nat, fee : Nat,
             confidence : {"estimated", "fallback"}, expiresAt : Nat, createdAt : Nat]

RateAt == [rate : Nat, at : Nat]

\* Every variable keeps its shape; orders and pruning name rows that exist.
FeeTypeOK ==
    /\ now \in 0..MaxTime
    /\ memo \in [Isolates -> RateAt]
    /\ estimator \in [Isolates -> BOOLEAN]
    /\ quotes \in Seq(QuoteRow) /\ Len(quotes) <= MaxQuotes
    /\ pruned \subseteq DOMAIN quotes
    /\ orders \subseteq [quote : DOMAIN quotes, bytes : Sizes, fee : Nat, total : Nat]
    /\ heard \subseteq Nat \ {0}
    /\ pricing \in [Isolates -> [busy : BOOLEAN, hint : RateAt]]

\* The fallback constant is never laundered: whatever isolates forget, and
\* whichever rows they borrow from, a rate that is labelled live, remembered,
\* or stored with an estimate is one a price source has answered.
FallbackStaysFallback ==
    /\ \A n \in DOMAIN quotes :
          quotes[n].confidence = "estimated" => quotes[n].rate \in heard
    /\ \A i \in Isolates : memo[i] # NoRate => memo[i].rate \in heard

\* The platform never pays for a mint out of pocket: the fee on an order, at
\* the rate its quote row still records, is at least what minting that very
\* asset takes out of the vault.
FeeCoversMint ==
    \A o \in orders :
       /\ o.quote \in Rows
       /\ o.fee * Scale >= SpentOn(o.bytes) * quotes[o.quote].rate

=============================================================================

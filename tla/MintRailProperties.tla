-------------------------- MODULE MintRailProperties --------------------------
(***************************************************************************)
(* What the pay-then-mint rail must never do, and what it must eventually  *)
(* do.  Money is where Stripe says it is and the NFT is where the chain    *)
(* says it is; the rows are the program's opinion of both.                 *)
(***************************************************************************)
EXTENDS MintRail

CheckoutType == checkout \in {"start", "callStripe", "refused", "attach", "answered", "ended"}
PaymentType == payment \in [status : PaymentStatuses, attached : BOOLEAN]
Leases == {"none", "live", "expired"}
Notes == {"none", "error", "refunded"}
JobRows ==
    [status : JobStatuses, attempts : 0..(MaxAttempts + 1), lease : Leases,
     addr : Seeds \cup {NoAddr}, sig : 0..MaxAttempts, note : Notes, waited : BOOLEAN]
JobType == job \in JobRows
StripeRows ==
    [intent : {"none", "open", "succeeded", "canceled"},
     refund : {"none", "platform", "dashboard"},
     events : SUBSET Events, acked : SUBSET Events]
StripeType == stripe \in StripeRows
HookType == hook \in [Hooks -> [at : {"idle", "payment", "job", "flag"}, ev : Events]]
PcType == pc \in [Actors -> TryBlock \cup {"idle", "called", "fail", "block"}]
Locals ==
    [n : 0..(MaxAttempts + 1), addr : Seeds \cup {NoAddr}, own : Seeds \cup {NoAddr},
     sig : 0..MaxAttempts, ok : BOOLEAN]
CtxType == ctx \in [Actors -> Locals]
ChainType == chain \in [inflight : SUBSET Txs, assets : SUBSET Txs, dusted : SUBSET Seeds]
RowsType == rows \in [nft : BOOLEAN, txs : SUBSET Sigs]
EnvType == seed \in Seeds /\ faults \in 0..MaxFaults

\* Every field holds a value its column or variable can hold.
TypeOK ==
    /\ CheckoutType /\ PaymentType /\ JobType /\ StripeType /\ HookType
    /\ PcType /\ CtxType /\ ChainType /\ RowsType /\ EnvType

\* What a worker's local variables are worth inside the try block.
CtxInv ==
    \A w \in Workers :
        /\ pc[w] \in TryBlock => ctx[w].own \in Seeds /\ ctx[w].n # 0
        /\ pc[w] \in {"sign", "send", "confirm"} => ctx[w].n \in Sigs
        /\ pc[w] \in {"send", "confirm"} => ctx[w].sig \in Sigs

-----------------------------------------------------------------------------
(* Safety.                                                                 *)

Charged == stripe.intent = "succeeded"
Refunded == stripe.refund # "none"
Delivered == chain.assets # {}

\* The vault never signs for an order nobody paid: a transaction exists, in
\* flight or landed, only after Stripe captured the money, however webhook
\* deliveries, sweeps and operators interleave.
ChargedFirst == chain.inflight # {} \/ Delivered => Charged

\* The rows never claim a refund Stripe has not made: REFUNDED on either row
\* comes after the money went back in full (payments.ts:549-598,
\* mintjob.ts:610-646).  A partial refund is not one.
RefundIsReal ==
    payment.status = "REFUNDED" \/ job.status = "REFUNDED" => Refunded

\* A job says MINTED only when the asset is on chain and the buyer's Nft row
\* is written (mintjob.ts:543, "Everything this job promised now exists").
MintedIsDelivered == job.status = "MINTED" => Delivered /\ rows.nft

\* One payment mints at most one asset, across retries, redeliveries, racing
\* workers and a rotated seed (mintjob.ts:327-335).
OneAsset == Cardinality({t.addr : t \in chain.assets}) <= 1

\* Money the platform still holds is never in a job nothing looks at again:
\* neither the sweep nor the webhook revisits FAILED or REFUNDED
\* (payments.ts:513-516 tells of the decline that broke this).
NotStranded == Charged /\ ~Refunded => job.status \notin {"FAILED", "REFUNDED"}

\* No late, repeated or reordered event takes a settled payment back.
SettledStays ==
    [][/\ payment.status = "PAID" => payment'.status \in {"PAID", "REFUNDED"}
       /\ payment.status = "REFUNDED" => payment'.status = "REFUNDED"]_vars

-----------------------------------------------------------------------------
(* The inductive strengthening of the safety invariants.                   *)

\* Nothing but the succeeded event puts an order in motion: a row that has
\* left its unpaid statuses, an invocation that is running and a webhook that
\* is being handled all trace back to a Stripe event that was emitted.
MoneyInv ==
    /\ checkout \in {"start", "callStripe", "refused"} => stripe.intent = "none"
    /\ "succeeded" \in stripe.events => Charged
    /\ "refunded" \in stripe.events => Refunded
    /\ Refunded => Charged
    /\ \A h \in Hooks : hook[h].at # "idle" => hook[h].ev \in stripe.events
    /\ job.status \in {"NONE", "AWAITING_PAYMENT", "FAILED"} \/ Charged
    /\ payment.status \in {"PAID", "REFUNDED"} => Charged
    /\ \A a \in Actors : pc[a] # "idle" => Charged
    /\ \A a \in Actors : ctx[a].ok => Refunded
    /\ RefundIsReal
    /\ ChargedFirst

\* A worker writes its rows only for an asset it has seen, and MINTED last.
GoodsInv ==
    /\ \A w \in Workers : pc[w] \in {"recordNft", "recordTx", "finish"} => Delivered
    /\ \A w \in Workers : pc[w] \in {"recordTx", "finish"} => rows.nft
    /\ MintedIsDelivered

\* Whatever follows the money can be found again: once a delivery, a settled
\* payment or an invocation exists, the row holds its intent id; and a job FAILED
\* only with an intent that was canceled, which is never captured.
PaperInv ==
    /\ \A h \in Hooks : hook[h].at # "idle" => payment.attached
    /\ payment.status \in {"PAID", "REFUNDED"} => payment.attached
    /\ job.status \notin {"NONE", "AWAITING_PAYMENT", "FAILED"} => payment.attached
    /\ \A a \in Actors : pc[a] # "idle" => payment.attached
    /\ "canceled" \in stripe.events => stripe.intent = "canceled"
    /\ job.status = "FAILED" => stripe.intent = "canceled"

-----------------------------------------------------------------------------
(* The same for what holds when minutes pass as config.ts expects and no   *)
(* operator refunds an order that is still being minted.                   *)

Undisturbed == Timely /\ Admins = {}

\* A worker between its claim and its last write.
Holds(w) == pc[w] \notin {"idle", "called"}

\* A worker that has compared or stored the address, up to its last write.
Addressed(w) ==
    pc[w] \in {"read", "sign", "send", "confirm", "recordNft", "recordTx", "finish"}

Refunding(w) == pc[w] \in {"refund", "stripe", "refundJob", "refundPayment"}

Touched == chain.inflight \cup chain.assets # {}

\* Until the cap is passed one worker at a time holds the job, under the lease it
\* claimed; after that several may, but every one of them knows it is exhausted.
HolderInv ==
    /\ \A w \in Workers : Holds(w) => ctx[w].n = job.attempts
    /\ \A w \in Workers : Holds(w) /\ job.attempts <= MaxAttempts =>
           job.status = "MINTING" /\ job.lease = "live"
    /\ \A v, w \in Workers :
           job.attempts <= MaxAttempts /\ Holds(v) /\ Holds(w) => v = w
    /\ \A w \in Workers : Refunding(w) => job.attempts > MaxAttempts

\* Every transaction ever sent names the address the row stores, and the worker
\* that may send the next one derives that address too.
AddressInv ==
    /\ \A t \in chain.inflight \cup chain.assets : t.addr = job.addr
    /\ \A w \in Workers : Touched \/ job.attempts <= MaxAttempts =>
           /\ pc[w] = "derive" => ctx[w].addr = job.addr
           /\ Addressed(w) => ctx[w].own = job.addr

\* At most one sweep is alive, and a job may be attempted more than once.
Roomy ==
    /\ Undisturbed
    /\ \A v, w \in Sweepers : v = w
    /\ MaxAttempts >= 2
    /\ "dashboardRefund" \notin Outside

\* How many invocations can be about to claim: after the first claim the one that
\* was kicked off or the one that was swept, after the second none until the
\* backoff has run out - and by then nothing is in flight.
CallersInv ==
    /\ checkout = "start" => job.status = "NONE"
    /\ job.status \in {"NONE", "AWAITING_PAYMENT"} =>
           job.attempts = 0 /\ \A w \in Workers : pc[w] = "idle"
    /\ \A v, w \in Workers \ Sweepers : pc[v] # "idle" /\ pc[w] # "idle" => v = w
    /\ job.waited => /\ chain.inflight = {}
                     /\ \A w \in Workers \ Sweepers : pc[w] = "idle"
                     /\ \A w \in Workers : ~Holds(w)
    /\ ~job.waited /\ job.attempts \in 1..MaxAttempts =>
           \A v, w \in Workers : pc[v] = "called" /\ pc[w] = "called" => v = w /\ job.attempts = 1

\* The cap is reached with nothing in flight, so a refund and a delivery exclude
\* each other.
SaleInv ==
    /\ job.attempts > MaxAttempts => chain.inflight = {}
    /\ \A w \in Workers : Refunding(w) => ~Delivered
    /\ Refunded => job.attempts > MaxAttempts /\ ~Delivered
    /\ \A h \in Hooks : hook[h].at = "flag" => Refunded

-----------------------------------------------------------------------------
(* The promise of OrderLedger.                                             *)

Money == IF Refunded THEN "returned" ELSE IF Charged THEN "captured" ELSE "none"
Goods == IF Delivered THEN "delivered" ELSE "none"

Order == INSTANCE OrderLedger WITH money <- Money, goods <- Goods, Exclusive <- FALSE
Sale == INSTANCE OrderLedger WITH money <- Money, goods <- Goods, Exclusive <- TRUE

\* One charge, at most one refund of it, at most one delivery, and no delivery
\* without a charge.
KeepsOrder == Order!Spec

\* The stronger promise: the buyer ends with the money or with the NFT.
KeepsSale == Sale!Spec

-----------------------------------------------------------------------------
(* Liveness.                                                               *)

\* A captured payment ends: minted, refunded, or blocked for a person to look
\* at - whatever attempt is evicted, times out or loses its transaction.  One
\* that was refunded in the dashboard after minting began may still be open: its
\* own refund is then refused for ever (mintjob.ts:617).
PaidIsSettled ==
    Charged ~> job.status \in {"MINTED", "REFUNDED", "BLOCKED"} \/ stripe.refund = "dashboard"

\* A refund made anywhere, by the platform or in the dashboard, reaches the
\* Payment row.
RefundReachesRow == Refunded ~> payment.status = "REFUNDED"

-----------------------------------------------------------------------------
(* What a comment in the code says and the code does not keep.             *)

\* payments.ts:754-755: the refund button "Refuses to refund a payment whose
\* NFT was actually delivered".
RefundExcludesDelivery == ~(stripe.refund = "platform" /\ Delivered)
=============================================================================

------------------------------ MODULE MintRail ------------------------------
(***************************************************************************)
(* The pay-then-mint rail of the worker backend, for one order: the        *)
(* checkout that creates the Payment and MintJob rows (payments.ts), the   *)
(* Stripe webhook, the cron sweep and the kicked-off runMintJob            *)
(* invocations that mint on Solana (mintjob.ts), and the operator's refund *)
(* button.  Orders share no row, so one order is the whole story of it.    *)
(*                                                                         *)
(* A handler's database statements, its Stripe calls and its RPC calls     *)
(* interleave with those of every other handler; its program counter names *)
(* the one it makes next.  Two statements are one step only where the      *)
(* second reads back what the first has just written (the claim) or        *)
(* repairs what it has just looked up (the webhook's lookup).              *)
(***************************************************************************)
EXTENDS Naturals, FiniteSets

CONSTANTS
    Workers,      \* invocations of runMintJob
    Sweepers,     \* those of them the cron sweep makes; the others are kickOff's
    Admins,       \* invocations of adminRefundPayment
    Hooks,        \* invocations of stripeWebhook
    Seeds,        \* values MINT_ASSET_SEED has over time; each derives one address
    NoAddr,       \* the null mintAddress
    MaxAttempts,  \* MAX_MINT_ATTEMPTS, config.ts:64
    MaxFaults,    \* bound: evictions, thrown errors, lost answers and repeats of
                  \* an acknowledged event in one behaviour
    Outside,      \* what the world outside the worker may do, see OutsideActs
    Timely        \* see Quiet

OutsideActs == {"decline", "cancel", "dashboardRefund", "partialRefund",
                "orphanPay", "dust", "rotateSeed"}

ASSUME RailAssumption ==
    /\ Sweepers \subseteq Workers /\ Workers \ Sweepers # {}
    /\ Workers \cap Admins = {}
    /\ NoAddr \notin Seeds
    /\ MaxAttempts \in Nat \ {0}
    /\ MaxFaults \in Nat
    /\ Outside \subseteq OutsideActs
    /\ Timely \in BOOLEAN

VARIABLES
    checkout,  \* where the createIntent invocation is
    payment,   \* the Payment row
    job,       \* the MintJob row
    stripe,    \* Stripe: the intent, its full refund, the events emitted and acknowledged
    hook,      \* webhook invocation -> its statement and its event
    pc,        \* worker or admin -> its next statement
    ctx,       \* worker or admin -> its local variables
    chain,     \* Solana: transactions in flight, assets that exist, dusted addresses
    rows,      \* the Nft row exists; the hashes of CONFIRMED MINT Transaction rows
    seed,      \* MINT_ASSET_SEED in the deployed environment
    faults

vars == <<checkout, payment, job, stripe, hook, pc, ctx, chain, rows, seed, faults>>

Actors == Workers \cup Admins

Events == {"succeeded", "declined", "canceled", "refunded", "partlyRefunded"}

PaymentStatuses == {"NONE", "REQUIRES_PAYMENT", "FAILED", "PAID", "REFUNDED"}
JobStatuses == {"NONE", "AWAITING_PAYMENT", "PENDING", "MINTING", "MINTED",
                "BLOCKED", "FAILED", "REFUNDED"}

\* A transaction is named by the attempt that signed it: a claim increments
\* attempts and signs at most once, with a fresh blockhash.
Sigs == 1..MaxAttempts
Txs == [sig : Sigs, addr : Seeds]

\* What a worker or admin holds in memory: the attempts, mintAddress and
\* txSignature its claim read, the address its own seed derives, and whether
\* Stripe accepted its refund.
NoCtx == [n |-> 0, addr |-> NoAddr, own |-> NoAddr, sig |-> 0, ok |-> FALSE]

\* The statements inside the try block of runMintJob, where an exception
\* leads to fail(reason, false).
TryBlock == {"derive", "read", "sign", "send", "confirm", "recordNft", "recordTx",
             "finish", "refund", "stripe", "refundJob", "refundPayment"}

-----------------------------------------------------------------------------
Init ==
    /\ checkout = "start"
    /\ payment = [status |-> "NONE", attached |-> FALSE]
    /\ job = [status |-> "NONE", attempts |-> 0, lease |-> "none", addr |-> NoAddr,
              sig |-> 0, note |-> "none", waited |-> FALSE]
    /\ stripe = [intent |-> "none", refund |-> "none", events |-> {}, acked |-> {}]
    /\ hook = [h \in Hooks |-> [at |-> "idle", ev |-> "succeeded"]]
    /\ pc = [a \in Actors |-> "idle"]
    /\ ctx = [a \in Actors |-> NoCtx]
    /\ chain = [inflight |-> {}, assets |-> {}, dusted |-> {}]
    /\ rows = [nft |-> FALSE, txs |-> {}]
    /\ seed \in Seeds
    /\ faults = 0

-----------------------------------------------------------------------------
(* Steps shared by the handlers.                                           *)

GoTo(a, l) == pc' = [pc EXCEPT ![a] = l]

Return(a) ==
    /\ GoTo(a, "idle")
    /\ ctx' = [ctx EXCEPT ![a] = NoCtx]

\* A write to the MintJob row; Prisma also sets updatedAt, from which the
\* sweep's backoff is measured.
WriteJob(row) == job' = [row EXCEPT !.waited = FALSE]

Fault ==
    /\ faults < MaxFaults
    /\ faults' = faults + 1

MintedAt(addr) == \E t \in chain.assets : t.addr = addr

\* Mutated: an unpaid job is claimable; a dead worker's lease never lapses.
ClaimableUnpaid == job.status \in {"PENDING", "AWAITING_PAYMENT"}
ClaimableOnce == job.status = "PENDING"

\* The claim's where clause, and the sweep's.
Claimable ==
    \/ job.status = "PENDING"
    \/ job.status = "MINTING" /\ job.lease = "expired"

\* The sweep's backoff filter.
Due == job.attempts = 0 \/ job.waited

\* With Timely, minutes pass only as config.ts expects: the 5 minute lease and
\* the 2 minute or longer backoff run out when no runMintJob invocation is
\* alive any more (a sweep stops at 20 seconds, waitUntil at 30) and every
\* blockhash in flight is dead (about 90 seconds).  Without it an invocation
\* may outlive its lease, and a transaction may outlive the backoff.
Quiet ==
    /\ \A w \in Workers : pc[w] = "idle"
    /\ chain.inflight = {}

Elapses == Timely => Quiet

-----------------------------------------------------------------------------
(* createIntent: the row first, Stripe second, the intent id third.        *)

CreateRow ==
    /\ checkout = "start"
    /\ payment' = [payment EXCEPT !.status = "REQUIRES_PAYMENT"]
    /\ WriteJob([job EXCEPT !.status = "AWAITING_PAYMENT"])
    /\ checkout' = "callStripe"
    /\ UNCHANGED <<stripe, hook, pc, ctx, chain, rows, seed, faults>>

CallStripe ==
    /\ checkout = "callStripe"
    /\ \/ /\ stripe' = [stripe EXCEPT !.intent = "open"]
          /\ checkout' = "attach"
       \/ /\ checkout' = "refused"
          /\ UNCHANGED stripe
    /\ UNCHANGED <<payment, job, hook, pc, ctx, chain, rows, seed, faults>>

MarkRefused ==
    /\ checkout = "refused"
    /\ payment' = [payment EXCEPT !.status = "FAILED"]
    /\ checkout' = "ended"
    /\ UNCHANGED <<job, stripe, hook, pc, ctx, chain, rows, seed, faults>>

\* The buyer gets the client secret only with the answer that follows.
AttachIntent ==
    /\ checkout = "attach"
    /\ payment' = [payment EXCEPT !.attached = TRUE]
    /\ checkout' = "answered"
    /\ UNCHANGED <<job, stripe, hook, pc, ctx, chain, rows, seed, faults>>

CheckoutDies ==
    /\ checkout \in {"callStripe", "attach", "refused"}
    /\ Fault
    /\ checkout' = "ended"
    /\ UNCHANGED <<payment, job, stripe, hook, pc, ctx, chain, rows, seed>>

-----------------------------------------------------------------------------
(* Stripe and its account holders.                                         *)

Emit(e, s) == stripe' = [s EXCEPT !.events = @ \cup {e}]

\* The buyer confirms the intent.  "orphanPay" lets it be confirmed although
\* checkout died before it answered, the case the metadata lookup is for.
Pay ==
    /\ stripe.intent = "open"
    /\ \/ checkout = "answered"
       \/ checkout = "ended" /\ "orphanPay" \in Outside
    /\ Emit("succeeded", [stripe EXCEPT !.intent = "succeeded"])
    /\ UNCHANGED <<checkout, payment, job, hook, pc, ctx, chain, rows, seed, faults>>

Decline ==
    /\ "decline" \in Outside
    /\ stripe.intent = "open" /\ checkout = "answered"
    /\ "declined" \notin stripe.events
    /\ Emit("declined", stripe)
    /\ UNCHANGED <<checkout, payment, job, hook, pc, ctx, chain, rows, seed, faults>>

CancelIntent ==
    /\ "cancel" \in Outside
    /\ stripe.intent = "open"
    /\ Emit("canceled", [stripe EXCEPT !.intent = "canceled"])
    /\ UNCHANGED <<checkout, payment, job, hook, pc, ctx, chain, rows, seed, faults>>

\* A full or a partial refund made in the Stripe dashboard.
DashboardRefund ==
    /\ stripe.intent = "succeeded" /\ stripe.refund = "none"
    /\ \/ /\ "dashboardRefund" \in Outside
          /\ Emit("refunded", [stripe EXCEPT !.refund = "dashboard"])
       \/ /\ "partialRefund" \in Outside
          /\ "partlyRefunded" \notin stripe.events
          /\ Emit("partlyRefunded", stripe)
    /\ UNCHANGED <<checkout, payment, job, hook, pc, ctx, chain, rows, seed, faults>>

-----------------------------------------------------------------------------
(* stripeWebhook.  Stripe delivers an event at least once, in any order,   *)
(* several times at once, and again until one delivery is acknowledged;    *)
(* one more after that is a fault of the bounded number.                   *)

HookAt(h, l) == hook' = [hook EXCEPT ![h].at = l]

Ack(h) ==
    /\ HookAt(h, "idle")
    /\ stripe' = [stripe EXCEPT !.acked = @ \cup {hook[h].ev}]

\* By intent id, and for a succeeded event also by the metadata's payment id.
\* The row is committed before the intent exists, so a succeeded event always
\* finds it and the "missing" answer (payments.ts:482) is never given.
Found(e) == payment.attached \/ e = "succeeded"

\* The lookup, with the repair of a missing intent id.
Deliver(h, e) ==
    /\ hook[h].at = "idle"
    /\ e \in stripe.events
    /\ IF e \in stripe.acked THEN Fault ELSE UNCHANGED faults
    /\ IF Found(e)
       THEN /\ hook' = [hook EXCEPT ![h] = [at |-> "payment", ev |-> e]]
            /\ payment' = [payment EXCEPT !.attached = TRUE]
            /\ UNCHANGED stripe
       ELSE /\ stripe' = [stripe EXCEPT !.acked = @ \cup {e}]
            /\ UNCHANGED <<hook, payment>>
    /\ UNCHANGED <<checkout, job, pc, ctx, chain, rows, seed>>

\* Mutated: amounts are not compared; the charge's intent is not recognised.
AnyRefund(e) == e \in {"refunded", "partlyRefunded"}
NoRefund(e) == FALSE

\* Which events are a full refund; a partial one only leaves a failureReason.
FullRefund(e) == e = "refunded"

\* Mutated: a decline ends the order.
DeclineEnds(e) == e \in {"declined", "canceled"}

\* Cancellation ends an intent; a decline leaves it open for another card.
Terminal(e) == e = "canceled"

\* Mutated: the writes have no where clause on status.
PaymentAfterUnguarded(e) ==
    CASE e = "succeeded" -> "PAID"
      [] e \in {"declined", "canceled"} -> IF Terminal(e) THEN "FAILED" ELSE "REQUIRES_PAYMENT"
      [] FullRefund(e) -> "REFUNDED"
      [] OTHER -> payment.status

\* The Payment status an event leads to, behind each write's where clause.
PaymentAfter(e) ==
    CASE e = "succeeded" /\ payment.status # "REFUNDED" -> "PAID"
      [] e \in {"declined", "canceled"} /\ payment.status \in {"REQUIRES_PAYMENT", "FAILED"} ->
             IF Terminal(e) THEN "FAILED" ELSE "REQUIRES_PAYMENT"
      [] FullRefund(e) -> "REFUNDED"
      [] OTHER -> payment.status

HookWritesPayment(h) ==
    /\ hook[h].at = "payment"
    /\ payment' = [payment EXCEPT !.status = PaymentAfter(hook[h].ev)]
    /\ IF hook[h].ev = "succeeded" \/ Terminal(hook[h].ev) \/ FullRefund(hook[h].ev)
       THEN HookAt(h, "job") /\ UNCHANGED stripe
       ELSE Ack(h)
    /\ UNCHANGED <<checkout, job, pc, ctx, chain, rows, seed, faults>>

AwaitsPayment == job.status = "AWAITING_PAYMENT"

\* waitUntil(runMintJob).  It is lost when the isolate is evicted, which the
\* kicked-off worker's own Evict covers.
KickOff ==
    \E w \in Workers \ Sweepers : pc[w] = "idle" /\ GoTo(w, "called")

HookAdvancesJob(h) ==
    /\ hook[h].at = "job" /\ hook[h].ev = "succeeded"
    /\ IF AwaitsPayment
       THEN WriteJob([job EXCEPT !.status = "PENDING"]) /\ KickOff
       ELSE UNCHANGED <<job, pc>>
    /\ Ack(h)
    /\ UNCHANGED <<checkout, payment, ctx, chain, rows, seed, faults>>

HookCancelsJob(h) ==
    /\ hook[h].at = "job" /\ Terminal(hook[h].ev)
    /\ IF AwaitsPayment
       THEN WriteJob([job EXCEPT !.status = "FAILED", !.note = "error"])
       ELSE UNCHANGED job
    /\ Ack(h)
    /\ UNCHANGED <<checkout, payment, pc, ctx, chain, rows, seed, faults>>

\* "A refund that arrives before the mint starts simply stops it."
HookStopsJob(h) ==
    /\ hook[h].at = "job" /\ FullRefund(hook[h].ev)
    /\ IF job.status \in {"AWAITING_PAYMENT", "PENDING"}
       THEN WriteJob([job EXCEPT !.status = "REFUNDED", !.note = "error"])
       ELSE UNCHANGED job
    /\ HookAt(h, "flag")
    /\ UNCHANGED <<checkout, payment, stripe, pc, ctx, chain, rows, seed, faults>>

\* One that arrives later only flags the job.
HookFlagsJob(h) ==
    /\ hook[h].at = "flag"
    /\ IF job.status \in {"MINTING", "MINTED"}
       THEN WriteJob([job EXCEPT !.note = "refunded"])
       ELSE UNCHANGED job
    /\ Ack(h)
    /\ UNCHANGED <<checkout, payment, pc, ctx, chain, rows, seed, faults>>

\* A thrown error or an eviction: no acknowledgement, Stripe redelivers.
HookDies(h) ==
    /\ hook[h].at # "idle"
    /\ Fault
    /\ HookAt(h, "idle")
    /\ UNCHANGED <<checkout, payment, job, stripe, pc, ctx, chain, rows, seed>>

-----------------------------------------------------------------------------
(* Time, as the rows see it.                                               *)

LeaseExpires ==
    /\ job.status = "MINTING" /\ job.lease = "live"
    /\ Elapses
    /\ job' = [job EXCEPT !.lease = "expired"]
    /\ UNCHANGED <<checkout, payment, stripe, hook, pc, ctx, chain, rows, seed, faults>>

BackoffElapses ==
    /\ job.status \in {"PENDING", "MINTING"}
    /\ job.attempts > 0 /\ ~job.waited
    /\ Elapses
    /\ job' = [job EXCEPT !.waited = TRUE]
    /\ UNCHANGED <<checkout, payment, stripe, hook, pc, ctx, chain, rows, seed, faults>>

-----------------------------------------------------------------------------
(* runMintJob.                                                             *)

\* The cron sweep selects the job; runMintJob claims it later.
SweepPicks(w) ==
    /\ w \in Sweepers /\ pc[w] = "idle"
    /\ Claimable /\ Due
    /\ GoTo(w, "called")
    /\ UNCHANGED <<checkout, payment, job, stripe, hook, ctx, chain, rows, seed, faults>>

\* attempts saturates one above the cap, which is all the code compares it with.
Claim(w) ==
    LET n == IF job.attempts > MaxAttempts THEN job.attempts ELSE job.attempts + 1
    IN  /\ pc[w] = "called"
        /\ IF Claimable
           THEN /\ WriteJob([job EXCEPT !.status = "MINTING", !.lease = "live", !.attempts = n])
                /\ ctx' = [ctx EXCEPT ![w] = [n |-> n, addr |-> job.addr, own |-> seed,
                                              sig |-> job.sig, ok |-> FALSE]]
                /\ GoTo(w, "derive")
           ELSE Return(w) /\ UNCHANGED job
        /\ UNCHANGED <<checkout, payment, stripe, hook, chain, rows, seed, faults>>

\* Mutated: the stored address is not compared.
SeedIgnored(w) == FALSE

\* The claimed row holds an address this seed does not derive.
SeedChanged(w) == ctx[w].addr # NoAddr /\ ctx[w].addr # ctx[w].own

\* deriveAssetSigner, the comparison with the stored address, and the write of
\* the address when none is stored - before anything is sent.
Derive(w) ==
    /\ pc[w] = "derive"
    /\ IF SeedChanged(w)
       THEN GoTo(w, "block") /\ UNCHANGED job
       ELSE /\ GoTo(w, "read")
            /\ IF ctx[w].addr = NoAddr
               THEN WriteJob([job EXCEPT !.addr = ctx[w].own])
               ELSE UNCHANGED job
    /\ UNCHANGED <<checkout, payment, stripe, hook, ctx, chain, rows, seed, faults>>

Exhausted(w) == ctx[w].n > MaxAttempts

\* Mutated: the cap is decided before the chain is asked.
CapFirst(w) ==
    IF ctx[w].own \in chain.dusted THEN "block"
    ELSE IF Exhausted(w) THEN "refund"
    ELSE IF MintedAt(ctx[w].own) THEN "recordNft" ELSE "sign"

\* What readAssetState's answer leads to.  The cap counts only once the chain
\* has said that there is no asset.
Verdict(w) ==
    IF ctx[w].own \in chain.dusted THEN "block"
    ELSE IF MintedAt(ctx[w].own) THEN "recordNft"
    ELSE IF Exhausted(w) THEN "refund" ELSE "sign"

ReadChain(w) ==
    /\ pc[w] = "read"
    /\ GoTo(w, Verdict(w))
    /\ UNCHANGED <<checkout, payment, job, stripe, hook, ctx, chain, rows, seed, faults>>

\* The signature is persisted before the send.
Sign(w) ==
    /\ pc[w] = "sign"
    /\ ctx' = [ctx EXCEPT ![w].sig = ctx[w].n]
    /\ IF job.status = "MINTING"
       THEN WriteJob([job EXCEPT !.sig = ctx[w].n])
       ELSE UNCHANGED job
    /\ GoTo(w, "send")
    /\ UNCHANGED <<checkout, payment, stripe, hook, chain, rows, seed, faults>>

\* sendTransaction: preflight refuses an address that is already an asset, and
\* the answer of a send that was broadcast can be lost.
Send(w) ==
    /\ pc[w] = "send"
    /\ IF MintedAt(ctx[w].own) \/ ctx[w].own \in chain.dusted
       THEN GoTo(w, "fail") /\ UNCHANGED <<chain, faults>>
       ELSE /\ chain' = [chain EXCEPT !.inflight =
                            @ \cup {[sig |-> ctx[w].sig, addr |-> ctx[w].own]}]
            /\ \/ GoTo(w, "confirm") /\ UNCHANGED faults
               \/ GoTo(w, "fail") /\ Fault
    /\ UNCHANGED <<checkout, payment, job, stripe, hook, ctx, rows, seed>>

\* Mutated: a transaction that was sent counts as landed.
SentIsLanded(w) == TRUE

SeenLanded(w) == \E t \in chain.assets : t.sig = ctx[w].sig

\* The bounded confirm poll: either it saw the transaction land or it gave up.
Confirm(w) ==
    /\ pc[w] = "confirm"
    /\ \/ SeenLanded(w) /\ GoTo(w, "recordNft")
       \/ GoTo(w, "fail")
    /\ UNCHANGED <<checkout, payment, job, stripe, hook, ctx, chain, rows, seed, faults>>

RecordNft(w) ==
    /\ pc[w] = "recordNft"
    /\ rows' = [rows EXCEPT !.nft = TRUE]
    /\ GoTo(w, "recordTx")
    /\ UNCHANGED <<checkout, payment, job, stripe, hook, ctx, chain, seed, faults>>

RecordTx(w) ==
    /\ pc[w] = "recordTx"
    /\ rows' = [rows EXCEPT !.txs = IF ctx[w].sig = 0 THEN @ ELSE @ \cup {ctx[w].sig}]
    /\ GoTo(w, "finish")
    /\ UNCHANGED <<checkout, payment, job, stripe, hook, ctx, chain, seed, faults>>

\* The last write, by primary key and under no condition.
Finish(w) ==
    /\ pc[w] = "finish"
    /\ WriteJob([job EXCEPT !.status = "MINTED", !.lease = "none", !.addr = ctx[w].own,
                            !.sig = ctx[w].sig, !.note = "none"])
    /\ Return(w)
    /\ UNCHANGED <<checkout, payment, stripe, hook, chain, rows, seed, faults>>

\* fail(): what releases the row is its status, whoever holds the lease.
MayRelease(w) == job.status = "MINTING"

Fail(w) ==
    /\ pc[w] \in {"fail", "block"}
    /\ IF MayRelease(w)
       THEN WriteJob([job EXCEPT !.status = IF pc[w] = "block" THEN "BLOCKED" ELSE "PENDING",
                                 !.lease = "none", !.note = "error"])
       ELSE UNCHANGED job
    /\ Return(w)
    /\ UNCHANGED <<checkout, payment, stripe, hook, chain, rows, seed, faults>>

\* An exception inside the try block.
Throw(w) ==
    /\ w \in Workers /\ pc[w] \in TryBlock
    /\ Fault
    /\ GoTo(w, "fail")
    /\ UNCHANGED <<checkout, payment, job, stripe, hook, ctx, chain, rows, seed>>

\* The isolate is evicted, or an admin request fails: nothing more is written.
Evict(a) ==
    /\ pc[a] # "idle"
    /\ Fault
    /\ Return(a)
    /\ UNCHANGED <<checkout, payment, job, stripe, hook, chain, rows, seed>>

-----------------------------------------------------------------------------
(* refundJob, run by an exhausted attempt or by adminRefundPayment.        *)

\* What the operator's button refuses.
MayRefund ==
    /\ payment.status = "PAID"
    /\ job.status # "MINTED"
    /\ ~(job.status = "MINTING" /\ job.lease = "live")

AdminRefund(a) ==
    /\ a \in Admins /\ pc[a] = "idle"
    /\ MayRefund
    /\ GoTo(a, "refund")
    /\ UNCHANGED <<checkout, payment, job, stripe, hook, ctx, chain, rows, seed, faults>>

RefundReads(a) ==
    /\ pc[a] = "refund"
    /\ IF payment.attached
       THEN GoTo(a, "stripe") /\ UNCHANGED <<job, ctx>>
       ELSE /\ WriteJob([job EXCEPT !.status = "FAILED", !.lease = "none", !.note = "error"])
            /\ Return(a)
    /\ UNCHANGED <<checkout, payment, stripe, hook, chain, rows, seed, faults>>

\* createRefund.  Its idempotency key is the payment's, so a repeat answers
\* with the refund already made; a dashboard refund leaves nothing to refund.
CallRefund(a) ==
    LET accepted == Emit("refunded", [stripe EXCEPT !.refund = "platform"])
    IN  /\ pc[a] = "stripe"
        /\ \/ /\ stripe.refund # "dashboard" /\ accepted
              /\ ctx' = [ctx EXCEPT ![a].ok = TRUE]
              /\ UNCHANGED faults
           \/ /\ stripe.refund = "dashboard"
              /\ UNCHANGED <<stripe, ctx, faults>>
           \/ /\ stripe.refund # "dashboard" /\ Fault
              /\ UNCHANGED stripe \/ accepted
              /\ UNCHANGED ctx
        /\ GoTo(a, "refundJob")
        /\ UNCHANGED <<checkout, payment, job, hook, chain, rows, seed>>

\* By primary key and under no condition: a refund that failed re-opens the job.
RefundWritesJob(a) ==
    /\ pc[a] = "refundJob"
    /\ WriteJob([job EXCEPT !.status = IF ctx[a].ok THEN "REFUNDED" ELSE "PENDING",
                            !.lease = "none", !.note = "error"])
    /\ GoTo(a, "refundPayment")
    /\ UNCHANGED <<checkout, payment, stripe, hook, ctx, chain, rows, seed, faults>>

RefundWritesPayment(a) ==
    /\ pc[a] = "refundPayment"
    /\ payment' = IF ctx[a].ok THEN [payment EXCEPT !.status = "REFUNDED"] ELSE payment
    /\ Return(a)
    /\ UNCHANGED <<checkout, job, stripe, hook, chain, rows, seed, faults>>

-----------------------------------------------------------------------------
(* Solana, and what may happen to an address or to the deployed seed.      *)

Land(t) ==
    /\ t \in chain.inflight
    /\ ~MintedAt(t.addr) /\ t.addr \notin chain.dusted
    /\ chain' = [chain EXCEPT !.inflight = @ \ {t}, !.assets = @ \cup {t}]
    /\ UNCHANGED <<checkout, payment, job, stripe, hook, pc, ctx, rows, seed, faults>>

Drop(t) ==
    /\ t \in chain.inflight
    /\ chain' = [chain EXCEPT !.inflight = @ \ {t}]
    /\ UNCHANGED <<checkout, payment, job, stripe, hook, pc, ctx, rows, seed, faults>>

Dust(s) ==
    /\ "dust" \in Outside /\ ~MintedAt(s)
    /\ chain' = [chain EXCEPT !.dusted = @ \cup {s}]
    /\ UNCHANGED <<checkout, payment, job, stripe, hook, pc, ctx, rows, seed, faults>>

RotateSeed ==
    /\ "rotateSeed" \in Outside
    /\ seed' \in Seeds \ {seed}
    /\ UNCHANGED <<checkout, payment, job, stripe, hook, pc, ctx, chain, rows, faults>>

-----------------------------------------------------------------------------
Checkout == CreateRow \/ CallStripe \/ MarkRefused \/ AttachIntent \/ CheckoutDies

StripeActs == Pay \/ Decline \/ CancelIntent \/ DashboardRefund

HookStep(h) ==
    \/ HookWritesPayment(h) \/ HookAdvancesJob(h) \/ HookCancelsJob(h)
    \/ HookStopsJob(h) \/ HookFlagsJob(h)

WorkerStep(w) ==
    \/ Claim(w) \/ Derive(w) \/ ReadChain(w) \/ Sign(w) \/ Send(w) \/ Confirm(w)
    \/ RecordNft(w) \/ RecordTx(w) \/ Finish(w) \/ Fail(w)

RefundStep(a) ==
    RefundReads(a) \/ CallRefund(a) \/ RefundWritesJob(a) \/ RefundWritesPayment(a)

Next ==
    \/ Checkout
    \/ StripeActs
    \/ \E h \in Hooks : (\E e \in Events : Deliver(h, e)) \/ HookStep(h) \/ HookDies(h)
    \/ LeaseExpires \/ BackoffElapses
    \/ \E w \in Workers : SweepPicks(w) \/ WorkerStep(w) \/ Throw(w)
    \/ \E a \in Admins : AdminRefund(a)
    \/ \E a \in Actors : RefundStep(a) \/ Evict(a)
    \/ \E t \in chain.inflight : Land(t) \/ Drop(t)
    \/ \E s \in Seeds : Dust(s)
    \/ RotateSeed

Spec == Init /\ [][Next]_vars

\* Stripe redelivers what is not acknowledged; the cron fires for ever
\* (wrangler.jsonc, every five minutes) and time passes; an invocation that is
\* not evicted takes its next statement; a transaction lands or dies.  Buyers,
\* operators and the checkout owe nothing.
Redeliver(e) == e \notin stripe.acked /\ \E h \in Hooks : Deliver(h, e)

Fairness ==
    /\ \A e \in Events : WF_vars(Redeliver(e))
    /\ \A h \in Hooks : WF_vars(HookStep(h))
    /\ \A w \in Workers : WF_vars(WorkerStep(w)) /\ WF_vars(SweepPicks(w))
    /\ \A a \in Actors : WF_vars(RefundStep(a))
    /\ WF_vars(LeaseExpires) /\ WF_vars(BackoffElapses)
    /\ WF_vars(\E t \in chain.inflight : Land(t) \/ Drop(t))

FairSpec == Spec /\ Fairness
=============================================================================
